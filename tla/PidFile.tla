------------------------------ MODULE PidFile ------------------------------
(***************************************************************************)
(* The pidfile protocol of pidfile_.c, as the sentry (sentry.c, agent.c)   *)
(* and the client command (command.c) run it against one path name.        *)
(*                                                                         *)
(* Every sentry forks a child, makes a pidfile naming that child with      *)
(* createPidFile(), runs the child, and removes the pidfile before reaping *)
(* the child.  Clients read the pidfile under a shared flock and ask the   *)
(* pid server of the sentry for a reference.  Each action is one system    *)
(* call on the shared file, so that every interleaving the code has is     *)
(* here: the stat() and the unlink() of unlinkPidFile_() are two steps,    *)
(* as are the open(O_EXCL) and the flock() that follows it.                *)
(*                                                                         *)
(* A sentry and its child are one identity: the pid and the signature      *)
(* (boot id and start time) written to the file name one process forever,  *)
(* so a recycled pid never matches an old signature.                       *)
(***************************************************************************)
EXTENDS Naturals, FiniteSets

CONSTANTS
  Sentry,          \* runs of pidsentry -s with the same --pidfile
  Client,          \* runs of pidsentry -c against that file
  Relaxed,         \* the clients given --relaxed
  Inode,           \* inode numbers of the directory's file system
  NoInode,         \* the path does not exist, or a process has no open file
  Empty,           \* content that readPidFile_() cannot parse
  Stale,           \* content that names a process of an earlier boot or run
  InitialContent   \* what the path may hold at first; NoInode when absent

Proc == Sentry \cup Client

ASSUME PidFileAssumption ==
  /\ Relaxed \subseteq Client
  /\ Sentry \cap Client = {}
  /\ NoInode \notin Inode
  /\ {Empty, Stale, NoInode} \cap Sentry = {}
  /\ Empty # Stale
  /\ InitialContent \subseteq {NoInode, Empty, Stale}

VARIABLES
  dir,       \* the inode the path name leads to
  content,   \* what each inode holds
  fd,        \* mFile of each process: the inode it has open
  lock,      \* mLock of each process: the flock it holds on that inode
  pc,        \* the next system call of each process
  child,     \* the child process of each sentry
  server,    \* the pid server of each sentry
  outcome,   \* the status createCommand() gives each client
  claim      \* what each client read from the pidfile

file == <<dir, content>>
vars == <<dir, content, fd, lock, pc, child, server, outcome, claim>>

\* A sentry that has stopped, in the order of its main path.
SentryEnded == {"exited", "failed", "crashed", "aborted"}
ClientEnded == {"done", "killed"}

SentryPc ==
  {"idle", "openOld", "lockOld", "readOld", "statOld", "unlinkOld", "closeOld",
   "createNew", "lockNew", "statNew", "discard", "write", "unlockNew",
   "umbilical", "release", "monitor", "stopping", "lockFinal", "truncate",
   "statFinal", "unlinkFinal", "closeFinal", "reap", "lost", "abandon"}
    \cup SentryEnded
ClientPc ==
  {"idle", "lockRead", "read", "connect", "await"} \cup ClientEnded

Outcomes ==
  {"none", "Ok", "OkNoChild", "Nonexistent", "Zombie", "Malformed", "Error"}

----------------------------------------------------------------------------
\* The file system and the process table.

\* Mutant of NamesLive: a child that has not been let go yet does not count.
NamesLiveOnceReleased(x) ==
  /\ x \in Sentry
  /\ child[x] \in {"released", "running", "dead"}

\* Mutant of NamesLive: the file names the sentry and not its child.
NamesLiveSentry(x) ==
  /\ x \in Sentry
  /\ pc[x] \notin SentryEnded

\* A process exists until it is reaped, and its signature can be read from
\* /proc until then.
NamesLive(x) ==
  /\ x \in Sentry
  /\ child[x] \in {"waiting", "released", "running", "dead"}

\* flock(LOCK_EX) and flock(LOCK_SH) are granted when the locks that other
\* open file descriptions hold on the inode allow it.
WriteLockFree(p) ==
  \A q \in Proc \ {p} : fd[q] = fd[p] => lock[q] = "none"
ReadLockFree(p) ==
  \A q \in Proc \ {p} : fd[q] = fd[p] => lock[q] # "write"

\* detectPidFileZombie_(): the path is gone or leads to another inode.
IsZombie(p) == dir # fd[p]

\* An inode number is reused once the inode has no name and is not open.
FreeInode(i) == i # dir /\ \A p \in Proc : fd[p] # i

Goto(p, from, to) == pc[p] = from /\ pc' = [pc EXCEPT ![p] = to]
Open(p, i)        == fd' = [fd EXCEPT ![p] = i]
Acquire(p, kind)  == lock' = [lock EXCEPT ![p] = kind]

\* close() drops the flock of its open file description.
Close(p) == Open(p, NoInode) /\ Acquire(p, "none")

----------------------------------------------------------------------------
TypeOK ==
  /\ dir \in Inode \cup {NoInode}
  /\ content \in [Inode -> Sentry \cup {Empty, Stale}]
  /\ fd \in [Proc -> Inode \cup {NoInode}]
  /\ lock \in [Proc -> {"none", "read", "write"}]
  /\ \A s \in Sentry : lock[s] # "read"
  /\ \A c \in Client : lock[c] # "write"
  /\ pc \in [Proc -> SentryPc \cup ClientPc]
  /\ \A s \in Sentry : pc[s] \in SentryPc
  /\ \A c \in Client : pc[c] \in ClientPc
  /\ child \in [Sentry -> {"none", "waiting", "released", "running", "dead",
                           "reaped"}]
  /\ server \in [Sentry -> {"none", "bound", "serving", "closed"}]
  /\ outcome \in [Client -> Outcomes]
  /\ claim \in [Client -> Sentry \cup {Empty, Stale}]

Init ==
  /\ \E x \in InitialContent, i \in Inode :
       /\ dir = (IF x = NoInode THEN NoInode ELSE i)
       /\ content = [j \in Inode |-> IF x = Stale /\ j = i THEN Stale ELSE Empty]
  /\ fd = [p \in Proc |-> NoInode]
  /\ lock = [p \in Proc |-> "none"]
  /\ pc = [p \in Proc |-> "idle"]
  /\ child = [s \in Sentry |-> "none"]
  /\ server = [s \in Sentry |-> "none"]
  /\ outcome = [c \in Client |-> "none"]
  /\ claim = [c \in Client |-> Empty]

----------------------------------------------------------------------------
\* The sentry: createSentry() and generatePidFile_().

\* The child is forked, and waits for the bell; the pid server is bound.
Start(s) ==
  /\ Goto(s, "idle", "openOld")
  /\ child' = [child EXCEPT ![s] = "waiting"]
  /\ server' = [server EXCEPT ![s] = "bound"]
  /\ UNCHANGED <<file, fd, lock, outcome, claim>>

OpenOld(s) ==
  /\ Goto(s, "openOld", IF dir = NoInode THEN "createNew" ELSE "lockOld")
  /\ Open(s, dir)
  /\ UNCHANGED <<file, lock, child, server, outcome, claim>>

\* Mutant of LockOld: the old file is read without its lock.
LockOldAtOnce(s) ==
  /\ Goto(s, "lockOld", "readOld")
  /\ Acquire(s, "write")
  /\ UNCHANGED <<file, fd, child, server, outcome, claim>>

\* Mutant of LockOld: a shared lock is taken to read the old file.
LockOldShared(s) ==
  /\ Goto(s, "lockOld", "readOld")
  /\ ReadLockFree(s)
  /\ Acquire(s, "read")
  /\ UNCHANGED <<file, fd, child, server, outcome, claim>>

LockOld(s) ==
  /\ Goto(s, "lockOld", "readOld")
  /\ WriteLockFree(s)
  /\ Acquire(s, "write")
  /\ UNCHANGED <<file, fd, child, server, outcome, claim>>

\* A pidfile that names a live process means the name is taken.
ReadOldTaken(s) ==
  /\ Goto(s, "readOld", "lost")
  /\ NamesLive(content[fd[s]])
  /\ Close(s)
  /\ UNCHANGED <<file, child, server, outcome, claim>>

ReadOldDead(s) ==
  /\ Goto(s, "readOld", "statOld")
  /\ ~NamesLive(content[fd[s]])
  /\ UNCHANGED <<file, fd, lock, child, server, outcome, claim>>

\* Mutant of StatOld: the zombie test is dropped.
StatOldSkipped(s) ==
  /\ Goto(s, "statOld", "unlinkOld")
  /\ UNCHANGED <<file, fd, lock, child, server, outcome, claim>>

\* unlinkPidFile_() does nothing when the pidfile is a zombie.
StatOld(s) ==
  /\ Goto(s, "statOld", IF IsZombie(s) THEN "closeOld" ELSE "unlinkOld")
  /\ UNCHANGED <<file, fd, lock, child, server, outcome, claim>>

\* Mutant of UnlinkOld: an abandoned file is left in place.
UnlinkOldSkipped(s) ==
  /\ Goto(s, "unlinkOld", "closeOld")
  /\ UNCHANGED <<file, fd, lock, child, server, outcome, claim>>

\* unlink() is by name: it removes whatever the path leads to by now.
UnlinkOld(s) ==
  /\ Goto(s, "unlinkOld", "closeOld")
  /\ dir' = NoInode
  /\ UNCHANGED <<content, fd, lock, child, server, outcome, claim>>

CloseOld(s) ==
  /\ Goto(s, "closeOld", "createNew")
  /\ Close(s)
  /\ UNCHANGED <<file, child, server, outcome, claim>>

\* Mutant of CreateNewExists: O_EXCL is dropped, the file is shared.
CreateNewShared(s) ==
  /\ dir # NoInode
  /\ Goto(s, "createNew", "lockNew")
  /\ Open(s, dir)
  /\ UNCHANGED <<file, lock, child, server, outcome, claim>>

\* open(O_CREAT | O_EXCL) goes back to the top of the loop on EEXIST.
CreateNewExists(s) ==
  /\ dir # NoInode
  /\ Goto(s, "createNew", "openOld")
  /\ UNCHANGED <<file, fd, lock, child, server, outcome, claim>>

CreateNew(s) ==
  /\ dir = NoInode
  /\ Goto(s, "createNew", "lockNew")
  /\ \E i \in Inode :
       /\ FreeInode(i)
       /\ dir' = i
       /\ content' = [content EXCEPT ![i] = Empty]
       /\ Open(s, i)
  /\ UNCHANGED <<lock, child, server, outcome, claim>>

----------------------------------------------------------------------------
\* The sentry: createPidFile() once the new file is open.

LockNew(s) ==
  /\ Goto(s, "lockNew", "statNew")
  /\ WriteLockFree(s)
  /\ Acquire(s, "write")
  /\ UNCHANGED <<file, fd, child, server, outcome, claim>>

\* Mutant of StatNew: the new file is taken to be still in place.
StatNewSkipped(s) ==
  /\ Goto(s, "statNew", "write")
  /\ UNCHANGED <<file, fd, lock, child, server, outcome, claim>>

\* Between creation and the flock the empty file looks abandoned, and a
\* competitor may have removed it.
StatNew(s) ==
  /\ Goto(s, "statNew", IF IsZombie(s) THEN "discard" ELSE "write")
  /\ UNCHANGED <<file, fd, lock, child, server, outcome, claim>>

Discard(s) ==
  /\ Goto(s, "discard", "openOld")
  /\ Close(s)
  /\ UNCHANGED <<file, child, server, outcome, claim>>

Write(s) ==
  /\ Goto(s, "write", "unlockNew")
  /\ content' = [content EXCEPT ![fd[s]] = s]
  /\ UNCHANGED <<dir, fd, lock, child, server, outcome, claim>>

\* The check of the path, the content or the unlocking fails: closeSentry() runs
\* with the exclusive lock still held, and closePidFile() removes the file.  Where
\* the file has been replaced, closePidFile() aborts instead, which has the effect
\* of CrashSentry.
CreateFails(s) ==
  /\ \E from \in {"statNew", "write", "unlockNew"} : Goto(s, from, "truncate")
  /\ ~IsZombie(s)
  /\ server' = [server EXCEPT ![s] = "closed"]
  /\ UNCHANGED <<file, fd, lock, child, outcome, claim>>

\* Mutant of UnlockNew: the lock is kept while the child runs.
UnlockNewKept(s) ==
  /\ Goto(s, "unlockNew", "umbilical")
  /\ UNCHANGED <<file, fd, lock, child, server, outcome, claim>>

UnlockNew(s) ==
  /\ Goto(s, "unlockNew", "umbilical")
  /\ Acquire(s, "none")
  /\ UNCHANGED <<file, fd, child, server, outcome, claim>>

----------------------------------------------------------------------------
\* The sentry: runSentry().

\* The umbilical process takes over the pid server.
CreateUmbilical(s) ==
  /\ Goto(s, "umbilical", "release")
  /\ server' = [server EXCEPT ![s] = "serving"]
  /\ UNCHANGED <<file, fd, lock, child, outcome, claim>>

\* Ringing the bell lets the child run its program, if it is still there.
Release(s) ==
  /\ Goto(s, "release", "monitor")
  /\ child' = [child EXCEPT ![s] = IF @ = "waiting" THEN "released" ELSE @]
  /\ UNCHANGED <<file, fd, lock, server, outcome, claim>>

\* monitorChildProcess() returns once the child has terminated.
StopUmbilical(s) ==
  /\ Goto(s, "monitor", "stopping")
  /\ child[s] = "dead"
  /\ UNCHANGED <<file, fd, lock, child, server, outcome, claim>>

\* stopUmbilicalProcess() returns when the umbilical has stopped, or when it
\* times out while the umbilical still serves.
UmbilicalStopped(s) ==
  /\ Goto(s, "stopping", "lockFinal")
  /\ UNCHANGED <<file, fd, lock, child, server, outcome, claim>>

\* Mutant of LockFinal: readers are not waited for.
LockFinalAtOnce(s) ==
  /\ Goto(s, "lockFinal", "truncate")
  /\ Acquire(s, "write")
  /\ UNCHANGED <<file, fd, child, server, outcome, claim>>

LockFinal(s) ==
  /\ Goto(s, "lockFinal", "truncate")
  /\ WriteLockFree(s)
  /\ Acquire(s, "write")
  /\ UNCHANGED <<file, fd, child, server, outcome, claim>>

Truncate(s) ==
  /\ Goto(s, "truncate", "statFinal")
  /\ content' = [content EXCEPT ![fd[s]] = Empty]
  /\ UNCHANGED <<dir, fd, lock, child, server, outcome, claim>>

\* ERT_ABORT_IF() ends the sentry when its own pidfile is a zombie; the
\* kernel then closes its files.
StatFinal(s) ==
  /\ Goto(s, "statFinal", IF IsZombie(s) THEN "aborted" ELSE "unlinkFinal")
  /\ IF IsZombie(s) THEN Close(s) ELSE UNCHANGED <<fd, lock>>
  /\ UNCHANGED <<file, child, server, outcome, claim>>

UnlinkFinal(s) ==
  /\ Goto(s, "unlinkFinal", "closeFinal")
  /\ dir' = NoInode
  /\ UNCHANGED <<content, fd, lock, child, server, outcome, claim>>

CloseFinal(s) ==
  /\ Goto(s, "closeFinal", "reap")
  /\ Close(s)
  /\ UNCHANGED <<file, child, server, outcome, claim>>

\* reapChildProcess(), or closeChildProcess() which kills the child first.
Reap(s) ==
  /\ Goto(s, "reap", "exited")
  /\ child' = [child EXCEPT ![s] = "reaped"]
  /\ UNCHANGED <<file, fd, lock, server, outcome, claim>>

\* closeSentry() of a sentry that never had the pidfile.
GiveUp(s) ==
  /\ Goto(s, "lost", "failed")
  /\ child' = [child EXCEPT ![s] = "reaped"]
  /\ server' = [server EXCEPT ![s] = "closed"]
  /\ UNCHANGED <<file, fd, lock, outcome, claim>>

\* A step of runSentry() fails: closeSentry() closes the pidfile, which is
\* not locked and so stays in place ...
Fail(s) ==
  /\ \E from \in {"umbilical", "release", "monitor", "stopping", "lockFinal"} :
       Goto(s, from, "abandon")
  /\ Close(s)
  /\ server' = [server EXCEPT ![s] = IF @ = "bound" THEN "closed" ELSE @]
  /\ UNCHANGED <<file, child, outcome, claim>>

\* ... and then kills the child and waits for it to be reaped.
Abandon(s) ==
  /\ child[s] = "dead"
  /\ Goto(s, "abandon", "failed")
  /\ child' = [child EXCEPT ![s] = "reaped"]
  /\ UNCHANGED <<file, fd, lock, server, outcome, claim>>

----------------------------------------------------------------------------
\* The child, the umbilical and init, as far as the pidfile is concerned.

Exec(s) ==
  /\ child[s] = "released"
  /\ child' = [child EXCEPT ![s] = "running"]
  /\ UNCHANGED <<file, fd, lock, pc, server, outcome, claim>>

\* The program ends, a signal kills it, or the waiting child finds the
\* sentry gone.  It is not reaped yet.
ChildDies(s) ==
  /\ child[s] \in {"waiting", "released", "running"}
  /\ child' = [child EXCEPT ![s] = "dead"]
  /\ UNCHANGED <<file, fd, lock, pc, server, outcome, claim>>

\* init reaps the child of a sentry that is gone.
OrphanReaped(s) ==
  /\ pc[s] \in {"crashed", "aborted"}
  /\ child[s] = "dead"
  /\ child' = [child EXCEPT ![s] = "reaped"]
  /\ UNCHANGED <<file, fd, lock, pc, server, outcome, claim>>

\* The umbilical loses the sentry, or is told to stop, and serves no more.
CloseServer(s) ==
  /\ server[s] = "serving"
  /\ pc[s] \notin {"release", "monitor"}
  /\ server' = [server EXCEPT ![s] = "closed"]
  /\ UNCHANGED <<file, fd, lock, pc, child, outcome, claim>>

\* The umbilical may be killed while the sentry still depends on it.
UmbilicalDies(s) ==
  /\ server[s] = "serving"
  /\ pc[s] \in {"release", "monitor"}
  /\ server' = [server EXCEPT ![s] = "closed"]
  /\ UNCHANGED <<file, fd, lock, pc, child, outcome, claim>>

\* SIGKILL at any system call: the kernel closes the files.
CrashSentry(s) ==
  /\ pc[s] \notin SentryEnded \cup {"idle"}
  /\ pc' = [pc EXCEPT ![s] = "crashed"]
  /\ Close(s)
  /\ server' = [server EXCEPT ![s] = IF @ = "bound" THEN "closed" ELSE @]
  /\ UNCHANGED <<file, child, outcome, claim>>

----------------------------------------------------------------------------
\* The client: createCommand().

\* --relaxed turns two of the failures into a run without a child.
Status(c, status) ==
  IF c \in Relaxed /\ status \in {"Nonexistent", "Zombie"}
  THEN "OkNoChild"
  ELSE status

\* The outcome is fixed, and the pidfile closed with its lock.
Finish(c, from, status) ==
  /\ Goto(c, from, "done")
  /\ outcome' = [outcome EXCEPT ![c] = Status(c, status)]
  /\ Close(c)

OpenMissing(c) ==
  /\ dir = NoInode
  /\ Finish(c, "idle", "Nonexistent")
  /\ UNCHANGED <<file, child, server, claim>>

OpenForRead(c) ==
  /\ dir # NoInode
  /\ Goto(c, "idle", "lockRead")
  /\ Open(c, dir)
  /\ UNCHANGED <<file, lock, child, server, outcome, claim>>

LockRead(c) ==
  /\ Goto(c, "lockRead", "read")
  /\ ReadLockFree(c)
  /\ Acquire(c, "read")
  /\ UNCHANGED <<file, fd, child, server, outcome, claim>>

\* readPidFile(): -1 for what it cannot parse, 0 for a process that is gone.
ReadUnusable(c) ==
  /\ pc[c] = "read"
  /\ ~NamesLive(content[fd[c]])
  /\ claim' = [claim EXCEPT ![c] = content[fd[c]]]
  /\ Finish(c, "read", IF content[fd[c]] = Empty THEN "Malformed" ELSE "Zombie")
  /\ UNCHANGED <<file, child, server>>

ReadLive(c) ==
  /\ Goto(c, "read", "connect")
  /\ NamesLive(content[fd[c]])
  /\ claim' = [claim EXCEPT ![c] = content[fd[c]]]
  /\ UNCHANGED <<file, fd, lock, child, server, outcome>>

Connect(c) ==
  /\ Goto(c, "connect", "await")
  /\ server[claim[c]] \in {"bound", "serving"}
  /\ UNCHANGED <<file, fd, lock, child, server, outcome, claim>>

\* Mutant of Refused: a client that is connected never notices the end.
RefusedOnConnect(c) ==
  /\ Finish(c, "connect", "Error")
  /\ server[claim[c]] \notin {"bound", "serving"}
  /\ UNCHANGED <<file, child, server, claim>>

\* The address is bound no more, or the connection ends without an answer.
Refused(c) ==
  /\ \E from \in {"connect", "await"} : Finish(c, from, "Error")
  /\ server[claim[c]] \notin {"bound", "serving"}
  /\ UNCHANGED <<file, child, server, claim>>

\* The pid server knows the signature, and answers.
Acknowledged(c) ==
  /\ Finish(c, "await", "Ok")
  /\ server[claim[c]] = "serving"
  /\ UNCHANGED <<file, child, server, claim>>

KillClient(c) ==
  /\ pc[c] \notin ClientEnded \cup {"idle"}
  /\ pc' = [pc EXCEPT ![c] = "killed"]
  /\ Close(c)
  /\ UNCHANGED <<file, child, server, outcome, claim>>

----------------------------------------------------------------------------
CreateStep(s) ==
  \/ OpenOld(s) \/ LockOld(s) \/ ReadOldTaken(s) \/ ReadOldDead(s)
  \/ StatOld(s) \/ UnlinkOld(s) \/ CloseOld(s)
  \/ CreateNewExists(s) \/ CreateNew(s)
  \/ LockNew(s) \/ StatNew(s) \/ Discard(s) \/ Write(s) \/ UnlockNew(s)

RunStep(s) ==
  \/ CreateUmbilical(s) \/ Release(s) \/ StopUmbilical(s) \/ UmbilicalStopped(s)
  \/ LockFinal(s) \/ Truncate(s) \/ StatFinal(s) \/ UnlinkFinal(s)
  \/ CloseFinal(s) \/ Reap(s) \/ GiveUp(s) \/ Abandon(s)

\* What the sentry, and the processes around it, do of their own accord.
SentryStep(s) == CreateStep(s) \/ RunStep(s)
WorldStep(s)  == Exec(s) \/ OrphanReaped(s) \/ CloseServer(s)

ClientStep(c) ==
  \/ LockRead(c) \/ ReadUnusable(c) \/ ReadLive(c)
  \/ Connect(c) \/ Refused(c) \/ Acknowledged(c)

\* Every process has ended, and every child is reaped.
Terminated ==
  /\ \A s \in Sentry : pc[s] \in SentryEnded /\ child[s] = "reaped"
  /\ \A c \in Client : pc[c] \in ClientEnded
  /\ UNCHANGED vars

Next ==
  \/ \E s \in Sentry :
       \/ Start(s) \/ SentryStep(s) \/ WorldStep(s) \/ ChildDies(s)
       \/ CreateFails(s) \/ Fail(s) \/ UmbilicalDies(s) \/ CrashSentry(s)
  \/ \E c \in Client :
       OpenMissing(c) \/ OpenForRead(c) \/ ClientStep(c) \/ KillClient(c)
  \/ Terminated

Spec == Init /\ [][Next]_vars

\* A process that can take its next step takes it; the child of a sentry that
\* is gone dies, by the bell or by the umbilical, and closeChildProcess() kills.
Fairness ==
  /\ \A s \in Sentry : WF_vars(SentryStep(s)) /\ WF_vars(WorldStep(s))
  /\ \A s \in Sentry : WF_vars(pc[s] \in {"crashed", "abandon"} /\ ChildDies(s))
  /\ \A c \in Client : WF_vars(ClientStep(c))

FairSpec == Spec /\ Fairness

----------------------------------------------------------------------------
\* Properties.

\* At most one program runs under the name, however the sentries that start,
\* fail and crash interleave: pidfile_.c is built for this and nothing else.
SingleInstance ==
  \A s, t \in Sentry : child[s] = "running" /\ child[t] = "running" => s = t

\* From the moment createPidFile() returns until the sentry takes the lock to
\* remove its pidfile, the path leads to the file it has open, and that file
\* names its child: no competitor replaces or removes it in between.
Owns(s) == pc[s] \in {"unlockNew", "umbilical", "release", "monitor", "stopping",
                      "lockFinal", "truncate"}
Named(s) == dir # NoInode /\ content[dir] = s
OwnerIsNamed ==
  \A s \in Sentry :
    Owns(s) /\ content[fd[s]] # Empty => dir = fd[s] /\ Named(s)

\* A program whose sentry was killed keeps the name until it has ended, so
\* that no second instance starts beside it.
RunningIsNamed == \A s \in Sentry : child[s] = "running" => Named(s)

\* The ERT_ABORT_IF() of closePidFile() is never reached by what competitors do: the
\* sentry that removes its pidfile finds it still in place.
NeverAborts == \A s \in Sentry : pc[s] # "aborted"

\* command.c:126 says the pid a client has read stays viable, because the
\* sentry does not reap the child before it can lock the pidfile.  It holds
\* of every sentry that has not crashed and has not failed.
Pinned(c, s) == pc[c] \in {"connect", "await"} /\ claim[c] = s
ReadLockPinsChild ==
  \A c \in Client, s \in Sentry :
    Pinned(c, s) /\ child[s] = "reaped" => pc[s] \in {"crashed", "failed"}

\* The name is removed only by a process with the exclusive lock on the very
\* inode it leads to, and never while the file names a live process: the
\* stat() and the unlink() by name are not atomic, and the lock makes them so.
UnlinksUnderLock ==
  [][dir # NoInode /\ dir' # dir =>
       /\ ~NamesLive(content[dir])
       /\ \E s \in Sentry : fd[s] = dir /\ lock[s] = "write"]_vars

\* PidFile keeps the promise of ServiceName: the owner is the live process
\* that the path names.
Name == INSTANCE ServiceName WITH
  Service <- Sentry,
  Nobody  <- Stale,
  owner   <- IF dir # NoInode /\ NamesLive(content[dir])
             THEN content[dir] ELSE Stale,
  running <- {s \in Sentry : child[s] = "running"}
ImplementsServiceName == Name!Spec

\* A sentry waiting for the lock to remove its pidfile gets it: the clients
\* that hold it shared let go, because the server answers or closes.
ShutdownCompletes ==
  \A s \in Sentry : pc[s] = "lockFinal" ~> pc[s] \in SentryEnded

\* A client that has opened the pidfile comes to a result, whatever becomes
\* of the sentry it asks.
ClientsFinish ==
  \A c \in Client : pc[c] = "lockRead" ~> pc[c] \in ClientEnded

\* The loops of createPidFile() end for a sentry once the others have left
\* them: it has the pidfile, or has lost to a live process.
Creating(s) ==
  pc[s] \in {"openOld", "lockOld", "readOld", "statOld", "unlinkOld", "closeOld",
             "createNew", "lockNew", "statNew", "discard", "write", "unlockNew"}
UncontendedCreateEnds ==
  \A s \in Sentry :
    <>[](\A t \in Sentry \ {s} : ~Creating(t)) => []<>~Creating(s)

----------------------------------------------------------------------------
\* The inductive invariant behind the safety properties: its parts say what
\* each program counter knows.

Exclusive == {"readOld", "statOld", "unlinkOld", "closeOld", "statNew", "discard",
              "write", "unlockNew", "truncate", "statFinal", "unlinkFinal",
              "closeFinal"}
Supervising == {"umbilical", "release", "monitor", "stopping", "lockFinal"}
\* Before the name of the child is on file, and after it is gone for good.
Unwritten == {"idle", "openOld", "lockOld", "readOld", "statOld", "unlinkOld",
              "closeOld", "createNew", "lockNew", "statNew", "discard", "write",
              "lost"}
Erased    == {"statFinal", "unlinkFinal", "closeFinal", "reap", "exited"}
\* The file is open for writing: it is the one that this sentry created.
Created   == {"lockNew", "statNew", "discard", "write", "unlockNew", "truncate",
              "statFinal", "unlinkFinal", "closeFinal"} \cup Supervising

Files ==
  /\ \A s \in Sentry :
       /\ lock[s] = IF pc[s] \in Exclusive THEN "write" ELSE "none"
       /\ fd[s] # NoInode <=> pc[s] \in Exclusive \cup Supervising \cup {"lockOld", "lockNew"}
  /\ \A c \in Client :
       /\ lock[c] = IF pc[c] \in {"read", "connect", "await"} THEN "read" ELSE "none"
       /\ fd[c] # NoInode <=> pc[c] \in {"lockRead", "read", "connect", "await"}

Exclusion ==
  \A p, q \in Proc : p # q /\ fd[p] = fd[q] /\ lock[p] = "write" => lock[q] = "none"

OneCreator ==
  \A s, t \in Sentry :
    s # t /\ pc[s] \in Created /\ pc[t] \in Created => fd[s] # fd[t]

Contents ==
  \A s \in Sentry :
    /\ pc[s] \in {"statOld", "unlinkOld"} => ~NamesLive(content[fd[s]])
    /\ pc[s] \in {"lockNew", "statNew", "write", "statFinal", "unlinkFinal"}
         => content[fd[s]] = Empty
    /\ pc[s] \in Supervising \cup {"unlockNew"} => content[fd[s]] = s
    /\ pc[s] = "truncate" => content[fd[s]] \in {s, Empty}

\* A stat() that found the path still in place stays true.
InPlace ==
  \A s \in Sentry :
    pc[s] \in Supervising \cup {"unlinkOld", "write", "unlockNew", "truncate",
                               "statFinal", "unlinkFinal"} => dir = fd[s]

OneName ==
  \A s \in Sentry, i \in Inode :
    content[i] = s =>
      /\ pc[s] \notin Unwritten \cup Erased
      /\ pc[s] \in Created => i = fd[s]

Children ==
  \A s \in Sentry :
    /\ child[s] = "none" <=> pc[s] = "idle"
    /\ child[s] = "reaped" => pc[s] \in SentryEnded
    /\ pc[s] \in {"exited", "failed"} => child[s] = "reaped"
    /\ pc[s] \in {"stopping", "lockFinal"} => child[s] = "dead"
    /\ child[s] \in {"released", "running"}
         => Named(s) /\ pc[s] \in {"monitor", "abandon", "crashed"}

Claims ==
  \A c \in Client :
    pc[c] \in {"connect", "await"} => claim[c] \in Sentry /\ content[fd[c]] = claim[c]

\* The parts hold together after every step of every process.
IInv ==
  /\ TypeOK /\ Files /\ Exclusion /\ OneCreator /\ Contents
  /\ InPlace /\ OneName /\ Children /\ Claims /\ NeverAborts
============================================================================
