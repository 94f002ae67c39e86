-------------------------- MODULE PidFileProofs --------------------------
(***************************************************************************)
(* Proofs about PidFile for any number of sentries, clients and inodes.    *)
(*                                                                         *)
(* IInv is inductive.  The argument rests on the flock: a sentry past its  *)
(* stat() holds the exclusive lock of the inode that the path leads to, so *)
(* whoever else could remove or replace that inode is kept out; and once   *)
(* the lock is released the content, which names a process that exists,    *)
(* takes over the part of the lock.                                        *)
(***************************************************************************)
EXTENDS PidFile, TLAPS

\* The sets of program counters, and what it means to be named, are expanded
\* everywhere.
USE PidFileAssumption
    DEF Proc, SentryPc, ClientPc, SentryEnded, ClientEnded, Outcomes,
        Exclusive, Supervising, Unwritten, Erased, Created, NamesLive, Named

----------------------------------------------------------------------------
\* The five steps that change the path or the content of a file.

\* Removing an abandoned pidfile: the lock makes stat() and unlink() one step.
LEMMA UnlinkOldKeeps ==
  ASSUME IInv, NEW s \in Sentry, UnlinkOld(s) PROVE IInv'
<1>1. dir = fd[s] /\ dir # NoInode /\ lock[s] = "write" /\ ~NamesLive(content[dir])
  BY DEF IInv, InPlace, Files, Contents, UnlinkOld, Goto
<1>2. ASSUME NEW t \in Sentry, t # s, pc[t] \in Exclusive \cup Supervising
      PROVE  dir # fd[t]
  BY <1>1, <1>2 DEF IInv, TypeOK, Files, Exclusion, Contents, Children
<1>3. \A t \in Sentry : Named(t) => child[t] \notin {"released", "running"}
  BY <1>1
<1>4. InPlace'
  BY <1>1, <1>2 DEF IInv, TypeOK, InPlace, UnlinkOld, Goto
<1>5. Children'
  BY <1>3 DEF IInv, TypeOK, Children, UnlinkOld, Goto
<1>6. TypeOK' /\ Files' /\ Exclusion' /\ OneCreator' /\ Contents' /\ OneName'
      /\ Claims' /\ NeverAborts'
  BY DEF IInv, TypeOK, Files, Exclusion, OneCreator, Contents, OneName, Claims,
         NeverAborts, UnlinkOld, Goto
<1>. QED  BY <1>4, <1>5, <1>6 DEF IInv

\* A new inode is one that nobody has open.
LEMMA CreateNewKeeps ==
  ASSUME IInv, NEW s \in Sentry, CreateNew(s) PROVE IInv'
<1>. PICK i \in Inode : /\ FreeInode(i) /\ dir' = i
                        /\ content' = [content EXCEPT ![i] = Empty] /\ Open(s, i)
  BY DEF CreateNew
<1>1. \A p \in Proc : fd[p] # i
  BY DEF FreeInode
<1>2. dir = NoInode /\ fd[s] = NoInode /\ lock[s] = "none"
  BY DEF IInv, Files, CreateNew, Goto
<1>3. \A t \in Sentry : ~Named(t) /\ child[t] \notin {"released", "running"}
  BY <1>2 DEF IInv, Children
<1>4. TypeOK' /\ Files' /\ Exclusion' /\ OneCreator'
  BY <1>1, <1>2 DEF IInv, TypeOK, Files, Exclusion, OneCreator, CreateNew, Goto, Open
<1>5. Contents' /\ OneName' /\ Claims'
  BY <1>1, <1>2 DEF IInv, TypeOK, Files, Contents, OneName, Claims, CreateNew, Goto, Open
<1>6. InPlace'
  BY <1>1, <1>2 DEF IInv, TypeOK, Files, InPlace, CreateNew, Goto, Open
<1>7. Children' /\ NeverAborts'
  BY <1>3 DEF IInv, TypeOK, Children, NeverAborts, CreateNew, Goto
<1>. QED  BY <1>4, <1>5, <1>6, <1>7 DEF IInv

\* Writing the child to the new file takes the name.
LEMMA WriteKeeps ==
  ASSUME IInv, NEW s \in Sentry, Write(s) PROVE IInv'
<1>1. /\ dir = fd[s] /\ fd[s] \in Inode /\ lock[s] = "write"
      /\ content[fd[s]] = Empty /\ child[s] \in {"waiting", "dead"}
  BY DEF IInv, TypeOK, InPlace, Files, Contents, Children, Write, Goto
<1>2. /\ \A p \in Proc \ {s} : fd[p] = fd[s] => lock[p] = "none"
      /\ \A t \in Sentry \ {s} : pc[t] \in Created => fd[t] # fd[s]
  BY <1>1 DEF IInv, Exclusion, OneCreator, Write, Goto
<1>3. Contents' /\ Claims'
  BY <1>1, <1>2 DEF IInv, TypeOK, Files, Contents, Claims, Write, Goto
<1>4. OneName'
  BY <1>1, <1>2 DEF IInv, TypeOK, OneName, Write, Goto
<1>5. Children'
  BY <1>1 DEF IInv, TypeOK, Children, Write, Goto
<1>6. TypeOK' /\ Files' /\ Exclusion' /\ OneCreator' /\ InPlace' /\ NeverAborts'
  BY DEF IInv, TypeOK, Files, Exclusion, OneCreator, InPlace, NeverAborts, Write, Goto
<1>. QED  BY <1>3, <1>4, <1>5, <1>6 DEF IInv

\* Emptying the file gives the name up; no reader holds it.
LEMMA TruncateKeeps ==
  ASSUME IInv, NEW s \in Sentry, Truncate(s) PROVE IInv'
<1>1. /\ dir = fd[s] /\ fd[s] \in Inode /\ lock[s] = "write"
      /\ content[fd[s]] \in {s, Empty} /\ child[s] \notin {"released", "running"}
  BY DEF IInv, TypeOK, InPlace, Files, Contents, Children, Truncate, Goto
<1>2. /\ \A p \in Proc \ {s} : fd[p] = fd[s] => lock[p] = "none"
      /\ \A t \in Sentry \ {s} : pc[t] \in Created => fd[t] # fd[s]
  BY <1>1 DEF IInv, Exclusion, OneCreator, Truncate, Goto
<1>3. Contents' /\ Claims'
  BY <1>1, <1>2 DEF IInv, TypeOK, Files, Contents, Claims, Truncate, Goto
<1>4. OneName'
  BY <1>1, <1>2 DEF IInv, TypeOK, OneName, Truncate, Goto
<1>5. Children'
  BY <1>1 DEF IInv, TypeOK, Children, Truncate, Goto
<1>6. TypeOK' /\ Files' /\ Exclusion' /\ OneCreator' /\ InPlace' /\ NeverAborts'
  BY DEF IInv, TypeOK, Files, Exclusion, OneCreator, InPlace, NeverAborts, Truncate, Goto
<1>. QED  BY <1>3, <1>4, <1>5, <1>6 DEF IInv

\* Removing the emptied pidfile, with the lock still held.
LEMMA UnlinkFinalKeeps ==
  ASSUME IInv, NEW s \in Sentry, UnlinkFinal(s) PROVE IInv'
<1>1. /\ dir = fd[s] /\ dir # NoInode /\ lock[s] = "write"
      /\ content[dir] = Empty
  BY DEF IInv, InPlace, Files, Contents, UnlinkFinal, Goto
<1>2. ASSUME NEW t \in Sentry, t # s, pc[t] \in Exclusive \cup Supervising
      PROVE  dir # fd[t]
  BY <1>1, <1>2 DEF IInv, TypeOK, Files, Exclusion, Contents
<1>3. \A t \in Sentry : child[t] \notin {"released", "running"}
  BY <1>1 DEF IInv, Children
<1>4. InPlace'
  BY <1>1, <1>2 DEF IInv, TypeOK, InPlace, UnlinkFinal, Goto
<1>5. Children'
  BY <1>3 DEF IInv, TypeOK, Children, UnlinkFinal, Goto
<1>6. TypeOK' /\ Files' /\ Exclusion' /\ OneCreator' /\ Contents' /\ OneName'
      /\ Claims' /\ NeverAborts'
  BY DEF IInv, TypeOK, Files, Exclusion, OneCreator, Contents, OneName, Claims,
         NeverAborts, UnlinkFinal, Goto
<1>. QED  BY <1>4, <1>5, <1>6 DEF IInv

----------------------------------------------------------------------------
\* Every other step, by the part of the program that takes it.

\* A step of createPidFile().
LEMMA CreateStepKeeps ==
  ASSUME IInv, NEW s \in Sentry, CreateStep(s)
  PROVE  IInv'
<1>. USE DEF IInv, TypeOK, Files, Exclusion, OneCreator, Contents, InPlace,
         OneName, Children, Claims, NeverAborts
<1>1. CASE OpenOld(s)
  BY <1>1 DEF OpenOld, Goto, Open, file
<1>2. CASE LockOld(s)
  BY <1>2 DEF LockOld, WriteLockFree, Goto, Acquire, file
<1>3. CASE ReadOldTaken(s)
  BY <1>3 DEF ReadOldTaken, NamesLive, Goto, Close, file, Open, Acquire
<1>4. CASE ReadOldDead(s)
  BY <1>4 DEF ReadOldDead, NamesLive, Goto, file
<1>5. CASE StatOld(s)
  BY <1>5 DEF StatOld, IsZombie, Goto, file
<1>6. CASE UnlinkOld(s)
  BY <1>6, UnlinkOldKeeps
<1>7. CASE CloseOld(s)
  BY <1>7 DEF CloseOld, Goto, Close, file, Open, Acquire
<1>8. CASE CreateNewExists(s)
  BY <1>8 DEF CreateNewExists, Goto, file
<1>9. CASE CreateNew(s)
  BY <1>9, CreateNewKeeps
<1>10. CASE LockNew(s)
  BY <1>10 DEF LockNew, WriteLockFree, Goto, Acquire, file
<1>11. CASE StatNew(s)
  BY <1>11 DEF StatNew, IsZombie, Goto, file
<1>12. CASE Discard(s)
  BY <1>12 DEF Discard, Goto, Close, file, Open, Acquire
<1>13. CASE Write(s)
  BY <1>13, WriteKeeps
<1>14. CASE UnlockNew(s)
  BY <1>14 DEF UnlockNew, Goto, Acquire, file
<1>. QED  BY <1>1, <1>2, <1>3, <1>4, <1>5, <1>6, <1>7, <1>8, <1>9, <1>10,
         <1>11, <1>12, <1>13, <1>14 DEF CreateStep

\* A step of runSentry() or closeSentry().
LEMMA RunStepKeeps ==
  ASSUME IInv, NEW s \in Sentry, RunStep(s)
  PROVE  IInv'
<1>. USE DEF IInv, TypeOK, Files, Exclusion, OneCreator, Contents, InPlace,
         OneName, Children, Claims, NeverAborts
<1>1. CASE CreateUmbilical(s)
  BY <1>1 DEF CreateUmbilical, Goto, file
<1>2. CASE Release(s)
  BY <1>2 DEF Release, Goto, file
<1>3. CASE StopUmbilical(s)
  BY <1>3 DEF StopUmbilical, Goto, file
<1>4. CASE UmbilicalStopped(s)
  BY <1>4 DEF UmbilicalStopped, Goto, file
<1>5. CASE LockFinal(s)
  BY <1>5 DEF LockFinal, WriteLockFree, Goto, Acquire, file
<1>6. CASE Truncate(s)
  BY <1>6, TruncateKeeps
<1>7. CASE StatFinal(s)
  BY <1>7 DEF StatFinal, IsZombie, Goto, Close, file, Open, Acquire
<1>8. CASE UnlinkFinal(s)
  BY <1>8, UnlinkFinalKeeps
<1>9. CASE CloseFinal(s)
  BY <1>9 DEF CloseFinal, Goto, Close, file, Open, Acquire
<1>10. CASE Reap(s)
  BY <1>10 DEF Reap, Goto, file
<1>11. CASE GiveUp(s)
  BY <1>11 DEF GiveUp, Goto, file
<1>12. CASE Abandon(s)
  BY <1>12 DEF Abandon, Goto, file
<1>. QED  BY <1>1, <1>2, <1>3, <1>4, <1>5, <1>6, <1>7, <1>8, <1>9, <1>10,
         <1>11, <1>12 DEF RunStep

\* A step of the child, the umbilical or init, a failure or a crash.
LEMMA WorldKeeps ==
  ASSUME IInv, NEW s \in Sentry, \/ WorldStep(s) \/ Start(s) \/ ChildDies(s) \/ CreateFails(s)
         \/ Fail(s) \/ UmbilicalDies(s) \/ CrashSentry(s)
  PROVE  IInv'
<1>. USE DEF IInv, TypeOK, Files, Exclusion, OneCreator, Contents, InPlace,
         OneName, Children, Claims, NeverAborts
<1>1. CASE Exec(s)
  BY <1>1 DEF Exec, file
<1>2. CASE OrphanReaped(s)
  BY <1>2 DEF OrphanReaped, file
<1>3. CASE CloseServer(s)
  BY <1>3 DEF CloseServer, file
<1>4. CASE Start(s)
  BY <1>4 DEF Start, Goto, file
<1>5. CASE ChildDies(s)
  BY <1>5 DEF ChildDies, file
<1>6. CASE CreateFails(s)
  <2>1. PICK from \in {"statNew", "write", "unlockNew"} : Goto(s, from, "truncate")
    BY <1>6 DEF CreateFails
  <2>2. dir = fd[s]
    BY <1>6 DEF CreateFails, IsZombie
  <2>3. server' = [server EXCEPT ![s] = "closed"]
        /\ UNCHANGED <<file, fd, lock, child, outcome, claim>>
    BY <1>6 DEF CreateFails
  <2>. QED  BY <2>1, <2>2, <2>3 DEF Goto, file
<1>7. CASE Fail(s)
  BY <1>7 DEF Fail, Goto, Close, file, Open, Acquire
<1>8. CASE UmbilicalDies(s)
  BY <1>8 DEF UmbilicalDies, file
<1>9. CASE CrashSentry(s)
  BY <1>9 DEF CrashSentry, Close, file, Open, Acquire
<1>. QED  BY <1>1, <1>2, <1>3, <1>4, <1>5, <1>6, <1>7, <1>8, <1>9 DEF WorldStep

\* A step of a client.
LEMMA ClientKeeps ==
  ASSUME IInv, NEW c \in Client,
         \/ OpenMissing(c) \/ OpenForRead(c) \/ ClientStep(c) \/ KillClient(c)
  PROVE  IInv'
<1>. USE DEF IInv, TypeOK, Files, Exclusion, OneCreator, Contents, InPlace,
         OneName, Children, Claims, NeverAborts
<1>1. CASE LockRead(c)
  BY <1>1 DEF LockRead, ReadLockFree, Goto, Acquire, file
<1>2. CASE ReadUnusable(c)
  BY <1>2 DEF ReadUnusable, NamesLive, Finish, file, Goto, Close, Status, Open,
      Acquire
<1>3. CASE ReadLive(c)
  BY <1>3 DEF ReadLive, NamesLive, Goto, file
<1>4. CASE Connect(c)
  BY <1>4 DEF Connect, Goto, file
<1>5. CASE Refused(c)
  BY <1>5 DEF Refused, Finish, file, Goto, Close, Status, Open, Acquire
<1>6. CASE Acknowledged(c)
  BY <1>6 DEF Acknowledged, Finish, file, Goto, Close, Status, Open, Acquire
<1>7. CASE OpenMissing(c)
  BY <1>7 DEF OpenMissing, Finish, file, Goto, Close, Status, Open, Acquire
<1>8. CASE OpenForRead(c)
  BY <1>8 DEF OpenForRead, Goto, Open, file
<1>9. CASE KillClient(c)
  BY <1>9 DEF KillClient, Close, file, Open, Acquire
<1>. QED  BY <1>1, <1>2, <1>3, <1>4, <1>5, <1>6, <1>7, <1>8, <1>9 DEF ClientStep

----------------------------------------------------------------------------
\* IInv holds of every state of every behaviour.
LEMMA InitIInv == Init => IInv
  BY DEF Init, IInv, TypeOK, Files, Exclusion, OneCreator, Contents, InPlace,
         OneName, Children, Claims, NeverAborts

\* Every step keeps the invariant: IInv is inductive.
LEMMA NextIInv == IInv /\ [Next]_vars => IInv'
<1>1. ASSUME IInv, NEW s \in Sentry,
             \/ Start(s) \/ SentryStep(s) \/ WorldStep(s) \/ ChildDies(s)
             \/ CreateFails(s) \/ Fail(s) \/ UmbilicalDies(s) \/ CrashSentry(s)
      PROVE  IInv'
  BY <1>1, CreateStepKeeps, RunStepKeeps, WorldKeeps DEF SentryStep
<1>2. ASSUME IInv, UNCHANGED vars
      PROVE  IInv'
  BY <1>2 DEF vars, file, IInv, TypeOK, Files, Exclusion, OneCreator, Contents,
              InPlace, OneName, Children, Claims, NeverAborts
<1>. QED
  BY <1>1, <1>2, ClientKeeps DEF Next, Terminated

THEOREM Invariance == Spec => []IInv
  BY InitIInv, NextIInv, PTL DEF Spec

\* Every variable keeps its type.
THEOREM TypeCorrect == Spec => []TypeOK
<1>1. IInv => TypeOK
  BY DEF IInv
<1>. QED  BY <1>1, Invariance, PTL

\* At most one program runs under the name.
THEOREM OneInstance == Spec => []SingleInstance
<1>1. IInv => SingleInstance
  BY DEF IInv, Children, SingleInstance
<1>. QED  BY <1>1, Invariance, PTL

\* A sentry that supervises its child is the one the path names.
THEOREM OwnerStaysNamed == Spec => []OwnerIsNamed
<1>1. IInv => OwnerIsNamed
  BY DEF IInv, TypeOK, Files, InPlace, Contents, OwnerIsNamed, Owns
<1>. QED  BY <1>1, Invariance, PTL

\* A running program keeps the name, also when its sentry was killed.
THEOREM RunningStaysNamed == Spec => []RunningIsNamed
<1>1. IInv => RunningIsNamed
  BY DEF IInv, Children, RunningIsNamed
<1>. QED  BY <1>1, Invariance, PTL

\* The abort of closePidFile() is unreachable.
THEOREM CloseNeverAborts == Spec => []NeverAborts
<1>1. IInv => NeverAborts
  BY DEF IInv
<1>. QED  BY <1>1, Invariance, PTL

\* A child that a client has read, and still holds the shared lock for, is
\* not reaped, unless its sentry crashed or failed.
THEOREM ReadersPinChild == Spec => []ReadLockPinsChild
<1>1. IInv => ReadLockPinsChild
  <2>. SUFFICES ASSUME IInv, NEW c \in Client, NEW s \in Sentry,
                       Pinned(c, s), child[s] = "reaped"
                PROVE  pc[s] \in {"crashed", "failed"}
    BY DEF ReadLockPinsChild
  <2>1. fd[c] \in Inode /\ content[fd[c]] = s
    BY DEF IInv, TypeOK, Files, Claims, Pinned
  <2>2. pc[s] \notin Erased
    BY <2>1 DEF IInv, OneName
  <2>. QED
    BY <2>2 DEF IInv, Children, NeverAborts
<1>. QED  BY <1>1, Invariance, PTL

\* The path is removed or replaced only under the lock of its inode, and only
\* when the file names nobody that lives.
THEOREM UnlinkIsLocked == Spec => UnlinksUnderLock
<1>. DEFINE Removal ==
       dir # NoInode /\ dir' # dir =>
         /\ ~NamesLive(content[dir])
         /\ \E s \in Sentry : fd[s] = dir /\ lock[s] = "write"
<1>1. IInv /\ [Next]_vars => [Removal]_vars
  <2>. SUFFICES ASSUME IInv, Next, dir # NoInode, dir' # dir
                PROVE  /\ ~NamesLive(content[dir])
                       /\ \E s \in Sentry : fd[s] = dir /\ lock[s] = "write"
    OBVIOUS
  <2>1. PICK s \in Sentry : UnlinkOld(s) \/ UnlinkFinal(s)
    BY DEF Next, CreateStep, RunStep, SentryStep, WorldStep, ClientStep, file, vars,
           Start, OpenOld, LockOld, ReadOldTaken, ReadOldDead, StatOld, CloseOld,
           CreateNewExists, CreateNew, LockNew, StatNew, Discard, Write, UnlockNew,
           CreateUmbilical, Release, StopUmbilical, UmbilicalStopped, LockFinal,
           Truncate, StatFinal, CloseFinal, Reap, GiveUp, Abandon, Exec,
           OrphanReaped, CloseServer, ChildDies, CreateFails, Fail, UmbilicalDies,
           CrashSentry, OpenMissing, OpenForRead, LockRead, ReadUnusable, ReadLive,
           Connect, Refused, Acknowledged, KillClient, Terminated
  <2>. QED
    BY <2>1 DEF IInv, InPlace, Files, Contents, UnlinkOld, UnlinkFinal, Goto
<1>. QED  BY <1>1, Invariance, PTL DEF Spec, UnlinksUnderLock

----------------------------------------------------------------------------
\* PidFile implements ServiceName: writing the file claims the name, and the
\* name is vacated by emptying the file or by reaping the process it names.

Owner == IF dir # NoInode /\ NamesLive(content[dir]) THEN content[dir] ELSE Stale
Programs == {s \in Sentry : child[s] = "running"}

\* A step that changes neither the process the path names nor the programs
\* that run is a stutter of ServiceName.
Unseen == Owner' = Owner /\ Programs' = Programs

\* A step of createPidFile() claims the name with write(), or is not seen.
LEMMA CreateStepRefines ==
  ASSUME IInv, NEW s \in Sentry, CreateStep(s)
  PROVE  Unseen \/ Name!Claim(s)
<1>. USE DEF IInv, TypeOK, Files, Contents, InPlace, OneName, Owner, Programs, Unseen
<1>1. CASE Write(s)
  <2>1. Owner = Stale /\ Owner' = s
    BY <1>1 DEF Write, Goto, Children
  <2>2. Programs' = Programs
    BY <1>1 DEF Write
  <2>. QED  BY <2>1, <2>2 DEF Name!Claim
<1>2. CASE CreateNew(s)
  BY <1>2 DEF CreateNew, Goto, Open
<1>3. CASE UnlinkOld(s)
  BY <1>3 DEF UnlinkOld, Goto
<1>4. CASE ~ (Write(s) \/ CreateNew(s) \/ UnlinkOld(s))
  BY <1>4 DEF CreateStep, file, OpenOld, LockOld, ReadOldTaken, ReadOldDead, StatOld,
              CloseOld, CreateNewExists, LockNew, StatNew, Discard, UnlockNew
<1>. QED  BY <1>1, <1>2, <1>3, <1>4

\* A step of runSentry() vacates the name with ftruncate(), or is not seen.
LEMMA RunStepRefines ==
  ASSUME IInv, NEW s \in Sentry, RunStep(s)
  PROVE  Unseen \/ Name!Vacate(s)
<1>. USE DEF IInv, TypeOK, Files, Contents, InPlace, OneName, Children, Owner,
             Programs, Unseen
<1>1. CASE Truncate(s)
  <2>1. Owner' = Stale /\ Owner \in {s, Stale} /\ Programs' = Programs
    BY <1>1 DEF Truncate, Goto
  <2>2. s \notin Programs
    BY <1>1 DEF Truncate, Goto
  <2>. QED  BY <2>1, <2>2 DEF Name!Vacate
<1>2. CASE UnlinkFinal(s)
  BY <1>2 DEF UnlinkFinal, Goto
<1>3. CASE Release(s)
  BY <1>3 DEF Release, Goto, file
<1>4. CASE Reap(s) \/ GiveUp(s)
  BY <1>4 DEF Reap, GiveUp, Goto, file
<1>5. CASE Abandon(s)
  <2>1. Programs' = Programs /\ s \notin Programs
    BY <1>5 DEF Abandon
  <2>2. Owner' = IF Owner = s THEN Stale ELSE Owner
    BY <1>5 DEF Abandon, file
  <2>. QED  BY <2>1, <2>2 DEF Name!Vacate
<1>6. CASE ~ (\/ Truncate(s) \/ UnlinkFinal(s) \/ Release(s)
              \/ Reap(s) \/ GiveUp(s) \/ Abandon(s))
  BY <1>6 DEF RunStep, file, CreateUmbilical, StopUmbilical, UmbilicalStopped,
              LockFinal, StatFinal, CloseFinal
<1>. QED  BY <1>1, <1>2, <1>3, <1>4, <1>5, <1>6

\* The exec of a child launches the program, its death ends it, and reaping an
\* orphan vacates the name; the rest of the world is not seen.
LEMMA WorldRefines ==
  ASSUME IInv, NEW s \in Sentry,
         \/ WorldStep(s) \/ Start(s) \/ ChildDies(s) \/ CreateFails(s)
         \/ Fail(s) \/ UmbilicalDies(s) \/ CrashSentry(s)
  PROVE  Unseen \/ Name!Launch(s) \/ Name!End(s) \/ Name!Vacate(s)
<1>. USE DEF IInv, TypeOK, Children, OneName, Owner, Programs, Unseen
<1>1. CASE Exec(s)
  <2>1. Owner = s /\ Owner' = s
    BY <1>1 DEF Exec, file
  <2>2. Programs' = Programs \cup {s}
    BY <1>1 DEF Exec
  <2>. QED  BY <2>1, <2>2 DEF Name!Launch
<1>2. CASE ChildDies(s)
  <2>1. Owner' = Owner
    BY <1>2 DEF ChildDies, file
  <2>2. Programs' = Programs \ {s}
    BY <1>2 DEF ChildDies
  <2>. QED  BY <2>1, <2>2 DEF Name!End
<1>3. CASE OrphanReaped(s)
  <2>1. Programs' = Programs /\ s \notin Programs
    BY <1>3 DEF OrphanReaped
  <2>2. Owner' = IF Owner = s THEN Stale ELSE Owner
    BY <1>3 DEF OrphanReaped, file
  <2>. QED  BY <2>1, <2>2 DEF Name!Vacate
<1>4. CASE Start(s)
  BY <1>4 DEF Start, Goto, file
<1>5. CASE \/ CloseServer(s) \/ CreateFails(s) \/ Fail(s)
           \/ UmbilicalDies(s) \/ CrashSentry(s)
  BY <1>5 DEF CloseServer, CreateFails, Fail, UmbilicalDies, CrashSentry, file
<1>. QED  BY <1>1, <1>2, <1>3, <1>4, <1>5 DEF WorldStep

\* The path names at most one live process, runs at most its program, and
\* gives the name away only after that program has ended.
THEOREM Refinement == Spec => ImplementsServiceName
<1>1. Init => Name!Init
  BY DEF Init, Name!Init
<1>2. IInv /\ [Next]_vars => [Name!Next]_(Name!names)
  <2>. SUFFICES ASSUME IInv, [Next]_vars
                PROVE  Unseen \/ Name!Next
    BY DEF Unseen, Owner, Programs, Name!names
  <2>1. ASSUME NEW s \in Sentry,
               \/ Start(s) \/ SentryStep(s) \/ WorldStep(s) \/ ChildDies(s)
               \/ CreateFails(s) \/ Fail(s) \/ UmbilicalDies(s) \/ CrashSentry(s)
        PROVE  Unseen \/ Name!Next
    BY <2>1, CreateStepRefines, RunStepRefines, WorldRefines
       DEF SentryStep, Name!Next
  <2>2. ASSUME NEW c \in Client,
               OpenMissing(c) \/ OpenForRead(c) \/ ClientStep(c) \/ KillClient(c)
        PROVE  Unseen
    BY <2>2 DEF ClientStep, OpenMissing, OpenForRead, KillClient, LockRead,
                ReadUnusable, ReadLive, Connect, Refused, Acknowledged, file,
                Unseen, Owner, Programs
  <2>3. CASE UNCHANGED vars
    BY <2>3 DEF vars, file, Unseen, Owner, Programs
  <2>. QED
    BY <2>1, <2>2, <2>3 DEF Next, Terminated
<1>. QED
  BY <1>1, <1>2, Invariance, PTL DEF Spec, ImplementsServiceName, Name!Spec
============================================================================
