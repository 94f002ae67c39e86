# pidsentry in TLA+

`pidsentry` runs a program (the *child*) under a *sentry*, names it in a
*pidfile*, and lets *client* commands run against the named process with the
certainty that its pid is not recycled meanwhile.  A second process, the
*umbilical*, watches the sentry and keeps the clients' references, a *tether*
watches the child's output, and an *agent* stands between the sentry and whoever
started it.  This directory specifies the parts of that system in which several
processes or threads meet, checks them with TLC and proves their safety with TLAPS.

## Inventory

| component | source | state | operations | what is hard | what makes it correct |
|---|---|---|---|---|---|
| pidfile | `pidfile_.c` | the path, the content and `flock` of an inode, `mFile`, `mLock` | create (with removal of an abandoned file), read, lock, detect zombie, destroy | `stat`/`unlink` and `open`/`flock` are not atomic; retry loops; crashed owners | one instance per name; the file names the owner; removal under the lock only |
| sentry | `sentry.c` | pidfile, child, umbilical, bell, pid server | create, announce, run, close | a failure or a signal at any step; order of removal and reaping | no program without pidfile and umbilical; reap after removal; the end takes everybody along |
| agent | `agent.c` | the sentry process, the parent's pipe | fork, pass on signals, reap | signals that cross a reaping | the exit code is the program's; no signal goes astray |
| client command | `command.c` | the pidfile it reads, its connection | create, run, reap | reads a file that changes, asks a keeper that goes away or is another's | success means the reference was held; always a result |
| pid server | `pidserver.c` | the queue of references, an epoll set | accept, clean, close | blocks the umbilical's loop; a failure halfway | a reference keeps its keeper, and the child's process group |
| umbilical | `umbilical.c` | `mClosed`, `mCycleCount`, echo latch, timer, anchors | adopt, synchronise, run loop, stop, kill | two timers, two loops, signals that stop either side; groups whose leaders are gone | a loss is noticed, a stoppage is not taken for one; it kills only what is pinned |
| child monitor | `childprocess.c` | `mSignalPlan`, `mUmbilical`, `mTether`, `mEvent`, `mParent`, four timers | handlers of a poll loop; fork, exec, signal, reap | order of events within a turn; SIGCONT; the child ends at any moment | the child is terminated when it must be, and only then |
| tether | `tether.c` | control pipe, activity time, `mFlushed` | ping, flush, close; drain thread | a thread and the monitor's loop; output that blocks | all output is copied; the thread ends |
| parent monitor | `parentprocess.c` | a thread of the agent, the parent's pipe | poll the parent | the parent dies at any moment | the child does not outlive the parent |
| pid signature | `pidsignature_.c` | boot id and start time of a process | create, send, receive, compare | partial reads, deadlines | equal only for the same process |
| options, shell command, main | `options_.c`, `shellcommand.c`, `_pidsentry.c` | command line | parse, dispatch | none concurrent | the rule in the usage text |
| ert library | not in the repository | files, locks, latches, timers, poll loop, job control | used everywhere | | modelled from its use, marked external |

The pieces meet as follows.  The agent forks the sentry.  The sentry forks the
child, which waits on the bell (a pair of sockets), makes the pidfile with the
child's signature, forks the umbilical (which puts an anchor into the process
groups of child and sentry and serves the pid server's socket), rings the bell,
hears the child's answer, rings again, and runs the child monitor while the child
executes the program.  The monitor pings the umbilical over a socket and the
umbilical echoes.  A client takes the shared lock on the pidfile, reads it,
connects to the pid server, and lets the lock go once the server has answered;
its open connection is its reference.  At the end the sentry stops the umbilical,
takes the exclusive lock, removes the pidfile, only then reaps the child, and
exits with the child's code, which the agent passes on.

## Modules

| module | models |
|---|---|
| `ServiceName` | abstract: a name that one service owns at a time; `PidFile` implements it |
| `Relay` | abstract: a relay that loses nothing; `Tether` implements it |
| `Tenure` | abstract: what a reference promises to its holder; `Keeper` implements it |
| `Custody` | abstract: what is promised to those who signal a program by its pidfile or wait for its exit code; `Launch` implements it |
| `PidFile` | the pidfile protocol between sentries and clients, one action per system call |
| `Umbilical` | the two poll loops of sentry and umbilical, the socket, the clock, clients' references |
| `Tether` | the tether, its thread, and the monitor as far as it watches tether, child and parent and terminates the child |
| `Launch` | the family of agent, sentry, child and umbilical process: start, signals, failures, end |
| `Keeper` | the references of clients: pid server, clients, and the sentry's shutdown |
| `PidFileProofs`, `UmbilicalProofs`, `TetherProofs`, `LaunchProofs`, `KeeperProofs` | theorems about these five and their proofs |
| `TimeoutProofs`, `SilenceProofs` | why timeouts have causes and aborts mean silence, on top of the invariants of `UmbilicalProofs` and `TetherProofs` |
| `CustodyProofs` | that `Launch` implements `Custody`, on top of the invariant of `LaunchProofs` |
| `MCPidFile`, `MCUmbilical`, `MCTether`, `MCLaunch`, `MCKeeper` | instances for TLC: symmetry, faults, scenarios, modes |

The five cut the system along its channels.  Each keeps of the others what it
meets: `PidFile` has the clients' lock and an umbilical that ends, `Umbilical` has
clients that hold references, `Tether` an umbilical that is lost at any moment,
`Launch` a `link` on which the umbilical is pinged and closed, and `Keeper` a
sentry that shuts down in the order of `Launch` and the lock of `PidFile`.

### PidFile

`dir` is the inode the path leads to, `content` what each inode holds, `fd` and
`lock` are `mFile` and `mLock` of each process, and `pc` names the next system
call.  A sentry walks through `createPidFile()` (`OpenOld` .. `UnlockNew`),
`runSentry()` (`CreateUmbilical` .. `Reap`) or the failure path of
`closeSentry()`; a client walks through `createCommand()`.  The child dies, the
umbilical ends, init reaps orphans, and any process is killed at any time.  The
signature makes a sentry's child an identity of its own, so that a recycled pid
is no issue by construction (`pidsignature_.c` compares boot id and start time;
`Keeper` has the comparison itself); `Stale` is the content that names a process
that has ended, `Empty` what cannot be parsed.  Inode numbers are recycled as soon
as nobody has the inode open.

### Umbilical

Each process has a `phase` (what its main function has come to), a poll loop
(`ready` is the snapshot that `poll(2)` gave, served in index order with the
timer last), a `timer` and a `count` (`mCycleCount`).  `wire` holds the pings
and the close request, `echoes` the echoes; `shut` and death are seen as end of
file once the bytes are read.  `latch` holds the event latches of the sentry
that SIGCHLD and SIGCONT set.  A client `Connect`s, is `Accept`ed, `Leave`s and
is `Clean`ed.  A timer period has `HalfPeriod` ticks in each half; `Tick` happens only when no running
process has work left, so that the model has no lateness but that of stopped and
stuck processes.  `waited`, `alarm` and `excused` are history variables.

Of the library the model assumes: `ert_runPollFdLoop()` checks for completion
before it waits, serves the ready descriptors in index order and then the timers
that had expired when it polled; latches set while it runs wait for the next
`poll(2)`; `ert_waitProcessChild()` returns only for a process that has ended.
`MonitorDone` takes the tether thread to be flushed, which `Tether` describes.

### Tether

Two threads of the sentry, each with a `phase` and a `ready` snapshot as above.
`pipe` is what the tether holds, `writers` who can still write to it (the child,
and an heir that inherited the descriptor), `out` what stdout holds.  The thread
copies by `splice(2)`, or by `buf` where stdout has `O_APPEND` (`copy`); a write
is two steps, `BeginWrite` and `WriteSome`, because it may block, and `Ping`
(SIGALRM) interrupts it.  `finish` says why the thread stopped draining; it then
closes its input (`LeaveLoop`, `CloseControl`) and waits to be joined.  The
monitor's handlers are `TetherClosed`, `ParentLost`, `ChildRuns`, `ChildEnded`
and its timers `SilenceForgiven`, `SilenceCounted`, `Signal` and `Ping`; `plan`
and `sent` are the position in `mSignalPlans`.  `idle` is the age of
`mActivity.mSince`.  `Tick` happens only when both threads wait, or the sentry is
stopped; threads within a tick run in any order, which stands for a `poll(2)`
that returns a little late.  `since` and `blocked` are history variables.  Every
timeout is a constant in ticks: `Period` is half of the tether's timeout,
`SignalPeriod` the time between two signals of the plan, `DrainTimeout` and
`PingPeriod` those of the thread's drain and pings, and `Off` stands for a timer that
is disabled, so that `Period = Off` is a sentry without a tether timeout.  A
*scenario* says which faults may happen and whether stdout appends; it is chosen
in `Init`.

The thread has an abstract specification of its own, `Relay`, in which a unit that
is put in comes out, unless nobody reads or the relay gives up after it has been told
of the end of its owner.  `Output` is the mapping: what is in the pipe or in the buffer is
`inside`, what stdout holds `outside`, the child is the owner, and the flush that
the monitor asks for on the control pipe is the telling.  The model ends when the monitor is done: deadlock is not checked.

### Launch

`at` is what each process has come to: the agent in `runAgentProcess_()`, the
sentry in `createSentry()` (`create` .. `announce`), `runSentry()` (`fork` ..
`finish`) or the failure path of `closeSentry()` (`abandon` .. `bury`), the child
between its fork and its exec, and the umbilical process from its two anchors to
its kills.  `rings` and `answers` are what is in the bell's sockets, `link` what
the sentry has sent on the umbilical, `known` whose pid is recorded (a child may
end before), `watching` who has signal handlers installed, `sigchld` and `down`
the pending SIGCHLD and the latches it disables, `plan` an active termination
plan, `anchors` the groups that the umbilical holds.  `kin` stands for what the
program forks and leaves in its group.  `CallFails` stands for any failing call of
the sentry, `Signal` for SIGTERM or SIGQUIT from outside, `Kill` for SIGKILL,
`ParentDies` for the end of whoever started it all; `MaxFaults` bounds their number.

Assumptions: `ert_forkProcessChild()` returns to the parent after the post-fork
methods have run on both sides; a turn of `superviseChildProcess()` before the pid
is recorded finds nothing and is harmless; an anchor cannot join a group that has
no member.  `SIGTSTP` and `SIGCONT`, which the three processes pass on along the
same way, are left out.

`Custody` states what the family promises those who do not belong to it, without
places, rings, anchors or signals.  The program runs only when it has its name and
somebody guards it; its pid is not set free while the name leads to it, unless the
custodian has gone; the name is given once and taken away once; and a reporter gives
the exit code of the program, after the name has been taken away, or fails, or dumps
core as the program did, unless it is ended by a signal itself, or passes on the end of
a custodian that was.  `Service` is the mapping:
`Pid` is what the child's pid stands for (a zombie keeps it, a reaped child sets it
free), `Name` is the pidfile, `Guard` the umbilical process once it has both anchors,
and the sentry, the custodian, and the agent are the reporters.  The lock that the
sentry takes to remove the pidfile, and the sentries that compete for it, are in
`PidFile`.

### Keeper

The keeper is the umbilical process seen from its pid server.  `at`, `turn`
(descriptors reported by `poll(2)` and not served yet), `accepting` and `polled`
are its loop; `acceptPidServerConnection()` is `Accept`, `Receive`, `Acknowledge`,
`Enqueue` or `Refuse`, `cleanPidServer()` is `Clean` and `CleanFails`.  A client
goes through `createCommand()` (`OpenPidFile` .. `ReadAck`), `ForkCommand` and
`reapCommand()`; its signature is sent in three parts, and it may stop half way
(`idle`), run `--relaxed`, or belong to another user (`stranger`).  `tether` is
the client's end of the connection.  When the keeper has ended, `AddressReused`
gives its abstract socket address to the keeper of another program whose child,
in the worst case, has the same pid; only the signature tells them apart
(`rankPidSignature`).  A failure of `cleanPidServer()` is taken by the caller for
an empty queue, as in the code.

`Tenure` states what all of this is for, without sockets, signatures or a loop: a
reference is granted once, while the process group of the program is pinned; it is
given up by its holder, or withdrawn by a keeper that has broken down; the group comes
free only when nobody holds a reference; and a command is vouched for only by a
reference that is held at its end.  `Promise` is the mapping: a client holds its
reference (`Referenced`) from the moment the keeper answers, although the code enters
it into the queue only afterwards; it ends with the client's end of the connection.

## Runs

| run | instance | shows |
|---|---|---|
| `pidfile_protocol` | 3 sentries, or 2 with 1 relaxed client; 3 inodes; the path absent, empty or stale at first | naming, removal and pinning properties, and the refinement of `ServiceName` |
| `pidfile_live` | 2 sentries, 1 client, fair | shutdown gets the lock, clients finish, the loops of `createPidFile()` end without contention |
| `umbilical_timeouts` | every fault, no client | order of pings and echoes; timeouts have causes; only a timeout kills the sentry |
| `umbilical_live` | both processes block, the umbilical is killed, 1 client, fair | a lost sentry or umbilical costs the child; the stop returns |
| `umbilical_sigcont` | signals only | violation: SIGCONT counts cycles |
| `umbilical_hung_sentry` | the sentry blocks, 1 client, fair | violation: the child survives |
| `tether_activity` | the child stops, or the sentry stops, or it loses its umbilical; a pipe of 2, a buffer of 2 | the refinement of `Relay`: output is copied; a child that writes is not aborted; SIGKILL comes a period after the first signal |
| `tether_live` | the parent dies, fair | the monitor ends after the child; a silent child is ended, and one that lost its parent |
| `tether_sigcont` | the sentry is stopped and continued | violation: output that waits is not seen |
| `launch` | three ways to start, two faults at any moments, fair | the refinement of `Custody`: guarded start, order of removal and reaping, exit codes; signals, pinned groups, noticed deaths, and that nobody is left behind |
| `launch_orphan` | a process group leader with `--orphaned`, fair | violation: it outlives its parent |
| `keeper` | 2 clients in three pairs of sorts, one fault, fair | success means a reference held to the end; the refinement of `Tenure`: references hold the keeper and the process group; answers come; the keeper ends |

Bounds.  Two sentries are enough for every pairwise race on the path, three for
the race in which one sentry removes a file while a second creates and a third
opens; three inodes give each of them one and one to recycle.  Three sentries
*and* a client are cut off by the constraint `Few`: a client only holds a lock
against the sentry whose file it has open, and clients never act on each other.
Sentries, clients and inodes are symmetric in that run.  In `Umbilical` a period
is two ticks (`HalfPeriod = 1`), so that the half-period phase shift of the
umbilical's timer can be told apart; both cycle limits are the code's 2.  The pipe and the buffer of
`Tether` hold two units where a write may be partial and one elsewhere; its
periods are two ticks where the halves of the timeout matter and one in the fair
run, where they do not; nobody writes in a tick in which the thread has copied.
The fair run of `Tether` takes stdout without `O_APPEND`, as do the stopped
sentry and the lost umbilical of `tether_activity`; the other scenarios take both.
`DrainTimeout` is never `Off` in the runs: a sentry without a drain timeout is
meant to wait for heirs.  What the proofs say holds for it too.  The socket of the umbilical is unbounded: that at most
one ping or echo is on its way is proved, and keeps the state space finite.
`umbilical_timeouts` has no client: one makes it five times as large (ten million
states, no error), and `OnlyAlarmsKill` is proved for any clients (`AlarmsKill`).
The sentry of `umbilical_live` may block but is not killed; a killed sentry is the
matter of `SentryLossEndsFamily` in `launch`.  `TimeoutsHaveCauses` excuses a tick in
which the other process is stuck, an umbilical held up by an idle client included:
how long that may last is the matter of `AnswersCome` and `KeeperEnds`.
`launch` has an agent that watches its parent (failures, SIGKILL, the parent's
end), an agent that does not (signals) and no agent (failures, SIGKILL, signals):
two faults, so that a second one meets the handling of the first.  In `keeper` one
client holds up another that is relaxed, idle or a stranger, and a single fault
meets every place of all the others.

Deadlock is not checked in `Tether`, `Launch` and `Keeper`: their systems stop
when everybody has ended.  That they do not stop too early is what `MonitorEnds`,
`FamilyEnds`, `LossEndsProgram`, `KeeperEnds` and `AnswersCome` say.

Fairness.  Running processes keep taking steps, because each one runs a loop that
the kernel schedules; `Tick` is fair, because time passes; signals that were sent
are delivered; a child that has been sent the termination plan comes to its
SIGKILL.  Fairness is weak throughout, and is stated for the steps of a process
or of one source of its poll loop, so that no choice of its is forced.  Nothing is assumed of clients
that hold a reference, of idle clients, of the program and its commands (they need
never end), of heirs of the child, of the reader of stdout, of the faults, or of a
stuck process's recovery.

## Findings

The `violation` runs show where the code and what is said of it part; each entry
of `findings` in PROJECT.json quotes the lines.

- `umbilical_sigcont`: the condition of `pollFdContUmbilical_()` is swapped, so
  that a SIGCONT received while an echo is awaited counts as a missed cycle; two
  of them terminate a healthy child without any time having passed.
- `umbilical_hung_sentry`: a sentry that hangs before its first ping is never
  noticed, because `synchroniseUmbilicalMonitor()` has no timeout.
- `tether_sigcont`: SIGCONT re-synchronises the umbilical's timer but not the
  tether's, so that a child whose output waits may be aborted after a stoppage of
  the sentry.
- `launch_orphan`: `--orphaned` has no effect when pidsentry leads its process
  group, because only the agent process makes a parent monitor.

Things met while reading that have no run of their own:

- `Silent` in `Tether` names a window: the second half of the tether's timeout
  forgets output that came just after the first half was counted.
- The deadline of `stopUmbilicalProcess()` applies to the draining of its end only;
  `ert_waitProcessChild()` after it blocks for as long as a client keeps its
  reference, although the comment says "do not stall here indefinitely"
  (`umbilical.c:859`).  `StopEnds` has that exception.
- Two sentries can remove each other's empty pidfile for ever, since neither backs
  off; `UncontendedCreateEnds` claims no more than its name.  An endless stream of
  clients can keep the exclusive lock from the sentry; `ShutdownCompletes` holds
  because each client of an instance runs once.
- An operator who removes the pidfile by hand makes `closePidFile()` abort;
  `NeverAborts` is about what the program's own processes do.  A failing `stat()` or
  unlock in `createPidFile()` leaves the exclusive lock to `closeSentry()`
  (`CreateFails`); if another sentry has replaced the file at that moment, the same
  abort ends the sentry (`pidfile_.c:655`), which the model counts as a crash.
- A relaxed client that meets the pidfile while it is empty fails, although the
  usage says that the command runs always.
- `superviseChildProcess()` compares `mChildStatus`, an exit status or signal
  number, with a value of `Ert_ChildProcessStateError` (`childprocess.c:280`).
- Options: a timeout of zero, meant to disable, sets the periods of both umbilical
  timers to zero, so that no ping is sent; a timeout list with an empty first
  element is rejected although the usage allows it; some combinations of options
  reach an `ert_ensure()` rather than the usage text; the usage says that a single
  argument is given to a shell if it begins alphanumerically, while
  `shellcommand.c` looks for white space only.

## Proofs

Every theorem holds for all values of the constants under one assumption per
module, which TLC evaluates in each run of that module.  The argument is the same
in each: none of the safety properties is inductive, so that a strengthening
`IInv` of named parts is shown to hold initially and to be kept by each action;
the properties follow from it, action properties from `IInv` and the step.  Each
`IInv` was an invariant of the corresponding run before it was proved.

The lengths of all timers are constants too, so that the theorems do not rest on the
coarse ticks of the runs: they hold for any `HalfPeriod` of the umbilical, and for any
timeouts, pings and drains of the tether, a disabled one (`Off`) included; the only
assumption is that `SignalPeriod` and `PingPeriod`, which the code sets itself, are not
`Off`.  This is more than a formality.  The history variable `since` of `Tether`, the
time since the first signal of the plan among others, has to be capped to keep the
states finite; a cap at the tether's timeout is too low where signals are further
apart than that, and makes `GraceIsGiven` fail.  It is capped at `Horizon`, the longer
of the two.

`PidFileProofs` (any sentries, clients, inodes): type correctness, `SingleInstance`,
`OwnerIsNamed`, `RunningIsNamed`, `NeverAborts`, `ReadLockPinsChild`,
`UnlinksUnderLock` and the refinement of `ServiceName`.  `IInv` says what each
program counter knows: which processes hold which lock on which open inode
(`Files`, `Exclusion`), that two sentries never have the same created inode
(`OneCreator`), what the open inode holds (`Contents`), that a `stat()` which
found the path in place stays true (`InPlace`), that a sentry's name is in its
own file only (`OneName`), and how the child's life follows the sentry's
(`Children`, `Claims`).  The five steps that change the path or a content have a
lemma each; the others keep `dir` and `content` and are proved together by part
of the program.  The refinement maps `write()` to a claim, `ftruncate()` (or the
reaping of an orphan) to a vacation, exec and death to launch and end.

`UmbilicalProofs` (any clients, any set of faults): type correctness,
`EchoIsAwaited`, `CloseIsLast`, `OnlyAlarmsKill`.  The heart of `IInv` is
`Outstanding`: a ping on the wire, an echo requested and an echo on its way
exclude each other, and each implies that one is awaited; `Requested` and `Heard`
say that a `poll(2)` snapshot stays true until it is served, `Closing` where the
close request may be, `Caused` why the umbilical stopped listening.

`TetherProofs` (any scenario, sizes and timeouts): type correctness, `NothingLost`,
`GraceIsGiven` and the refinement of `Relay`.  `NothingLost` needs `Awake` (what was reported readable or
writable still is) and `Buffered` (who writes has something to write);
`GraceIsGiven` needs `Planned`, by which the time since the first signal shows in
the signal timer, whatever restarts the plan.  `NothingLost` says what holds when the
thread has finished; `Relays` says of every step what becomes of the output: a step of
the thread moves one unit or finishes for a reason, the monitor and the clock move
nothing, and the thread gives up after a drain only when the child has ended.  That
needs the invariant `Asked`: whoever has heard of the flush, in a snapshot of `poll(2)`
or in the drain timer, heard of it after the monitor had asked (`down`), and the
monitor asks after SIGCHLD, which comes when the child's end of the tether is closed.
Each group of actions has a lemma (`TetherRelays`, `MonitorRelays`, `WorldRelays`).

`TimeoutProofs` (`TimeoutsHaveCauses`, `TimeoutMeansSilence`) and `SilenceProofs`
(`AbortMeansSilence`) relate clocks, with invariants `Timing` and `Silence` beside `IInv`.  In `Timing`, a
ping is not lost (`Pending`); the sentry's timer advances under an unanswered ping
only while the umbilical process is stopped or the answer is there to be served
(`Patient`); and the umbilical's timer stays half a period out of phase with that of
the pings (`Steady`).  `TimeoutMeansSilence`, which the run `umbilical_sigcont` refutes,
is proved for every set of faults without a SIGCONT of the sentry
(`TimeoutsTakeTime`): a wait for an echo has then lasted as long as its timer has run
(`Unhurried`), so that the finding has no other cause.  `Silence` has three clocks: the age of the output, the age of
the thread's last activity, and the timer of the monitor with its count.  New output
is noticed within its tick (`Renewal`); afterwards either the activity is no older
than the output or the timer was set since (`Aged`); and the first half of the
timeout was counted before the last output or a full half after it (`Halved`).

`LaunchProofs` (any modes, any number of faults): type correctness,
`SignalsFindTheirProcess`, `GroupsArePinned`, `DeathIsNotMissed`,
`ExitCodeIsRelayed`, `ProgramIsGuarded`.  `Order` says which process is forked and
waited for at which place of its parent, `Holding` that a recorded pid is not
reaped while there is use for it, `Anchored` which anchors each place of the
umbilical process has, and `Guarded` that no ring is sent before pidfile and
umbilical are there.

`CustodyProofs` (the same): the refinement of `Custody`.  Each action is one step of it
or one that it does not see, whoever takes it and whatever signal ends whom.  `IInv`
alone does not give that: it knows that there is a pidfile when a ring is sent, but not
that it has gone when the child is reaped.  The invariant `Titled` follows the pidfile
through the places of the sentry, along the orderly way and along the failure path of
`closeSentry()`, which may begin before there is a pidfile or at its removal, and
says which ends of the sentry leave one behind; and nobody that runs was harmed, so that
an agent that meets a harmed sentry passes on just that.  `Entitled` names what allows a reporter
its exit code; `ReporterGives`, `ChildEnding` and `UmbilicalEnding` say once what the
end of each process is in `Custody`, by exit, dump or signal alike.

`KeeperProofs` (any clients of any sorts, any number of faults): type correctness,
`SuccessMeansReference`, `ReferencesHoldKeeper` and the refinement of `Tenure`.
`Acknowledged` is the crux: who
has been acknowledged is connected to the keeper of the program named in the
pidfile, which rests on `OwnOnly` and the uniqueness of the signature; `Connected`,
`Serving` and `Polling` tie the two ends of a connection together.  The refinement
asks more than the two properties: which step grants a reference, and that no step
changes two of them, save one by which a keeper ends.  For that `Holding` is proved
invariant as well: a keeper serves one client at a time, and none between the turns of
its loop (`OneAtATime`), and a client closes its end of the connection when it is done
and not before (`Tethered`).  `OneBecomes`, `FreeIsUnheld` and `Withdrawn` state once
what the three kinds of steps of `Tenure` need; the actions are then gone through by
who takes them.

Only model-checked: the liveness properties, as fairness and ENABLED are out of the
prover's reach.  Every invariant, action property and refinement of the passing runs is
proved for all values of the constants.  `NothingLost`, `ReferencesHoldKeeper` and
`ProgramIsGuarded` have theorems and no run of their own: the runs check
`ImplementsRelay`, from which the first follows; `ImplementsTenure`, which says more of
the program's own keeper, while for the keeper of the other program the second is only
proved; and `ImplementsCustody`, from which the third follows, as an umbilical process
that guards has both anchors (`Anchored` in `IInv`).

## Not modelled

- Stop signals: `SIGTSTP`, `SIGTTIN`, `SIGTTOU` and `SIGCONT` as agent and sentry
  pass them on, and the terminal's foreground group.  What a stopped process does
  to the timers is in `Umbilical` and `Tether`.
- Options, shell command and main program: sequential parsing and dispatch, read
  for what they choose (the modes of `Launch`, the relaxed clients of `Keeper`, the
  timeouts of `Tether`) and for the observations above.
- The wire format of signatures and messages, logging, time stamps in debug output.
- The test scripts, read for what they expect, and the ert library, a submodule
  without its sources, modelled by what this code relies on.

`components` in PROJECT.json gives the state of every part.
