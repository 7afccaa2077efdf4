# Verification of tatara-claude-code-wrapper

The wrapper runs in an agent pod. It supervises one interactive `claude` process behind a PTY, takes
prompts ("turns") from the operator over HTTP, learns from a Stop hook that a turn is over, pushes the
agent's work to git and calls the operator back. There is one turn at a time, and at least nine kinds
of goroutine that may touch it. This directory holds TLA+ models of that machinery, TLC runs that check them on
small instances, and TLAPS proofs that hold for every size.

`PROJECT.json` is the index: components, runs, the map from definitions to source lines, hazards,
findings and theorems. Source paths below are relative to `src/`.

## 1. The system

| component | state it keeps | operations | talks to |
|---|---|---|---|
| session manager (`internal/session/session.go`) | state (booting, ready, busy, dead), the turn slot `current`, the process and its writer, restart count, counters, transcript path, handoff slot | Submit, Complete, watch / relaunch / resumeTurn, bootWait, Shutdown, Snapshot | turn store, claude (PTY), transcript, `OnTurnDone` |
| turn store (`internal/turn`) | one record per turn | Create, Complete, Fail, Interrupt | session manager |
| interruption (`internal/session/interrupt.go`) | one poll loop per call | ESC, poll for the marker, completeAfterInterrupt | PTY, transcript, store |
| stop hook (`cmd/cc-stop-hook`) | attempts left | POST with retries | internal HTTP API → Complete |
| inactivity timer, probe (`session.go`, `transcript/probe.go`) | timer generation, stall stamp; the pending probe | arm, re-arm, fire; register, enqueue, answer, supersede, finalise | PTY, tailer |
| transcript tailer and readers (`internal/transcript`) | file offset, per-turn report accumulator | Follow, DrainInternalIssues, CaughtUpTo; LastMessage, WasInterrupted, FailedCriticalOutcome | session manager, finaliser |
| turn finaliser (`cmd/wrapper/app.go`) | re-prompt budget, held reports, held push lists, `turnWG` | finalizeTurn, reprompt, hold / take | git, tailer, session manager, sender |
| safety pusher (`cmd/wrapper/safetypush.go`) | ticker | pushOnce, Shutdown | git |
| git push and reconcile (`internal/bootstrap/repo.go`) | the checkouts | CommitAndPush(All), PushOnly | origin |
| webhook sender (`internal/webhook`) | closed flag, wait group, context | DeliverPayload, retry loop, Shutdown | operator |
| application shutdown (`app.go`) | — | pusher, safety pusher, session, finalisers, sender, HTTP servers, in this order | all of the above |
| workspace resume (`internal/bootstrap/resume.go`, `bootstrap.go`) | the checkout a previous pod left: branches, HEAD, tree, locks, half-done operations, the identity file | claim, prepare (wipe, abort, rescue), clone, checkout and reconcile, note for the agent | git |
| conversation store (`internal/convstore`), HTTP API, auth, metrics push client, account usage, prompt guard, bootstrap rendering, configuration | little or none | — | — |

What is hard here, and a unit test hardly reaches:

* *Everyone may end the turn.* A failing PTY write, the Stop hook, the recovery after a crash and an
  interrupt all resolve the same record. Each of them drops `mgr.mu` for I/O in between, and only a
  re-check of `mgr.current` keeps it from being ended twice.
* *claude dies at any moment*: during its boot, between paste and Enter, before it wrote anything to its
  transcript, during the recovery from the previous crash, or while Shutdown runs.
* *The hook is at-least-once*: a lost response means that the answer of one turn is posted again while the
  next turn may hold the slot.
* *PTY writes are two-phase* (paste, pause, Enter) and four writers share the PTY.
* *Finalisers overlap*: a re-prompt starts the next turn before the suppressed turn's report is parked,
  and taking and parking are separate critical sections.
* *Followers overlap*: a new transcript path starts a second Follow over the same Tailer object while the
  first may still be inside processLine, and a drain waits for a byte position of a file that may have
  been replaced.
* *Timers outlive their turns*: a stopped timer may have fired already, a callback waits for the lock, a
  Submit arms its timer after it dropped the lock. Probing a hung agent produces transcript lines of its own.
* *The pod is killed on a volume that outlives it*: between any two git commands of a boot, of a rescue or of
  the agent's work; the next boot has to make sense of what it finds without losing work.
* *Pushes fail one by one*, callbacks are retried, and shutdown has to bound every wait without losing
  the callback that is about to be sent.

The properties that make each part correct are the ones named in sections 3 and 4; the hazards they
answer to are listed in `PROJECT.json`, with a note where nothing covers one yet.

## 2. Modules

| module | what it is |
|---|---|
| `TurnLifecycle` | abstract specification: what the manager promises about turns |
| `Session` | the session manager, turn store, interrupts, stop hook, pod TTL; claude as its environment |
| `MCSession` | instances of `Session` for TLC |
| `SessionTypeProofs`, `SessionProofs` | theorems about `Session` |
| `Finalizer` | finalizeTurn, the safety pusher, the webhook sender and the shutdown sequence |
| `MCFinalizer` | instances of `Finalizer` for TLC |
| `FinalizerProofs`, `FinalizerReportsProofs` | theorems about `Finalizer` |
| `Workspace`, `MCWorkspace` | one checkout on a persistent volume: boot, rescue, reconcile, agent, kills |
| `Tailer`, `MCTailer` | Follow, the report accumulator, the outstanding subagent calls, the drain |
| `WorkspaceProofs`, `WorkspaceTreeProofs` | theorems about `Workspace` |
| `TailerProofs` | theorems about `Tailer` |
| `Heartbeat`, `MCHeartbeat` | the inactivity timers, the stall stamp, the liveness probes and their lines |
| `HeartbeatProofs` | theorems about `Heartbeat` |

`Session` implements `TurnLifecycle` under the mapping that keeps its turns, its store and its
notifications and hides the rest. The other modules each take the slice of the session they need (the slot and
its turn) as their own state instead of composing with all of `Session`: the product is out of TLC's reach.

### Session

A step is one critical section of `mgr.mu` or one PTY write, which is the granularity at which the code's
goroutines can interleave. Each goroutine has a program counter: `sub[t]` for the Submit call of turn
`t`, `watch[p]` and `boot[p]` for the goroutines of process `p`, `intr[i]` for an Interrupt call and its
poll loop, `shut` for Shutdown. Values the code reads under the lock and uses after it (`w`, the turn id) are variables of
the goroutine (`subW`, `resumeW`, `intrW`, `inFlight`, `intrTurn`), so that stale uses are
possible in the model exactly where they are in the code.

`claude` is the environment: a screen (bypass dialog, "no conversation", prompt), a composer, the prompt
it works on and its queue. It is modelled from how the manager uses it: pasted text goes to the composer,
Enter sends it, ESC stops the prompt that runs, the transcript gets the prompt and later the answer, an
answer starts a Stop hook. Prompts and answers are identified by the turn they belong to, which is all
that `OwnAnswer` and `PromptIntact` need. Time is reduced to the three phases around the pod's TTL.

Left out: subagent following, meters and logs. The inactivity timer and Probe are in `Heartbeat`. A PTY
write does not block. resumeTurn reads the transcript in the same step in which it decides how to resume; an
unreadable transcript, which the code treats like one that ends in a prompt (it nudges), is not a separate case.
The end of a record and its `OnTurnDone` call are one step here; `Finalizer` models the gap between them.
bootWait's answer to the dialog (arrow, 250 ms, Enter; each write re-reads `mgr.w`) is one step: a relaunch that
falls between the two keys is not considered, nor is a `BootTimeout` (60 s by default) that passes while the dialog, which
comes up within the first four seconds, is still on the screen.

### Finalizer

A finaliser per turn (`fin[t]`), with one step per repository it pushes and per critical section it
enters. The session is reduced to its slot; a turn is a number, in the order of acceptance. Work in a
repository is reduced to the last turn it comes from, uncommitted (`dirty`) or committed but not on
origin (`ahead`); files over `MaxStagedBlobBytes` are counted apart (`oversized`), because CommitAndPush takes them out of
the index again: a repository with nothing else to commit is in neither list, one with other work is pushed and keeps the
file uncommitted, and a `git reset` that fails lets it into the commit. The lists of repositories are sets, because the operator does not look at their order. The reports
of a turn are one token. Held lists, budget and accumulator are as in the code.

Left out: a blank callback URL (then nothing is delivered), a payload that cannot be marshalled, the
lifecycle hooks, the wording of the re-prompt. The tailer is assumed to have caught up when reports
are drained (the code waits up to two seconds for it; `Tailer` models that wait). A re-prompt whose PTY write
fails counts as refused. Whether the operator waits for a callback before it sends the next turn is the constant
`OperatorWaits`: the session does not ask for it, so both are considered. When it does not wait, the tailer's
accumulator, which is keyed by turn, is reset by the next turn's first report and may drop the previous turn's
(`transcript/tailer.go:432`); the history variable `lost` records what was dropped.
After `down` only the HTTP servers' shutdown and the exit of the process remain.

### Workspace

A history is the set of the changes it contains, so that a merge is a union and "is an ancestor" is
inclusion; whether two histories conflict is a free choice. The volume is what git keeps on it (`branch`, `head`, `at`,
`tree`, `op`, `lock`, `shallow`), the identity file and whether a removal was cut off half-way. A boot is a program counter
(`pod`) that walks through claimWorkspace, PrepareWorkspace (usability, locks, abort, rescue), the clone,
checkoutTaskBranch with its arms, the two reconciles and the note written for the agent; one step is one
git command that changes something, and the pod may be killed between any two. An error of a step that
Render returns ends the pod; the kubelet starts it again. The agent edits, commits on whatever HEAD is (that of a stopped
rebase too), detaches HEAD, merges, rebases and is killed in the middle of either. At the end of a turn the finaliser
stages and commits the tree as it stands, unresolved conflicts included, and pushes (`CommitAndPush`); the safety pusher
only pushes. Others push to the task branch and to the base.

git is external: its commands do what the code relies on, and `MaxFaults` of those that write or talk to origin
fail. Local read-only probes are assumed truthful. merge and rebase stand for the six operations whose
markers the code knows; conflict markers, an oversized artifact and another Task's tree are tokens. One
repository: the loop over several, the configuration files and the skills sources are left out. So are the note
that work was recovered, which asks nothing of the agent; the volume of a Task without a name, and an identity file that
cannot be read, both of which claimWorkspace lets pass (`resume.go:554-557`), so that `OwnWorkspace` is about volumes that bear a
name; and files never added: every file counts as tracked (`dirty`), whereas `diff --quiet` overlooks a tree in which only
untracked files are new (`resume.go:313`), and such a file in the way of a checkout would be one more way to be `Stuck`.

### Tailer

A line is two bytes long and may lie on disk half written; a file is an inode at a path. Each follower (`fol[i]`) has its own offset, partial
line and captured turn; `readPos`, the accumulator and the task calls belong to the one Tailer they
share. The steps are those between which the code gives up the lock or the processor: open, read, process, advance. `huge` is a line longer than the buffer.
Two followers inside processLine at once are a data race on the task map; `ConcurrentMapWrites` is the
crash the Go runtime may turn it into (`crashed`). The drain is the finaliser's: stat, wait for CaughtUpTo or for the
timeout, take. Nothing in Submit waits for it: an operator that polls for Ready (`session/interrupt.go:138`,
`httpapi/interrupt.go:14`) may send the next turn at any time after the last one ended, before, during or after that wait (`Early`); `MaxFaults`
bounds how often that happens, together with read errors and restarts. Left out: the queue tracker and the tool-name map (only metrics read them), redaction, subagent
files.

### Heartbeat

Time is a count of ticks. `left[k]` is what timer `k` has left and `rung` the timers that have fired and
whose callback still waits for the lock; `timer` is `mgr.timer`, the one every stop and reset goes
to. Each turn has the timer of its Submit and one of a resume. A write of Submit or Probe may fail whatever the state of the
session, since it goes to the PTY captured before. Probe is two steps, Register and the write, with the shutdown, the crash and the tailer in
between; the transcript is the queue of lines not read yet. History variables record how long the turn has been
quiet, whether a finished turn's timer was put over another (`overtaken`) and whether an older timer of the
turn was about when its time started again (`startled`). What kind of outcome a probe is counted with is not told apart.

## 3. Runs

The runs use no symmetry. Deadlock checking is off: with its bounds used up every model may
stop, and so may the program (nobody calls it).

| run | instance | checks |
|---|---|---|
| `session_races` | 2 Submits, 1 Interrupt, Shutdown, 1 crash, 1 lost hook request or response | `TypeOK`; `SlotMatchesStore`; `BusyHasTurn`; `NotifiedOnce`; `CountersMatchStore`; `NoOrphanClaude`; `Supervised`; `EndedForGood`; refinement of `TurnLifecycle` |
| `session_calm` | 3 Submits of which 2 handoffs, 1 Interrupt, the TTL passes, no crash | `PromptIntact`, `OwnAnswer`, `HandoffAllowance`; liveness: `SubmitReturns`, `InterruptFreesSlot` |
| `session_recovery` | 1 turn, 1 crash anywhere, up to 3 processes | refinement of the fair `TurnLifecycle`: the turn ends |
| `finalizer_overlap` | 3 turns of an operator that waits, 1 repository, 2 re-prompts, safety pusher, agent commits, oversized files, retries | `TypeOK`, `ReportsConserved`, `ListsDisjoint`, `BudgetExact` |
| `finalizer_shutdown` | 2 turns of an operator that does not wait, 1 repository, 1 re-prompt, retries, shutdown | `ReportsConserved`, `NoCallbackRefused`, `NothingLeftBehind`; liveness: `ShutdownEnds` |
| `workspace_resume` | 1 change of the agent, 1 of somebody else on the task branch, 1 on the base; 2 failing git commands, 2 kills, 3 of these and an oversized file together (`MaxMishaps`); shallow clone; one rescue name; a volume that is new, another Task's, or this Task's with the rescue name taken | `TypeOK`, `MarkersContained`, `ReconciledOrTold`, `OwnWorkspace`, `CommitsKept`, `UncommittedKept`; liveness: `BootRecovers` |
| `tailer` | 2 of 4 possible lines, 2 turns, 2 files, 2 followers, 1 read error, restart of claude or turn submitted early | `TypeOK`, `OwnReports`, `FinishedTasksGone`, `CaughtUpDelivers`; liveness: `EveryLineSeen` |
| `heartbeat` | 2 turns, 2 probes with the default text, timeout of 1 tick, 1 line of work, 1 crash, Shutdown | `TypeOK`, `StampEarned`, `OneOutcome`, `ProbesDoNotRevive`; liveness: `SilentReported` |

Why the bounds are enough for the cases that matter: two turns are what it takes for a late hook, a stale
interrupt or a failing write to meet the *next* turn; one crash with one relaunch budgeted reaches both
the resume and the give-up path; three Submits are needed for two handoffs beside an ordinary
turn; three turns are the shortest chain in which one finaliser parks its report on top of another's.
Two kills and a fault, or a kill and two faults, let a boot fail on what a killed boot left, and a third boot meet both
(`MaxMishaps` keeps all of them from happening in one behaviour; the theorems hold for every value of it); one change of
each origin is enough to tell whether it is kept, lost or merged. Two lines on two followers let a report be read
twice, late or by the wrong follower. With two turns an old timer or an old probe meets the next turn. In
`heartbeat` the tailer is at most one line behind (`MaxUnread`); the proofs do not depend on that.

Four runs show code and comment disagreeing (`expect: violation`). Each checks one statement of the
repository:

| run | what happens |
|---|---|
| `duplicate_hook` | the hook's retry after a lost response completes the *next* turn with the old answer; the "stale/duplicate" check can never trigger, since `currentSessionID` is set and cleared in the same critical section |
| `unpushed_commits` | commits the agent made itself are not pushed at the end of the turn, because CommitAndPush returns early on a clean tree; the callback goes out without them |
| `stale_rebase` | a rebase stops, the agent or the finaliser commits on its detached HEAD, the pod dies and the next boot's `rebase --abort` leaves the commit on no branch (`resume.go:205`: "it cannot lose a commit because it never moves a branch"). A rebase one boot could not abort and a later one does sets the task branch itself back |
| `unshallow_loop` | a boot that unshallowed and died before it created the task branch leaves a repository on which every later boot fails (`bootstrap.go:214`) |

The passing runs state their exceptions by name (`LeavesDetached`, `Stuck`, `overlap`, `overtaken`, `startled`, `late`, ...); each
is a behaviour of the code, and the list is meant to be read:

* *Workspace.* Commits made on a detached HEAD with a clean tree are left behind (`resume.go:335`), and so are those made since
  a rebase was started when a boot aborts it (`LeftBehind`). Conflict markers the agent leaves in its tree are committed and
  pushed by the finaliser of its turn; `MarkersContained` is about bootstrap: what it publishes itself, and that it does not hand over a
  conflicted tree without saying so. After a failed `ls-remote` nothing is fetched, and `ReconciledOrTold` has nothing to say. Untracked
  files are committed by the rescue's `add -A`. isUsableRepo wipes when *either* probe fails,
  although its comment says both. A failing `ls-remote` counts as "no remote branch". A removal that
  is cut off leaves a directory git will not clone into, or another Task's tree. An operation that cannot be
  aborted uses up the rescue names. A rescue's note is lost when that boot dies later on.
* *Tailer.* A change of path cancels the old Follow without waiting for it (`session.go:1599`) although
  "processLine is single-goroutine". A replaced file is read from its start and its old reports are
  booked on the current turn. A position in the old file may look like having caught up with a shorter new
  one. A report read after a drain timed out goes out with the next turn or not at all, and so does one that is not yet read, or not
  yet drained, when the operator submits the next turn on Ready. A torn line of more than the buffer is split
  and its report lost.
* *Heartbeat.* A Submit that arms after its turn ended puts its timer over the next turn's, whose silence is then reported by nobody
  (`session.go:1222`). markStallSuspected and onTailerActivity may re-arm the timer watch stopped, and the resume then installs a second one. A
  callback that waited stamps a turn that has just woken. After the failed write of a later probe, or with
  different texts, an earlier probe's own line counts as a sign of life. A probe registered after Finalize is never counted; the
  removal or the answer of one probe is credited to its successor.
* *Session* (reproduced, in no run). A handoff call past the deadline that is then refused as busy has used
  the only slot (`session.go:1164`). A Submit whose write fails marks the session ready in the middle of
  the relaunch. An Interrupt that found the session idle stops the turn that got in before its ESC, which
  nobody resolves. A second crash during a recovery leaves the turn unresumed. A crash before the prompt
  is persisted completes the turn with the previous answer. `HandoffAllowance` bounds the slot from above only, and
  `SubmitReturns` is checked where no write fails: that the error paths give `ptyMu` back is read off the code.
* *Finalizer.* Of a file over `MaxStagedBlobBytes` no report says anything. The shutdown waits without bound for a `git push` of the safety pusher (`safetypush.go:103`); `finalizer_shutdown` runs without
  one, although it is on by default. A finaliser overtaken before it holds its lists folds an old success over a newer failure.

### Fairness

`Session!FairSpec`: weak fairness for the steps of goroutines that are runnable (Submit, watch, bootWait,
the poll loop, Shutdown, the tailer's discovery), for the hook's posts and for claude working. These are
the Go scheduler, a process with its own retry loop, and the assumption "claude answers" that every
liveness property of a wrapper rests on. Nothing is assumed about callers, crashes, losses or the clock.

`Finalizer!FairSpec`: weak fairness for deliveries (the HTTP client has a timeout, the backoff a timer)
and for the shutdown sequence. No fairness for anything that runs git, which has no timeout, nor for
agent and operator; that is why `ShutdownEnds` says something.

`Workspace!FairSpec`: the kubelet restarts the pod and a boot that is not killed goes on. Kills and faults are
bounded, so `BootRecovers` speaks of the time after the last of them. `Tailer!FairSpec`: a follower keeps polling, a Submit reaches
ensureTailerFollowing; nobody has to end a half-written line. `Heartbeat!FairSpec`: time passes, a
fired callback gets the lock, a Submit's writes and a recovery come to an end; claude and its callers owe nothing.

## 4. Proofs

For all values of the constants, under the assumptions `ConstantsAssumption` (`Session`), `FinalizerAssumption`,
`BoundsAssumption` and `ItemsAssumption` (`Workspace`: natural bounds; the changes are not the tokens for markers,
artifact and another Task's tree), `ScriptAssumption` and `BoundAssumption` (`Tailer`), and `BoundAssumption` and `TextAssumption`
(`Heartbeat`): finite sets, natural bounds, a positive timeout. None of them limits what the code may meet.

`Session`:

* `SessionTypeProofs!TypeCorrect`. `TypeOK` is not inductive: that `WatchSwap` installs a process
  number in range needs `SwapBound`.
* `SessionProofs`: `SlotDiscipline`, `NeverBusyForNothing`, `NotificationOnce`, `CountersExact`,
  `EndingsAreFinal` (an action property) and `Refinement` (`Session` implements `TurnLifecycle`). The
  argument has two layers. `Effects` shows that each of the thirty-odd actions does one of four things to the
  slot, the store, the notifications and the counters: nothing, begin a turn, end the turn in the slot, or withdraw it.
  The invariant, the action property and the refinement then follow from that alone. The
  inductive invariant `IInv` adds `FreshUntouched` (a call that has not reserved the slot has no record)
  to the properties themselves: without it SubmitReserve might overwrite a record.
* `AlwaysSupervised` and `ShutdownLeavesNone`, from `SupInv`: every process before `mgr.proc` has been handed over
  and `mgr.proc` is watched by its own goroutine or, during the hand-over, by the one before it (`WatchChain`); a live claude is
  `mgr.proc`'s or the one a relaunch is about to swap in (`LiveAt`); Shutdown sets `stopping` before anything else, and
  `mgr.proc` does not outlive it (`ShutDown`).
* `HandoffAllowanceHolds`: inductive together with the types.
* `PromptsStayIntact`, under the hypothesis `Calm` (claude does not crash and nobody calls Shutdown), from
  `CalmInv`: there is one process, its boot dialogue is over before a Submit is admitted, and the composer belongs
  to the one writer between its paste and its Enter (`Composed`). With a crash the statement is false: bootWait answers the
  dialogue of a relaunched claude without `ptyMu`.
* `AnswersAreOwn`, under `Undisturbed` (`Calm`, no lost hook message, at most one Interrupt call), from `AnswerInv`: claude
  works on the turn in the slot and on no other, and a hook under way is that turn's (`InLine`); an interruption marker was written
  for the Interrupt that sees it, and the turn it resolves is one that claude dropped (`MarkerOwned`). Each hypothesis is needed: `duplicate_hook` refutes the
  statement when a response is lost, a crash can complete a turn with the previous answer, and with two Interrupts a
  marker left by the first ends the turn of the second.

`Finalizer`:

* `FinalizerProofs`: `ReportsConsistent` and `EveryRepoAttempted`, from `PushInv`, which adds that a
  finaliser starts with an empty report and tries each repository once; `DrainedBeforeClosed` and
  `DeliveriesJoined`, from `DrainInv`, which ties the sender's flag to the stage of the shutdown and
  says which finalisers may be at work after the drain; `BudgetIsExact`, from `BudgetInv`, which adds that the re-prompts are
  turns that were accepted, so that the next one is counted once.
* `FinalizerReportsProofs`: `ReportsKept`, from `ReportInv`. `ReportsConserved` is not inductive: that a report is never
  in two places needs `Collecting` (a record is empty until its finaliser takes what is held, and its callback is
  the finaliser's last step), and that none is dropped when the operator waits needs `Undrained` and `InTurn` (what
  is in the accumulator belongs to a turn that has not drained it yet, and no later turn is accepted before that).
  `TypeCorrect` follows from the three invariants together: the budget's upper bound needs `BudgetInv`.

`Workspace`:

* `WorkspaceProofs`: `TypeCorrect`, `CommitsAreKept` and `EditsAreKept` (action properties), all from `Shape`: which step of the boot
  finds which repository (a HEAD on a branch that exists, no operation after a successful
  abort, HEAD on a rescue branch while one is claimed, and what a rebase stands between). Without it `checkout` or `reset --hard` could meet a state in which it drops work.
* `WorkspaceTreeProofs`: `ReconciledOrToldHolds` and `OwnWorkspaceHolds`, from `Provenance`: what a boot fetched
  is not taken back and is noted from the reconcile on until the note is written; a boot on another Task's volume goes no further than
  its removal, so that the other's tree is on a volume that still bears its name or whose removal was cut off.
  `MarkersAreContained`, an action property, from `MarkersTell`: a conflicted tree that a boot goes on with either comes with an
  operation still to be aborted, or a rescue branch was claimed for it and never used, or this boot's own merge left it and
  a note says so (`ConflictPlace`); an abort takes the task branch back to what it still has (`OpKept`); and the rescue commit of an
  operation that could not be aborted is on the branch claimed for it, never on the task branch, the base branch or origin (`PreservedPlace`, `MainClean`,
  `HeadPlace`), which is what tells a used claim from an unused one.

`Tailer` (`TailerProofs`):

* `TypeCorrect`, from `TypeInv`, which adds `FolShape` (a follower that reads has a file, one that processes has a line) and
  `TasksCounted` (the counter mirrors the set, or a return could take it below zero).
* `FinishedTasksAreGone`, from `FilesInv` and `ReadInv`. The first is about the disk: a line is written once, a
  return only after its call, so that in every file, also one copied by a restart, calls precede their returns; and files
  that exist are only appended to. The second is about the reader: the line it works on is the next of its file, only a
  huge line is handed over in parts, there is one reader unless followers overlapped, and no call it has noted has returned among the
  lines it has read.
* `CaughtUpHasDelivered`, an action property, from `DeliverInv`. `readPos` is one number for all followers, so what it says depends
  on who counted: followers are started in order and only the last to open a file reads (`Queued`, `ReaderLast`), and `readPos` is never
  ahead of that one's position but by the first part of a huge line (`Position`). Turns and drains come one after the other and no line bears
  a turn to come (`TurnsInOrder`, `Dated`, `LineDated`); then every report of the current turn that was read is in the accumulator
  (`ReadBooked`), no line captured for an earlier turn is about to clear it (`InProcess`), and what a drain caught up with is
  booked until it is drained (`DrainShape`, `CaughtBooked`).
* `ReportsAreOwn`, from `OwnInv`, which adds to `DeliverInv` what a reader has not read: nothing of a turn whose wait is over, except the
  rest of a huge line, which is not accumulated (`NoneSettled`). Since a turn may be submitted before that, the invariant
  also says that an undisturbed turn is not (`InTime`). A reader gets there by catching up (`Waiting`: the finaliser's target is
  claude's file, to which at most the rest of one line is added meanwhile) or by opening its first file after it (`Unread`, `SeenFirst`, `PathKnown`: such a
  file has no line of a settled turn). So a whole line is captured with the turn that wrote it (`OnTurn`, `Collected`).

`Heartbeat` (`HeartbeatProofs`):

* `TypeCorrect`; `ProbesCountedOnce`, from `ProbeInv`, which adds that a call that never
  registered has no outcome and that the tracked probe is one whose write did not fail; `StampsEarned`, from `StampInv`, which adds
  `NoFuture` (no timer is set up for a turn not submitted yet, so that a new turn starts with none) and `BudgetTells` (a
  timer of the turn in flight fires only when the turn has been quiet for the whole timeout); and
  `HungStaysReported`, an action property under the hypothesis `SameText`, from `HungInv`: every unread
  enqueue line belongs to a probe that was sent, and while no write has failed the tracker holds a probe to
  recognise it by. With different texts the statement is false.

Trying to prove a property for all bounds showed four statements that held on the instances only. `MarkersContained` was a
state invariant that a second pair of faults breaks (once markers are out, a later boot may use the claimed branch); it is now
about the step by which they get out. `Tailer` numbered inodes in a way that could reuse one; it now counts them (`inodes`).
`OwnReports` did not excuse a drain that caught up on a file claude had left for another path; such a drain now counts as
`disturbed`. `FinishedTasksGone` spoke only of a follower that runs alone, which is not needed.

Only model-checked: everything about liveness and fairness (`SubmitReturns`, `InterruptFreesSlot`,
`ImplementsFairLifecycle`, `ShutdownEnds`, `BootRecovers`, `EveryLineSeen`, `SilentReported`), which is out of this prover's
reach. Every invariant and every safety action property of the passing runs is proved (`PromptIntact`, `OwnAnswer` and
`ProbesDoNotRevive` under the hypotheses named above). The other way round, `NoWorkSkipped` is proved
(`EveryRepoAttempted`) and in no run: it needs
two repositories to mean anything, and the runs about overlap and shutdown are kept to one.

## 5. What is not modelled, and the plan

Not modelled: subagent following (its only effect is a liveness time stamp that nothing in the wrapper
reads), the metrics push client and the account-usage register (best-effort, nothing depends on them),
the conversation store (what is left of it computes a directory name), authentication (stateless), the prompt guard (a text
check), metrics, logging, configuration. Partly modelled: the HTTP API (admission and the calls it makes, not
encoding and status codes), bootstrap rendering (its order and its errors, not the files it writes, and not the skills
sources, where a half-made clone is skipped for good, `skills.go:245`), the transcript readers (what they answer, not how
they parse), the push of a repository (one outcome per push, not the classes of benign failures).

To come, in this order:

1. Further questions to `Session`: a second crash during the recovery of the first; `OwnAnswer` with a crash
   before the prompt was persisted; an interruption marker of an earlier turn; `LogTranscript = FALSE`; a PTY
   write that blocks.
2. `Finalizer`: an overtaken finaliser folding an old push over a newer held failure.
3. `Workspace` with two repositories, where one's failure ends the boot of both.
