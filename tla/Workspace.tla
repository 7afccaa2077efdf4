---------------------------- MODULE Workspace ----------------------------
(***************************************************************************)
(* One repository checkout on a volume that outlives the pods using it,    *)
(* and what bootstrap does to it: internal/bootstrap/resume.go             *)
(* (claimWorkspace, PrepareWorkspace and the rescues) and bootstrap.go     *)
(* (Render, checkoutTaskBranch, the two reconciles, resumeDirective).      *)
(*                                                                         *)
(* A history is the set of the changes it contains: a merge is a union,    *)
(* "is an ancestor of" is inclusion.  git itself is external; a command    *)
(* that writes to disk or talks to origin may fail (MaxFaults in all),     *)
(* read-only probes of the local repository answer truthfully.  The pod    *)
(* dies between any two steps, and in the middle of a clone or a removal   *)
(* (MaxKills in all).  Render runs in its single-repository form.          *)
(***************************************************************************)
EXTENDS Naturals, FiniteSets

CONSTANTS
  Work,          \* changes the agent makes
  Others,        \* changes somebody else pushes to the task branch
  BaseWork,      \* changes that reach the base branch
  Absent,        \* a branch that does not exist
  maxRescueBranchAttempts,
  FullClone,     \* p.FullClone: clone the whole history
  AgentDetaches, \* the agent may check out a commit instead of a branch
  MaxFaults, MaxKills, MaxMishaps  \* bounds: of each, and of Mishaps

ASSUME BoundsAssumption ==
  /\ maxRescueBranchAttempts \in Nat \ {0}
  /\ MaxFaults \in Nat /\ MaxKills \in Nat /\ MaxMishaps \in Nat
  /\ FullClone \in BOOLEAN /\ AgentDetaches \in BOOLEAN

\* Not changes of anybody: an index git has marked as unmerged, the conflict
\* markers once they are staged, the mark of a commit with abortRescueMessage, a
\* tracked build artifact over MaxStagedBlobBytes and the tree of another Task.
Conflict  == "conflict"
Markers   == "markers"
Preserved == "preserved"
Artifact  == "artifact"
Foreign   == "foreign"
Tokens == {Conflict, Markers, Preserved, Artifact, Foreign}
Items == Work \cup Others \cup BaseWork \cup Tokens

ASSUME ItemsAssumption ==
  /\ (Work \cup Others \cup BaseWork) \cap Tokens = {}
  /\ \A history \in SUBSET Items : history # Absent

Task == <<"task", 1>>
Main == <<"main", 1>>
rescueBranchNames == {<<"rescue", i>> : i \in 1..maxRescueBranchAttempts}
abortRescueBranchNames == {<<"aborted", i>> : i \in 1..maxRescueBranchAttempts}
Names == {Task, Main} \cup rescueBranchNames \cup abortRescueBranchNames
Detached == <<"detached", 1>>

VARIABLES
  \* the volume
  identity,   \* whose name .tatara-workspace.json bears
  torn,       \* a removal of this tree was cut off half-way
  git,        \* .git: "none", "partial" (no repository yet), "ok"
  shallow, lock,
  op,         \* the multi-step operation .git has a marker of
  tree,       \* what the working tree holds beyond HEAD
  head, at,   \* the branch HEAD names; the history of a detached HEAD
  branch,
  \* origin
  origin, base,
  \* the running boot (lost with the pod)
  pod, persistent, abortFailed, prev, notes, seen, seenBase,
  \* the global CLAUDE.md of the running pod
  told,
  faults, kills

volVars  == <<identity, torn, git, shallow, lock, op, tree, head, at, branch>>
gitVars  == <<git, shallow, lock, op, tree, head, at, branch>>
bootVars == <<persistent, abortFailed, prev, notes, seen, seenBase>>
vars == <<volVars, origin, base, pod, bootVars, told, faults, kills>>

NoOp == [kind |-> "none", orig |-> {}]
Ops == [kind : {"none", "merge", "rebase"}, orig : SUBSET Items]

\* What the agent may be told to do first; notes it has nothing to do about
\* are left out.
Notes == {"inspect", "mergeLocal", "mergeBase"}
Stages == {"down", "claim", "wipeWorkspace", "prepare", "wipe", "locks",
           "abort", "rescue", "name", "commitRescue", "back",
           "clone", "checkout", "fetch", "merge", "reconcile", "render",
           "stamp", "serving"}

Exists(n) == branch[n] # Absent
HeadHistory == IF head = Detached THEN at ELSE branch[head]

\* Changes to tracked files: new files count from the first add on, which the
\* model takes to have happened.
dirty == tree # {}

----------------------------------------------------------------------------
\* A volume is new, or was bound to another Task, whose agent left a branch and
\* an edited tree on it, or was used by this one until no rescue name was free.
Fresh ==
  /\ identity = "none" /\ git = "none"
  /\ tree = {} /\ head = Main /\ branch = [n \in Names |-> Absent]

Rebound ==
  /\ identity = "other" /\ git = "ok"
  /\ tree = {Foreign} /\ head = Main
  /\ branch = [n \in Names |-> IF n = Main THEN {Foreign} ELSE Absent]

Used ==
  /\ identity = "own" /\ git = "ok"
  /\ tree = {} /\ head = Task
  /\ branch = [n \in Names |-> IF n \in abortRescueBranchNames THEN {Preserved} ELSE {}]

Init ==
  /\ Fresh \/ Rebound \/ Used
  /\ torn = FALSE /\ shallow = FALSE /\ lock = FALSE /\ op = NoOp /\ at = {}
  /\ origin \in {Absent, Others} /\ base = {}
  /\ pod = "down" /\ persistent = FALSE /\ abortFailed = FALSE /\ prev = Main
  /\ notes = {} /\ seen = {} /\ seenBase = {} /\ told = {}
  /\ faults = 0 /\ kills = 0

----------------------------------------------------------------------------
\* What MaxMishaps bounds: failing commands, kills and an artifact left behind.
Mishaps == faults + kills + Cardinality(tree \cap {Artifact})

\* A git command that writes fails on a held lock, or for a reason of its own.
Fault == /\ faults < MaxFaults /\ Mishaps < MaxMishaps
         /\ faults' = faults + 1

GitWorks == lock = FALSE /\ UNCHANGED faults
GitFails == \/ lock = TRUE /\ UNCHANGED faults
            \/ lock = FALSE /\ Fault

Goto(stage) == pod' = stage

\* The pod ends, because Render returned an error or because it was killed;
\* another one is started.
PodEnds ==
  /\ pod' = "down" /\ told' = {}
  /\ persistent' = FALSE /\ abortFailed' = FALSE /\ prev' = Main
  /\ notes' = {} /\ seen' = {} /\ seenBase' = {}

NoVolume == UNCHANGED <<volVars, origin, base, kills>>
NoGit == UNCHANGED <<identity, torn, gitVars, origin, base, kills>>

\* What os.RemoveAll of the checkout leaves.
Removed ==
  /\ git' = "none" /\ torn' = FALSE
  /\ shallow' = FALSE /\ lock' = FALSE /\ op' = NoOp
  /\ tree' = {} /\ head' = Main /\ at' = {}
  /\ branch' = [n \in Names |-> Absent]

\* What a removal that did not get to its end leaves.
HalfRemoved ==
  \/ UNCHANGED <<git, shallow, lock, op, tree, head, at, branch>>
  \/ /\ git' \in {"partial", "none"} /\ shallow' = FALSE /\ lock' = FALSE /\ op' = NoOp
     /\ tree' = {} /\ head' = Main /\ at' = {}
     /\ branch' = [n \in Names |-> Absent]

CutOff == torn' = TRUE /\ HalfRemoved

----------------------------------------------------------------------------
\* claimWorkspace, PrepareWorkspace phases A to C

BootStart ==
  /\ pod = "down"
  /\ Goto("claim")
  /\ NoVolume /\ UNCHANGED <<bootVars, told, faults>>

\* Faulty variant: the identity file is not compared.
AnyTask == FALSE

WrongTask == identity = "other"

ClaimWorkspace ==
  /\ pod = "claim"
  /\ Goto(IF WrongTask THEN "wipeWorkspace" ELSE "prepare")
  /\ NoVolume /\ UNCHANGED <<bootVars, told, faults>>

\* The root of a mounted volume cannot be removed: the contents are gone, and
\* the error still ends the boot.  Other errors leave part of the contents.
WipeWorkspace ==
  /\ pod = "wipeWorkspace"
  /\ \/ /\ Removed /\ identity' = "none"
        /\ Goto("prepare") /\ UNCHANGED <<bootVars, told, faults>>
     \/ /\ Fault /\ PodEnds
        /\ \/ Removed /\ identity' = "none"
           \/ CutOff /\ identity' \in {identity, "none"}
  /\ UNCHANGED <<origin, base, kills>>

isUsableRepo == git = "ok"

PrepareWorkspace ==
  /\ pod = "prepare"
  /\ Goto(IF git = "none" THEN "clone" ELSE IF isUsableRepo THEN "locks" ELSE "wipe")
  /\ persistent' = isUsableRepo
  /\ NoVolume /\ UNCHANGED <<abortFailed, prev, notes, seen, seenBase, told, faults>>

\* Phase A and wipeUnrecoverable.
WipeCheckout ==
  /\ pod = "wipe"
  /\ \/ /\ Removed /\ Goto("clone") /\ persistent' = FALSE /\ notes' = {}
        /\ UNCHANGED <<identity, abortFailed, prev, seen, seenBase, told, faults>>
     \/ /\ Fault /\ PodEnds /\ UNCHANGED identity
        /\ CutOff \/ UNCHANGED <<torn, gitVars>>
  /\ UNCHANGED <<origin, base, kills>>

\* Faulty variant: a lock that looks recent is left alone.
LockKept == lock

LockAfterSweep == FALSE

clearStaleLocks ==
  /\ pod = "locks"
  /\ lock' = LockAfterSweep
  /\ Goto("abort")
  /\ UNCHANGED <<identity, torn, git, shallow, op, tree, head, at,
                 branch, origin, base, kills, bootVars, told, faults>>

\* merge --abort puts the tree back; rebase --abort also puts back HEAD and
\* the branch the rebase was started on, as they were when it was started.
Aborted ==
  /\ op' = NoOp
  /\ tree' = {}
  /\ IF op.kind = "rebase"
       THEN /\ head' = Task /\ at' = {}
            /\ branch' = [branch EXCEPT ![Task] = op.orig]
       ELSE UNCHANGED <<head, at, branch>>

abortInProgress ==
  /\ pod = "abort"
  /\ Goto("rescue")
  /\ \/ op = NoOp /\ UNCHANGED <<op, tree, head, at, branch, abortFailed, faults>>
     \/ op # NoOp /\ GitWorks /\ Aborted /\ UNCHANGED abortFailed
     \/ /\ op # NoOp /\ GitFails /\ abortFailed' = TRUE
        /\ UNCHANGED <<op, tree, head, at, branch>>
  /\ UNCHANGED <<identity, torn, git, shallow, lock, origin, base,
                 kills, persistent, prev, notes, seen, seenBase, told>>

----------------------------------------------------------------------------
\* Phase D: rescueWorkingTree

\* reset --hard and checkout make git forget a merge, never a rebase.
ForgetMerge == IF op.kind = "merge" THEN NoOp ELSE op

\* add -A resolves an unmerged index as it stands.
Staged == (tree \ {Conflict}) \cup (IF Conflict \in tree THEN {Markers} ELSE {})

\* unstageOversizedBlobs
Committable == Staged \ {Artifact}

\* Faulty variant: an abort that failed changes nothing for phase D.
NotEscalated == FALSE

Escalated == abortFailed

ResetAfterAbort ==
  /\ pod = "rescue" /\ Escalated /\ ~dirty
  /\ \/ GitWorks /\ op' = ForgetMerge
     \/ GitFails /\ UNCHANGED op
  /\ Goto("checkout")
  /\ UNCHANGED <<identity, torn, git, shallow, lock, tree, head, at,
                 branch, origin, base, kills, bootVars, told>>

CleanTree ==
  /\ pod = "rescue" /\ ~Escalated /\ ~dirty
  /\ Goto("checkout")
  /\ NoGit /\ UNCHANGED <<bootVars, told, faults>>

\* Faulty variant: the work is stashed.
StashedOnHead(changes) == UNCHANGED <<at, branch>>

CommitOnHead(changes) ==
  IF head = Detached
    THEN at' = at \cup changes /\ UNCHANGED branch
    ELSE branch' = [branch EXCEPT ![head] = @ \cup changes] /\ UNCHANGED at

RescueCommit ==
  /\ pod = "rescue" /\ ~Escalated /\ dirty
  /\ Committable # {}
  /\ GitWorks
  /\ CommitOnHead(Committable)
  /\ tree' = Staged \cap {Artifact}
  /\ Goto(IF head = Detached THEN "name" ELSE "checkout")
  /\ UNCHANGED <<identity, torn, git, shallow, lock, op, head,
                 origin, base, kills, bootVars, told>>

\* The add or the commit fails, or there is nothing but artifacts to commit.
RescueLeavesTree ==
  /\ pod = "rescue" /\ ~Escalated /\ dirty
  /\ \/ GitFails /\ tree' \in {tree, Staged}
     \/ Committable = {} /\ GitWorks /\ tree' = Staged
  /\ Goto("checkout")
  /\ UNCHANGED <<identity, torn, git, shallow, lock, op, head, at,
                 branch, origin, base, kills, bootVars, told>>

\* Faulty variant: a name is checked out that was never created.
NotCreated(n, history) == branch

NewBranch(n, history) == [branch EXCEPT ![n] = history]

\* The first free name, or none.
FirstFree(names) == {n \in names : ~Exists(n) /\ \A m \in names : m[2] < n[2] => Exists(m)}

\* A command that fails on one name is tried with the next.
Claims(n, names) ==
  /\ ~Exists(n)
  /\ IF n \in FirstFree(names) THEN GitWorks ELSE lock = FALSE /\ Fault

nameRescueBranch ==
  /\ pod = "name"
  /\ \/ \E n \in rescueBranchNames :
          Claims(n, rescueBranchNames) /\ branch' = NewBranch(n, at)
     \/ FirstFree(rescueBranchNames) = {} /\ UNCHANGED <<branch, faults>>
     \/ GitFails /\ UNCHANGED branch
  /\ Goto("checkout")
  /\ UNCHANGED <<identity, torn, git, shallow, lock, op, tree, head,
                 at, origin, base, kills, bootVars, told>>

\* rescueUnabortable, from here to "back": the branch first, then the commit.
claimRescueBranch ==
  /\ pod = "rescue" /\ Escalated /\ dirty
  /\ \/ \E n \in abortRescueBranchNames :
          /\ Claims(n, abortRescueBranchNames)
          /\ branch' = NewBranch(n, HeadHistory)
          /\ prev' = head /\ head' = n /\ op' = ForgetMerge
          /\ Goto("commitRescue")
     \/ /\ FirstFree(abortRescueBranchNames) = {}
        /\ Goto("wipe") /\ UNCHANGED <<branch, prev, head, op, faults>>
     \/ GitFails /\ Goto("wipe") /\ UNCHANGED <<branch, prev, head, op>>
  /\ UNCHANGED <<identity, torn, git, shallow, lock, tree, at,
                 origin, base, kills, persistent, abortFailed, notes, seen,
                 seenBase, told>>

CommitUnabortable ==
  /\ pod = "commitRescue"
  /\ \/ /\ GitWorks /\ Committable # {}
        /\ CommitOnHead(Committable \cup {Preserved})
        /\ tree' = Staged \cap {Artifact}
        /\ notes' = notes \cup {"inspect"}
        /\ Goto("back")
     \/ /\ GitWorks /\ Committable = {}
        /\ tree' = Staged
        /\ Goto("back") /\ UNCHANGED <<at, branch, notes>>
     \/ GitFails /\ Goto("wipe") /\ UNCHANGED <<tree, at, branch, notes>>
  /\ UNCHANGED <<identity, torn, git, shallow, lock, op, head,
                 origin, base, kills, persistent, abortFailed, prev, seen,
                 seenBase, told>>

\* `checkout -`; the history of a detached HEAD is that of the rescue branch
\* without the rescue commit, which at still holds.
CheckoutBack ==
  /\ pod = "back"
  /\ \/ GitWorks /\ head' = prev
     \/ GitFails /\ UNCHANGED head
  /\ Goto("checkout") /\ prev' = Main
  /\ UNCHANGED <<identity, torn, git, shallow, lock, op, tree, at,
                 branch, origin, base, kills, persistent, abortFailed, notes,
                 seen, seenBase, told>>

----------------------------------------------------------------------------
\* Render: the clone, then checkoutTaskBranch

\* git refuses to clone into a directory that holds anything.
Clone ==
  /\ pod = "clone"
  /\ \/ /\ ~torn /\ GitWorks
        /\ git' = "ok" /\ shallow' = ~FullClone
        /\ branch' = [branch EXCEPT ![Main] = base] /\ head' = Main
        /\ Goto("checkout") /\ UNCHANGED <<bootVars, told>>
     \/ /\ \/ torn /\ UNCHANGED faults
           \/ ~torn /\ GitFails
        /\ PodEnds /\ UNCHANGED <<git, shallow, branch, head>>
  /\ UNCHANGED <<identity, torn, lock, op, tree, at, origin, base,
                 kills>>

\* Faulty variant: only origin is asked for the branch.
OriginOnly == FALSE

localExists == persistent /\ Exists(Task)

\* A failed ls-remote and a branch that is not there are the same exit code.
ProbesRemote(found) ==
  \/ found = (origin # Absent) /\ UNCHANGED faults
  \/ origin # Absent /\ ~found /\ Fault

\* Checking out another history carries a modified tree along, unless the
\* index is unmerged or git finds that the change is in the way.
Switches(ok) ==
  \/ ok /\ ~lock /\ Conflict \notin tree
  \/ ~ok /\ (lock \/ Conflict \in tree \/ (head # Task /\ tree # {}))

\* local no, remote no
CheckoutNew ==
  /\ pod = "checkout" /\ ~localExists
  /\ ProbesRemote(FALSE)
  /\ \/ /\ ~lock /\ ~Exists(Task)
        /\ branch' = NewBranch(Task, HeadHistory)
        /\ head' = Task /\ at' = {} /\ op' = ForgetMerge
        /\ Goto("render") /\ UNCHANGED <<bootVars, told>>
     \/ (lock \/ Exists(Task)) /\ PodEnds /\ UNCHANGED <<branch, head, at, op>>
  /\ UNCHANGED <<identity, torn, git, shallow, lock, tree, origin,
                 base, kills>>

\* What a push, never a forced one, leaves on origin.
PushOf(history) ==
  IF history # Absent /\ (origin = Absent \/ origin \subseteq history) THEN history ELSE origin
Pushed == PushOf(branch[Task])

\* local yes: the branch is checked out as it is.  Without a remote it is
\* published, with one it is fetched and merged.
CheckoutLocal ==
  /\ pod = "checkout" /\ localExists
  /\ \E found \in BOOLEAN :
       /\ ProbesRemote(found)
       /\ \/ /\ Switches(TRUE)
             /\ head' = Task /\ at' = {} /\ op' = ForgetMerge
             /\ shallow' \in {shallow, FALSE}
             /\ IF found
                  THEN Goto("fetch") /\ UNCHANGED origin
                  ELSE Goto("reconcile") /\ origin' \in {origin, Pushed}
             /\ UNCHANGED <<bootVars, told>>
          \/ /\ Switches(FALSE) /\ PodEnds
             /\ UNCHANGED <<head, at, op, shallow, origin>>
  /\ UNCHANGED <<identity, torn, git, lock, tree, branch, base, kills>>

\* local no, remote yes.  --unshallow is fatal on a complete repository.
UnshallowForResume ==
  /\ pod = "checkout" /\ ~localExists /\ origin # Absent
  /\ \/ /\ FullClone \/ (shallow /\ ~lock)
        /\ shallow' = FALSE
        /\ Goto("fetch") /\ UNCHANGED <<bootVars, told, faults>>
     \/ /\ ~FullClone
        /\ \/ ~shallow /\ UNCHANGED faults
           \/ shallow /\ GitFails
        /\ PodEnds /\ UNCHANGED shallow
  /\ UNCHANGED <<identity, torn, git, lock, op, tree, head, at,
                 branch, origin, base, kills>>

FetchTaskBranch ==
  /\ pod = "fetch"
  /\ \/ GitWorks /\ seen' = origin /\ Goto("merge")
        /\ UNCHANGED <<persistent, abortFailed, prev, notes, seenBase, told>>
     \/ GitFails /\ PodEnds
  /\ NoVolume

\* checkout -B <task> FETCH_HEAD, when there is no local branch to lose
ResumeRemote ==
  /\ pod = "merge" /\ ~localExists
  /\ \/ /\ Switches(TRUE)
        /\ branch' = [branch EXCEPT ![Task] = seen]
        /\ head' = Task /\ at' = {} /\ op' = ForgetMerge
        /\ Goto("reconcile") /\ UNCHANGED <<bootVars, told>>
     \/ Switches(FALSE) /\ PodEnds /\ UNCHANGED <<branch, head, at, op>>
  /\ UNCHANGED <<identity, torn, git, shallow, lock, tree, origin,
                 base, kills, faults>>

\* A merge that stops is aborted; when the abort fails too, the conflicted
\* index and the marker stay.
MergeStops(theirs, note) ==
  /\ notes' = notes \cup {note}
  /\ UNCHANGED branch
  /\ \/ UNCHANGED <<op, tree, faults>>
     \/ /\ Fault /\ op.kind # "rebase" /\ ~(branch[Task] \subseteq theirs)
        /\ op' = [kind |-> "merge", orig |-> {}] /\ tree' = tree \cup {Conflict}

\* HEAD is the task branch.  A merge into it succeeds or stops; it can only
\* add to the branch, and there is nothing to merge when theirs is contained.
Merges(theirs, note) ==
  \/ /\ theirs \subseteq branch[Task]
     /\ UNCHANGED <<branch, op, tree, notes, faults>>
  \/ /\ ~(theirs \subseteq branch[Task]) /\ GitWorks /\ Conflict \notin tree
     /\ branch' = [branch EXCEPT ![Task] = @ \cup theirs]
     /\ UNCHANGED <<op, tree, notes>>
  \/ ~(theirs \subseteq branch[Task]) /\ MergeStops(theirs, note)

mergeRemoteTaskBranch ==
  /\ pod = "merge" /\ localExists
  /\ Merges(seen, "mergeLocal")
  /\ Goto("reconcile")
  /\ UNCHANGED <<identity, torn, git, shallow, lock, head, at,
                 origin, base, kills, persistent, abortFailed, prev, seen,
                 seenBase, told>>

reconcileWithBase ==
  /\ pod = "reconcile"
  /\ \/ /\ ~lock /\ seenBase' = base
        /\ \/ Merges(base, "mergeBase")
           \/ Fault /\ notes' = notes \cup {"mergeBase"} /\ UNCHANGED <<branch, op, tree>>
        /\ Goto("render")
        /\ UNCHANGED <<persistent, abortFailed, prev, seen, told>>
     \/ GitFails /\ PodEnds /\ UNCHANGED <<branch, op, tree>>
  /\ UNCHANGED <<identity, torn, git, shallow, lock, head, at,
                 origin, base, kills>>

----------------------------------------------------------------------------
\* Render: the configuration, and the identity last

\* Faulty variant: the merge with the remote task branch is not mentioned.
NoLocalTier == notes \ {"mergeLocal"}

resumeDirective == notes

RenderConfig ==
  /\ pod = "render"
  /\ \/ Goto("stamp") /\ told' = resumeDirective /\ UNCHANGED <<bootVars, faults>>
     \/ Fault /\ PodEnds
  /\ NoVolume

writeWorkspaceIdentity ==
  /\ pod = "stamp"
  /\ \/ /\ Goto("serving") /\ identity' = "own"
        /\ persistent' = FALSE /\ abortFailed' = FALSE /\ prev' = Main /\ notes' = {}
        /\ UNCHANGED <<seen, seenBase, told, faults>>
     \/ Fault /\ PodEnds /\ UNCHANGED identity
  /\ UNCHANGED <<torn, gitVars, origin, base, kills>>

Boot ==
  \/ BootStart \/ ClaimWorkspace \/ WipeWorkspace \/ PrepareWorkspace
  \/ WipeCheckout \/ clearStaleLocks \/ abortInProgress \/ ResetAfterAbort
  \/ CleanTree \/ RescueCommit \/ RescueLeavesTree \/ nameRescueBranch
  \/ claimRescueBranch \/ CommitUnabortable \/ CheckoutBack \/ Clone
  \/ CheckoutNew \/ CheckoutLocal \/ UnshallowForResume \/ FetchTaskBranch
  \/ ResumeRemote \/ mergeRemoteTaskBranch \/ reconcileWithBase
  \/ RenderConfig \/ writeWorkspaceIdentity

----------------------------------------------------------------------------
\* The pod is killed.  A git command it was running may leave a lock, a clone
\* a .git that is no repository, and a removal half of what it was removing.

Kill ==
  /\ kills < MaxKills /\ Mishaps < MaxMishaps /\ kills' = kills + 1
  /\ pod # "down" /\ PodEnds
  /\ \/ /\ pod \notin {"wipeWorkspace", "wipe", "clone"}
        /\ lock' \in {lock, git = "ok"}
        /\ UNCHANGED <<identity, torn, git, shallow, op, tree, head, at, branch>>
     \/ /\ pod = "clone" /\ ~torn
        /\ git' \in {"none", "partial"}
        /\ UNCHANGED <<identity, torn, shallow, lock, op, tree, head, at, branch>>
     \/ pod = "wipeWorkspace" /\ CutOff /\ identity' \in {identity, "none"}
     \/ pod = "wipe" /\ CutOff /\ UNCHANGED identity
  /\ UNCHANGED <<origin, base, faults>>

----------------------------------------------------------------------------
\* The agent, the pushes of the running pod, and everybody else (external).

Held == (UNION {branch[n] : n \in {m \in Names : Exists(m)}})
        \cup (IF head = Detached THEN at ELSE {})
        \cup (IF origin = Absent THEN {} ELSE origin)

InRebase == op.kind = "rebase" /\ head = Detached

AgentEdit ==
  /\ pod = "serving"
  /\ \E w \in Work \cup {Artifact} :
       /\ w \notin Held \cup tree /\ (w = Artifact => Mishaps < MaxMishaps)
       /\ tree' = tree \cup {w}
  /\ UNCHANGED <<identity, torn, git, shallow, lock, op, head, at,
                 branch, origin, base, pod, bootVars, told, faults, kills>>

\* On whatever HEAD is, the detached one of a stopped rebase too; a commit also
\* ends a merge.  Conflicts are resolved or committed as they stand.
AgentCommit ==
  /\ pod = "serving" /\ dirty
  /\ \E changes \in {tree \cap (Work \cup {Foreign}), Committable} : CommitOnHead(changes)
  /\ tree' = tree \cap {Artifact}
  /\ op' = ForgetMerge
  /\ UNCHANGED <<identity, torn, git, shallow, lock, head, origin,
                 base, pod, bootVars, told, faults, kills>>

AgentDetach ==
  /\ pod = "serving" /\ AgentDetaches
  /\ op = NoOp /\ head # Detached
  /\ at' = branch[head] /\ head' = Detached
  /\ UNCHANGED <<identity, torn, git, shallow, lock, op, tree,
                 branch, origin, base, pod, bootVars, told, faults, kills>>

\* A merge or a rebase that stops, on a conflict or between two steps.
AgentMerge ==
  /\ pod = "serving" /\ op = NoOp /\ ~dirty
  /\ op' = [kind |-> "merge", orig |-> {}] /\ tree' \in {{}, {Conflict}}
  /\ UNCHANGED <<identity, torn, git, shallow, lock, head, at,
                 branch, origin, base, pod, bootVars, told, faults, kills>>

AgentRebase ==
  /\ pod = "serving" /\ op = NoOp /\ ~dirty /\ head = Task
  /\ op' = [kind |-> "rebase", orig |-> branch[Task]] /\ tree' \in {{}, {Conflict}}
  /\ head' = Detached /\ at' = branch[Main]
  /\ UNCHANGED <<identity, torn, git, shallow, lock, branch, origin,
                 base, pod, bootVars, told, faults, kills>>

AgentFinishesRebase ==
  /\ pod = "serving" /\ InRebase
  /\ branch' = [branch EXCEPT ![Task] = op.orig \cup at \cup (tree \cap Work)]
  /\ op' = NoOp /\ head' = Task /\ at' = {} /\ tree' = tree \cap {Artifact}
  /\ UNCHANGED <<identity, torn, git, shallow, lock, origin, base,
                 pod, bootVars, told, faults, kills>>

\* The finaliser of a turn: add -A and commit --no-verify over whatever index and
\* HEAD the agent left, then the push of the task branch.
CommitAndPush ==
  /\ pod = "serving" /\ dirty
  /\ \/ /\ GitWorks /\ Committable # {}
        /\ CommitOnHead(Committable)
        /\ tree' = Staged \cap {Artifact} /\ op' = ForgetMerge
        /\ origin' \in {origin, PushOf(branch'[Task])}
     \/ GitFails /\ tree' \in {tree, Staged} /\ UNCHANGED <<op, at, branch, origin>>
  /\ UNCHANGED <<identity, torn, git, shallow, lock, head, base, pod, bootVars, told, kills>>

\* PushOnly, of the mid-turn safety pusher.
PushTaskBranch ==
  /\ pod = "serving" /\ origin' = Pushed /\ origin' # origin
  /\ UNCHANGED <<volVars, base, pod, bootVars, told, faults, kills>>

OriginMoves ==
  /\ \/ \E r \in Others : origin # Absent /\ r \notin origin
                           /\ origin' = origin \cup {r} /\ UNCHANGED base
     \/ \E m \in BaseWork : m \notin base /\ base' = base \cup {m} /\ UNCHANGED origin
  /\ UNCHANGED <<volVars, pod, bootVars, told, faults, kills>>

Agent ==
  \/ AgentEdit \/ AgentCommit \/ AgentDetach \/ AgentMerge \/ AgentRebase
  \/ AgentFinishesRebase \/ CommitAndPush \/ PushTaskBranch

Next == Boot \/ Kill \/ Agent \/ OriginMoves

Spec == Init /\ [][Next]_vars

\* The kubelet starts the pod again, and a boot that is not killed goes on.
FairSpec == Spec /\ WF_vars(Boot)

----------------------------------------------------------------------------
TypeOK ==
  /\ identity \in {"none", "own", "other"}
  /\ torn \in BOOLEAN /\ shallow \in BOOLEAN /\ lock \in BOOLEAN
  /\ git \in {"none", "partial", "ok"}
  /\ op \in Ops /\ tree \subseteq Items
  /\ head \in Names \cup {Detached} /\ at \subseteq Items
  /\ branch \in [Names -> (SUBSET Items) \cup {Absent}]
  /\ head \in Names /\ git = "ok" => Exists(head)
  /\ origin \in (SUBSET Items) \cup {Absent} /\ base \subseteq Items
  /\ pod \in Stages /\ persistent \in BOOLEAN /\ abortFailed \in BOOLEAN
  /\ prev \in Names \cup {Detached}
  /\ notes \subseteq Notes /\ told \subseteq Notes
  /\ seen \subseteq Items /\ seenBase \subseteq Items
  /\ faults \in 0..MaxFaults /\ kills \in 0..MaxKills

\* What a step of the boot or the death of a pod may cost.  A removal costs
\* everything; aborting an operation costs what was edited since it stopped.
Wipes == pod \in {"wipeWorkspace", "wipe"}
Aborts == pod = "abort" /\ op # NoOp

\* The two ways in which commits are left behind without a removal: those of a
\* detached HEAD when a branch is checked out, and those made since a rebase was
\* started, on its HEAD or on the branch, when that rebase is aborted.
LeavesDetached == pod \in {"checkout", "merge"} /\ head = Detached
AbortsRebase == Aborts /\ op.kind = "rebase"
LeftBehind ==
  (IF LeavesDetached THEN at ELSE {})
  \cup (IF AbortsRebase THEN (HeadHistory \cup branch[Task]) \ op.orig ELSE {})

\* "LOCAL COMMITS ARE AUTHORITATIVE AND ARE NEVER DISCARDED": through any
\* sequence of deaths, boots, commits of the agent and of the finaliser and
\* failing git commands, a committed change stays on a branch, at HEAD or on
\* origin until the checkout itself is removed; the exceptions are the commits
\* named above.
CommitsKept == [][Held \ Held' \subseteq LeftBehind \/ Wipes]_vars

\* The same of the agent's work with the removal as the only exception, as
\* resume.go states it.
CommitsNeverDiscarded == [][Held \cap Work \subseteq Held' \/ Wipes]_vars

\* Uncommitted work survives a restart: it stays in the tree or is committed,
\* unless an operation is aborted or the checkout removed.
UncommittedKept ==
  [][tree \cap Work \subseteq tree' \cup Held' \/ Wipes \/ Aborts]_vars

\* Conflict markers and bootstrap: no step of a boot brings them to the task
\* branch or to origin, and a tree that holds a conflict, which the finaliser of
\* the first turn would commit and push, is handed to the agent only with the
\* order to finish the merge.  The one exception is a boot that died after it
\* claimed a rescue branch and before it committed to it.
MarkersOut == (Exists(Task) /\ Markers \in branch[Task]) \/ (origin # Absent /\ Markers \in origin)
ClaimUnused == \E n \in abortRescueBranchNames : Exists(n) /\ Preserved \notin branch[n]
Conflicted == tree \cap {Conflict, Markers} # {}
MarkersContained ==
  [][/\ pod # "serving" /\ MarkersOut' /\ ~MarkersOut => ClaimUnused
     /\ pod = "stamp" /\ pod' = "serving" /\ Conflicted
          => ClaimUnused \/ told \cap {"mergeLocal", "mergeBase"} # {}]_vars

\* An agent that is served has on its branch everything origin had for it and
\* the base branch when bootstrap fetched them, or is told to merge it first.
ReconciledOrTold ==
  pod = "serving" =>
    /\ seen \subseteq Held /\ (seen \subseteq branch[Task] \/ "mergeLocal" \in told)
    /\ seenBase \subseteq branch[Task] \/ "mergeBase" \in told

\* No agent is given another Task's tree, except when the removal of that tree
\* was cut off (or an agent that got it then has published it).
OwnWorkspace ==
  pod = "serving" /\ Foreign \in Held \cup tree
    => torn \/ (origin # Absent /\ Foreign \in origin)

\* A volume no boot can get past: a directory without .git that git will not
\* clone into, a complete repository asked to unshallow before the task branch
\* could be created, an artifact in the way of a checkout that no rescue commits.
Stuck ==
  \/ git = "none" /\ torn
  \/ git = "ok" /\ ~FullClone /\ ~shallow /\ ~Exists(Task) /\ origin # Absent
  \/ Artifact \in tree /\ head # Task

\* A boot failure is not forever: once git works and the pod is left alone, the
\* volume is served again, unless it is stuck in one of the ways above.
BootRecovers == []<>(pod = "serving" \/ Stuck)

\* The same without the exceptions.
NoCrashLoop == []<>(pod = "serving")
=============================================================================
