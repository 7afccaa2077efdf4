-------------------------- MODULE WorkspaceProofs --------------------------
(***************************************************************************)
(* Theorems about Workspace, for any changes, any number of rescue names,  *)
(* failing git commands and deaths of the pod: the types, and that neither *)
(* commits nor uncommitted work are lost but in the named cases.           *)
(***************************************************************************)
EXTENDS Workspace, TLAPS

USE BoundsAssumption, ItemsAssumption

----------------------------------------------------------------------------
(* Names and histories *)

\* The branches are told apart by their names, and a detached HEAD is none.
LEMMA NameFacts ==
  /\ Task \in Names /\ Main \in Names /\ Detached \notin Names /\ Task # Main
  /\ rescueBranchNames \subseteq Names \ {Task, Main}
  /\ abortRescueBranchNames \subseteq Names \ {Task, Main}
BY DEF Task, Main, Detached, Names, rescueBranchNames, abortRescueBranchNames

\* A branch that exists has a history, and a history is not Absent.
LEMMA Histories ==
  ASSUME TypeOK, NEW n \in Names
  PROVE  Exists(n) <=> branch[n] \in SUBSET Items
BY DEF TypeOK, Exists

\* The special items are items, no two of them the same and none anybody's.
LEMMA TokenFacts ==
  /\ Conflict \in Items /\ Markers \in Items /\ Preserved \in Items
  /\ Artifact \in Items /\ Foreign \in Items
  /\ Conflict # Markers /\ Conflict # Artifact /\ Conflict # Foreign
  /\ Markers # Artifact /\ Markers # Foreign /\ Artifact # Foreign
  /\ Preserved # Conflict /\ Preserved # Markers /\ Preserved # Artifact /\ Preserved # Foreign
  /\ \A c \in {Conflict, Markers, Preserved, Artifact, Foreign} :
       c \notin Work /\ c \notin Others /\ c \notin BaseWork
BY DEF Conflict, Markers, Preserved, Artifact, Foreign, Tokens, Items

\* What is held is on a branch, at a detached HEAD or on origin.
LEMMA HeldMember ==
  ASSUME NEW c
  PROVE  c \in Held <=> \/ \E n \in Names : Exists(n) /\ c \in branch[n]
                        \/ head = Detached /\ c \in at
                        \/ origin # Absent /\ c \in origin
<1> DEFINE B == UNION {branch[n] : n \in {m \in Names : Exists(m)}}
           A == IF head = Detached THEN at ELSE {}
           O == IF origin = Absent THEN {} ELSE origin
<1>1. c \in B <=> \E n \in Names : Exists(n) /\ c \in branch[n]
  BY Zenon
<1>2. c \in A <=> head = Detached /\ c \in at
  OBVIOUS
<1>3. c \in O <=> origin # Absent /\ c \in origin
  OBVIOUS
<1>4. Held = B \cup A \cup O
  BY DEF Held
<1> HIDE DEF A, B, O
<1> QED BY <1>1, <1>2, <1>3, <1>4

\* The same of the next state.
LEMMA HeldMemberNext ==
  ASSUME NEW c
  PROVE  c \in Held' <=> \/ \E n \in Names : Exists(n)' /\ c \in branch'[n]
                         \/ head' = Detached /\ c \in at'
                         \/ origin' # Absent /\ c \in origin'
<1> DEFINE B == UNION {branch'[n] : n \in {m \in Names : Exists(m)'}}
           A == IF head' = Detached THEN at' ELSE {}
           O == IF origin' = Absent THEN {} ELSE origin'
<1>1. c \in B <=> \E n \in Names : Exists(n)' /\ c \in branch'[n]
  BY Zenon
<1>2. c \in A <=> head' = Detached /\ c \in at'
  OBVIOUS
<1>3. c \in O <=> origin' # Absent /\ c \in origin'
  OBVIOUS
<1>4. Held' = B \cup A \cup O
  BY DEF Held
<1> HIDE DEF A, B, O
<1> QED BY <1>1, <1>2, <1>3, <1>4

\* Branches and origin that lose nothing, and a detached HEAD that stays or
\* is on a branch, hold what they held.
LEMMA HeldGrows ==
  ASSUME \A n \in Names : Exists(n) => Exists(n)' /\ branch[n] \subseteq branch'[n],
         origin # Absent => origin' # Absent /\ origin \subseteq origin',
         \/ head # Detached
         \/ head' = Detached /\ at \subseteq at'
         \/ \E n \in Names : Exists(n)' /\ at \subseteq branch'[n]
  PROVE  Held \subseteq Held'
<1> SUFFICES ASSUME NEW c \in Held PROVE c \in Held'
  OBVIOUS
<1>1. CASE \E n \in Names : Exists(n) /\ c \in branch[n]
  BY <1>1, HeldMemberNext
<1>2. CASE head = Detached /\ c \in at
  BY <1>2, HeldMemberNext
<1>3. CASE origin # Absent /\ c \in origin
  BY <1>3, HeldMemberNext
<1> QED BY <1>1, <1>2, <1>3, HeldMember

\* Whatever becomes of a detached HEAD, nothing is lost but its history.
LEMMA HeldButDetached ==
  ASSUME \A n \in Names : Exists(n) => Exists(n)' /\ branch[n] \subseteq branch'[n],
         origin # Absent => origin' # Absent /\ origin \subseteq origin'
  PROVE  Held \ Held' \subseteq IF head = Detached THEN at ELSE {}
<1> SUFFICES ASSUME NEW c \in Held, c \notin Held' PROVE head = Detached /\ c \in at
  OBVIOUS
<1>1. CASE \E n \in Names : Exists(n) /\ c \in branch[n]
  BY <1>1, HeldMemberNext
<1>2. CASE origin # Absent /\ c \in origin
  BY <1>2, HeldMemberNext
<1> QED BY <1>1, <1>2, HeldMember

\* Writing one branch leaves the others as they are.
LEMMA WriteBranch ==
  ASSUME TypeOK, NEW n \in Names, NEW history \in SUBSET Items,
         branch' = [branch EXCEPT ![n] = history]
  PROVE  /\ branch' \in [Names -> (SUBSET Items) \cup {Absent}]
         /\ branch'[n] = history /\ Exists(n)'
         /\ \A m \in Names \ {n} : branch'[m] = branch[m] /\ (Exists(m)' <=> Exists(m))
BY DEF TypeOK, Exists

\* A commit adds to the history HEAD is at and to nothing else.
LEMMA Commits ==
  ASSUME TypeOK, head \in Names => Exists(head), NEW changes \in SUBSET Items,
         CommitOnHead(changes)
  PROVE  /\ branch' \in [Names -> (SUBSET Items) \cup {Absent}] /\ at' \subseteq Items
         /\ \A n \in Names : Exists(n)' <=> Exists(n)
         /\ \A n \in Names : Exists(n) => branch[n] \subseteq branch'[n]
         /\ \A n \in Names \ {head} : branch'[n] = branch[n]
         /\ at \subseteq at'
         /\ head = Detached => at' = at \cup changes
         /\ head # Detached => at' = at /\ branch'[head] = branch[head] \cup changes
<1>1. CASE head = Detached
  BY <1>1 DEF CommitOnHead, TypeOK, Exists
<1>2. CASE head # Detached
  <2>1. head \in Names /\ branch[head] \in SUBSET Items
    BY <1>2, Histories DEF TypeOK
  <2> DEFINE history == branch[head] \cup changes
  <2>0. history \in SUBSET Items
    BY <2>1
  <2> HIDE DEF history
  <2>2. branch' = [branch EXCEPT ![head] = history] /\ at' = at
    BY <1>2 DEF CommitOnHead, history
  <2>3. /\ branch' \in [Names -> (SUBSET Items) \cup {Absent}]
        /\ branch'[head] = history /\ branch'[head] # Absent
        /\ \A m \in Names \ {head} : branch'[m] = branch[m] /\ (Exists(m)' <=> Exists(m))
    BY <2>1, <2>2, <2>0, WriteBranch DEF Exists
  <2>4. branch[head] \subseteq branch'[head]
    BY <2>3 DEF history
  <2>5. Exists(head)
    BY <2>1
  <2>6. at \subseteq at' /\ at' \subseteq Items
    BY <2>2 DEF TypeOK
  <2> QED BY <1>2, <2>2, <2>3, <2>4, <2>5, <2>6 DEF history, Exists
<1> QED BY <1>1, <1>2

\* What there is to commit.
LEMMA StagedFacts ==
  ASSUME tree \subseteq Items
  PROVE  /\ Staged \subseteq Items /\ Committable \subseteq Items
         /\ tree \cap Work \subseteq Committable
         /\ Conflict \notin Staged
         /\ Markers \in Staged => Markers \in tree \/ Conflict \in tree
         /\ Foreign \in Staged => Foreign \in tree
         /\ Preserved \in Staged => Preserved \in tree
         /\ (Staged \cap {Artifact}) \subseteq {Artifact}
BY TokenFacts DEF Staged, Committable

\* A merge into the task branch adds what it merges or leaves a note, and may
\* leave itself half done.
LEMMA MergeEffects ==
  ASSUME TypeOK, Exists(Task), NEW theirs \in SUBSET Items, NEW note,
         Merges(theirs, note)
  PROVE  /\ branch' \in [Names -> (SUBSET Items) \cup {Absent}]
         /\ \A n \in Names : Exists(n)' <=> Exists(n)
         /\ \A n \in Names \ {Task} : branch'[n] = branch[n]
         /\ branch'[Task] \in {branch[Task], branch[Task] \cup theirs}
         /\ theirs \subseteq branch'[Task] \/ note \in notes'
         /\ notes' \in {notes, notes \cup {note}}
         /\ \/ op' = op /\ tree' = tree
            \/ /\ op.kind # "rebase" /\ op' = [kind |-> "merge", orig |-> {}]
               /\ tree' = tree \cup {Conflict} /\ branch' = branch
<1>1. branch[Task] \in SUBSET Items
  BY NameFacts, Histories
<1>2. CASE theirs \subseteq branch[Task] /\ UNCHANGED <<branch, op, tree, notes, faults>>
  BY <1>1, <1>2 DEF TypeOK, Exists
<1>3. CASE MergeStops(theirs, note)
  BY <1>1, <1>3 DEF TypeOK, Exists, MergeStops
<1>4. CASE /\ branch' = [branch EXCEPT ![Task] = @ \cup theirs]
           /\ UNCHANGED <<op, tree, notes>>
  <2> DEFINE history == branch[Task] \cup theirs
  <2>0. history \in SUBSET Items
    BY <1>1
  <2>1. branch' = [branch EXCEPT ![Task] = history]
    BY <1>4
  <2> HIDE DEF history
  <2>2. /\ branch' \in [Names -> (SUBSET Items) \cup {Absent}]
        /\ branch'[Task] = history /\ Exists(Task)'
        /\ \A m \in Names \ {Task} : branch'[m] = branch[m] /\ (Exists(m)' <=> Exists(m))
    BY <2>0, <2>1, NameFacts, WriteBranch
  <2>3. theirs \subseteq branch'[Task]
    BY <2>2 DEF history
  <2> QED BY <1>4, <2>2, <2>3 DEF history
<1> QED BY <1>2, <1>3, <1>4 DEF Merges


----------------------------------------------------------------------------
(* The shape of the volume at each stage of a boot *)

\* Before a clone is complete there is nothing, and afterwards a base branch.
Cloned ==
  /\ git # "ok" => /\ head = Main /\ op = NoOp /\ tree = {} /\ at = {}
                   /\ \A n \in Names : ~Exists(n)
  /\ git = "ok" => Exists(Main)

\* A volume without a task branch was never served: HEAD is the base branch,
\* nothing was rescued on it and no operation stopped half-way.
Unserved ==
  /\ ~Exists(Task) => /\ head = Main /\ op = NoOp /\ tree \cap {Conflict, Markers} = {}
                      /\ \A n \in Names \ {Main} : ~Exists(n)
  /\ Exists(Task) => head # Main

\* What each stage of the boot may rely on.
Rescuing == {"locks", "abort", "rescue", "name", "commitRescue", "back"}
CheckedOut == {"reconcile", "render", "stamp"}
StageRepo ==
  /\ pod \in Rescuing => git = "ok" /\ persistent
  /\ pod = "clone" => git = "none"
  /\ pod \in {"checkout", "fetch", "merge", "serving"} \cup CheckedOut => git = "ok"
  /\ pod \in {"fetch", "merge"} => origin # Absent
StageTask ==
  /\ pod \in {"checkout", "fetch", "merge"} /\ ~persistent => ~Exists(Task)
  /\ pod \in {"fetch", "merge"} /\ Exists(Task) => head = Task /\ at = {}
  /\ pod \in CheckedOut => Exists(Task) /\ head = Task /\ at = {}
  /\ pod = "serving" => Exists(Task) /\ head \in {Task, Detached}
StageRescue ==
  /\ pod \in {"down", "claim", "wipeWorkspace", "prepare", "locks", "abort"} => ~abortFailed
  /\ pod = "rescue" => IF abortFailed THEN Exists(Task) ELSE op = NoOp
  /\ pod = "name" => head = Detached
  /\ pod \in {"commitRescue", "back"} => /\ head \in abortRescueBranchNames
                                         /\ prev # Main /\ (prev \in Names => Exists(prev))

\* A rebase has a task branch and a base, and the task branch is where it was
\* started while the agent is at it.
Rebasing ==
  op.kind = "rebase" =>
    /\ Exists(Task) /\ Exists(Main)
    /\ pod = "serving" /\ head = Detached => branch[Task] \subseteq op.orig

Shape == TypeOK /\ Cloned /\ Unserved /\ StageRepo /\ StageTask /\ StageRescue /\ Rebasing

\* The Boolean part of the type invariant, and the rest.
Flags ==
  /\ torn \in BOOLEAN /\ shallow \in BOOLEAN /\ lock \in BOOLEAN
  /\ persistent \in BOOLEAN /\ abortFailed \in BOOLEAN
Volume ==
  /\ identity \in {"none", "own", "other"} /\ git \in {"none", "partial", "ok"}
  /\ op \in Ops /\ tree \subseteq Items
  /\ head \in Names \cup {Detached} /\ at \subseteq Items
  /\ branch \in [Names -> (SUBSET Items) \cup {Absent}]
  /\ head \in Names /\ git = "ok" => Exists(head)
Fetches ==
  /\ origin \in (SUBSET Items) \cup {Absent} /\ base \subseteq Items
  /\ seen \subseteq Items /\ seenBase \subseteq Items
Place ==
  /\ pod \in Stages /\ prev \in Names \cup {Detached}
  /\ notes \subseteq Notes /\ told \subseteq Notes
Counts == faults \in 0..MaxFaults /\ kills \in 0..MaxKills

LEMMA TypeParts == TypeOK <=> Flags /\ Volume /\ Fetches /\ Place /\ Counts
BY DEF TypeOK, Flags, Volume, Fetches, Place, Counts
LEMMA TypePartsNext == TypeOK' <=> (Flags /\ Volume /\ Fetches /\ Place /\ Counts)'
BY DEF TypeOK, Flags, Volume, Fetches, Place, Counts

\* A rebase that is finished puts everything it stood between on the task branch.
LEMMA RebaseFinished ==
  ASSUME Shape, AgentFinishesRebase
  PROVE  /\ branch'[Task] = op.orig \cup at \cup (tree \cap Work) /\ Exists(Task)'
         /\ \A m \in Names \ {Task} : branch'[m] = branch[m] /\ (Exists(m)' <=> Exists(m))
         /\ branch[Task] \subseteq branch'[Task]
         /\ head' = Task /\ pod' = "serving" /\ UNCHANGED origin
<1> DEFINE history == op.orig \cup at \cup (tree \cap Work)
<1>1. op.orig \in SUBSET Items /\ at \in SUBSET Items /\ tree \in SUBSET Items
  BY DEF Shape, TypeOK, Ops
<1>2. history \in SUBSET Items
  BY <1>1
<1>3. branch[Task] \subseteq history
  BY DEF AgentFinishesRebase, InRebase, Shape, Rebasing
<1>4. branch' = [branch EXCEPT ![Task] = history]
  BY DEF AgentFinishesRebase
<1> HIDE DEF history
<1>5. /\ branch'[Task] = history /\ Exists(Task)'
      /\ \A m \in Names \ {Task} : branch'[m] = branch[m] /\ (Exists(m)' <=> Exists(m))
  BY <1>2, <1>4, NameFacts, WriteBranch DEF Shape
<1>6. head' = Task /\ pod' = "serving" /\ UNCHANGED origin
  BY DEF AgentFinishesRebase
<1> QED BY <1>3, <1>5, <1>6 DEF history

\* What the agent and the finaliser of a turn commit on a served pod.
LEMMA ServedCommit ==
  ASSUME Shape, AgentCommit \/ CommitAndPush
  PROVE  /\ TypeOK /\ Exists(Task) /\ git = "ok" /\ pod = "serving"
         /\ head \in {Task, Detached} /\ (head \in Names => Exists(head))
         /\ op' \in {op, ForgetMerge}
         /\ UNCHANGED <<identity, torn, git, head, base, pod, bootVars, told, kills>>
         /\ \/ /\ \E changes \in {tree \cap (Work \cup {Foreign}), Committable} :
                     CommitOnHead(changes)
               /\ tree' \subseteq tree \cap {Artifact}
            \/ tree' \in {tree, Staged} /\ UNCHANGED <<op, at, branch, origin>>
         /\ origin' \in {origin, PushOf(branch'[Task])}
<1>1. TypeOK /\ Exists(Task) /\ git = "ok" /\ pod = "serving" /\ head \in {Task, Detached}
  BY DEF AgentCommit, CommitAndPush, Shape, StageTask, StageRepo
<1>2. head \in Names => Exists(head)
  BY <1>1 DEF TypeOK
<1>3. Staged \cap {Artifact} \subseteq tree \cap {Artifact}
  BY TokenFacts DEF Staged
<1>4. CASE AgentCommit
  BY <1>1, <1>2, <1>4 DEF AgentCommit, bootVars
<1>5. CASE CommitAndPush
  BY <1>1, <1>2, <1>3, <1>5 DEF CommitAndPush, bootVars
<1> QED BY <1>4, <1>5

\* Such a commit adds to the history HEAD is at and to nothing else.
LEMMA ServedCommitted ==
  ASSUME Shape, AgentCommit \/ CommitAndPush
  PROVE  /\ branch' \in [Names -> (SUBSET Items) \cup {Absent}] /\ at' \subseteq Items
         /\ tree' \subseteq Items
         /\ \A n \in Names : Exists(n)' <=> Exists(n)
         /\ \A n \in Names : Exists(n) => branch[n] \subseteq branch'[n]
         /\ \A n \in Names \ {head} : branch'[n] = branch[n]
         /\ at \subseteq at' /\ (head # Detached => at' = at)
<1>1. /\ TypeOK /\ (head \in Names => Exists(head)) /\ tree \subseteq Items
      /\ Staged \subseteq Items /\ Committable \in SUBSET Items
      /\ tree \cap (Work \cup {Foreign}) \in SUBSET Items
  BY ServedCommit, StagedFacts DEF TypeOK
<1>2. CASE /\ \E changes \in {tree \cap (Work \cup {Foreign}), Committable} :
                CommitOnHead(changes)
           /\ tree' \subseteq tree \cap {Artifact}
  <2>1. PICK changes \in SUBSET Items : CommitOnHead(changes)
    BY <1>1, <1>2
  <2> QED BY <1>1, <1>2, <2>1, Commits
<1>3. CASE tree' \in {tree, Staged} /\ UNCHANGED <<at, branch>>
  BY <1>1, <1>3 DEF TypeOK, Exists
<1> QED BY <1>2, <1>3, ServedCommit

\* The flags stay flags.
LEMMA FlagSteps ==
  ASSUME Flags, Next
  PROVE  Flags'
<1> USE DEF Flags, Goto, NoVolume, volVars, bootVars, WrongTask, Removed, Fault, PodEnds,
        isUsableRepo, LockAfterSweep, GitWorks, Aborted, GitFails, Escalated, dirty, ForgetMerge,
        NoGit, gitVars, Committable, Staged, CommitOnHead, FirstFree, Claims, NewBranch,
        HeadHistory, localExists, ProbesRemote, Switches, Pushed, PushOf, Merges, MergeStops,
        resumeDirective, HalfRemoved, CutOff, InRebase
<1>1. CASE BootStart  BY <1>1, Zenon DEF BootStart
<1>2. CASE ClaimWorkspace  BY <1>2, Zenon DEF ClaimWorkspace
<1>3. CASE WipeWorkspace  BY <1>3, Zenon DEF WipeWorkspace
<1>4. CASE PrepareWorkspace  BY <1>4, Zenon DEF PrepareWorkspace
<1>5. CASE WipeCheckout  BY <1>5, Zenon DEF WipeCheckout
<1>6. CASE clearStaleLocks  BY <1>6, Zenon DEF clearStaleLocks
<1>7. CASE abortInProgress  BY <1>7, Zenon DEF abortInProgress
<1>8. CASE ResetAfterAbort  BY <1>8, Zenon DEF ResetAfterAbort
<1>9. CASE CleanTree  BY <1>9, Zenon DEF CleanTree
<1>10. CASE RescueCommit  BY <1>10, Zenon DEF RescueCommit
<1>11. CASE RescueLeavesTree  BY <1>11, Zenon DEF RescueLeavesTree
<1>12. CASE nameRescueBranch  BY <1>12, Zenon DEF nameRescueBranch
<1>13. CASE claimRescueBranch  BY <1>13, Zenon DEF claimRescueBranch
<1>14. CASE CommitUnabortable  BY <1>14, Zenon DEF CommitUnabortable
<1>15. CASE CheckoutBack  BY <1>15, Zenon DEF CheckoutBack
<1>16. CASE Clone  BY <1>16, Zenon DEF Clone
<1>17. CASE CheckoutNew  BY <1>17, Zenon DEF CheckoutNew
<1>18. CASE CheckoutLocal  BY <1>18, Zenon DEF CheckoutLocal
<1>19. CASE UnshallowForResume  BY <1>19, Zenon DEF UnshallowForResume
<1>20. CASE FetchTaskBranch  BY <1>20, Zenon DEF FetchTaskBranch
<1>21. CASE ResumeRemote  BY <1>21, Zenon DEF ResumeRemote
<1>22. CASE mergeRemoteTaskBranch  BY <1>22, Zenon DEF mergeRemoteTaskBranch
<1>23. CASE reconcileWithBase  BY <1>23, Zenon DEF reconcileWithBase
<1>24. CASE RenderConfig  BY <1>24, Zenon DEF RenderConfig
<1>25. CASE writeWorkspaceIdentity  BY <1>25, Zenon DEF writeWorkspaceIdentity
<1>26. CASE Kill  BY <1>26, Zenon DEF Kill
<1>27. CASE AgentEdit  BY <1>27, Zenon DEF AgentEdit
<1>28. CASE AgentCommit  BY <1>28, Zenon DEF AgentCommit
<1>29. CASE AgentDetach  BY <1>29, Zenon DEF AgentDetach
<1>30. CASE AgentMerge  BY <1>30, Zenon DEF AgentMerge
<1>31. CASE AgentRebase  BY <1>31, Zenon DEF AgentRebase
<1>32. CASE AgentFinishesRebase  BY <1>32, Zenon DEF AgentFinishesRebase
<1>33. CASE PushTaskBranch  BY <1>33, Zenon DEF PushTaskBranch
<1>34. CASE OriginMoves  BY <1>34, Zenon DEF OriginMoves
<1>35. CASE CommitAndPush  BY <1>35, Zenon DEF CommitAndPush
<1> QED BY <1>1, <1>2, <1>3, <1>4, <1>5, <1>6, <1>7, <1>8, <1>9, <1>10, <1>11, <1>12, <1>13,
          <1>14, <1>15, <1>16, <1>17, <1>18, <1>19, <1>20, <1>21, <1>22, <1>23, <1>24, <1>25,
          <1>26, <1>27, <1>28, <1>29, <1>30, <1>31, <1>32, <1>33, <1>34, <1>35
          DEF Next, Boot, Agent

\* The steps that leave the repository as it is.
LeavesRepo ==
  \/ BootStart \/ ClaimWorkspace \/ PrepareWorkspace \/ clearStaleLocks
  \/ CleanTree \/ UnshallowForResume \/ FetchTaskBranch \/ RenderConfig
  \/ writeWorkspaceIdentity \/ PushTaskBranch \/ OriginMoves

LEMMA RepoLeft ==
  ASSUME LeavesRepo
  PROVE  UNCHANGED <<git, op, tree, head, at, branch>>
BY DEF LeavesRepo, BootStart, ClaimWorkspace, PrepareWorkspace, clearStaleLocks, CleanTree,
   UnshallowForResume, FetchTaskBranch, RenderConfig, writeWorkspaceIdentity, PushTaskBranch,
   OriginMoves, NoVolume, NoGit, volVars, gitVars

\* The volume keeps its type.
LEMMA VolumeSteps ==
  ASSUME Shape, Next
  PROVE  Volume'
<1>1. CASE LeavesRepo
  BY <1>1, RepoLeft DEF Shape, TypeOK, Volume, Exists, LeavesRepo, BootStart, ClaimWorkspace,
     PrepareWorkspace, clearStaleLocks, CleanTree, UnshallowForResume, FetchTaskBranch,
     RenderConfig, writeWorkspaceIdentity, PushTaskBranch, OriginMoves, NoVolume, NoGit, volVars
<1>2. CASE RescueCommit
  <2>1. head \in Names => Exists(head)
    BY <1>2 DEF RescueCommit, Shape, TypeOK, StageRepo, Rescuing
  <2>2. Committable \in SUBSET Items /\ Staged \cap {Artifact} \subseteq Items
    BY StagedFacts, TokenFacts DEF Shape, TypeOK
  <2>3. TypeOK /\ CommitOnHead(Committable)
    BY <1>2 DEF RescueCommit, Shape
  <2> QED BY <1>2, <2>1, <2>2, <2>3, Commits DEF RescueCommit, Volume, TypeOK, Exists
<1>3. CASE CommitUnabortable
  <2>1. head \in Names => Exists(head)
    BY <1>3 DEF CommitUnabortable, Shape, TypeOK, StageRepo, Rescuing
  <2>2. Committable \cup {Preserved} \in SUBSET Items /\ Staged \subseteq Items /\ TypeOK
    BY StagedFacts, TokenFacts DEF Shape, TypeOK
  <2>3. CASE CommitOnHead(Committable \cup {Preserved}) /\ tree' = Staged \cap {Artifact}
    BY <1>3, <2>1, <2>2, <2>3, Commits DEF CommitUnabortable, Volume, TypeOK, Exists
  <2>4. CASE tree' \in {Staged, tree} /\ UNCHANGED <<at, branch>>
    BY <1>3, <2>1, <2>2, <2>4 DEF CommitUnabortable, Volume, TypeOK, Exists
  <2> QED BY <1>3, <2>3, <2>4 DEF CommitUnabortable
<1>4. CASE CheckoutLocal
  <2>1. /\ head' \in {head, Task} /\ at' \in {at, {}} /\ op' \in {op, NoOp}
        /\ UNCHANGED <<identity, git, tree, branch>>
    BY <1>4 DEF CheckoutLocal, ForgetMerge
  <2>2. Exists(Task)
    BY <1>4 DEF CheckoutLocal, localExists
  <2> QED BY <2>1, <2>2, NameFacts DEF Shape, TypeOK, Volume, Exists, Ops, NoOp
<1>5. CASE reconcileWithBase
  <2>1. TypeOK /\ Exists(Task) /\ base \in SUBSET Items
    BY <1>5 DEF reconcileWithBase, Shape, StageTask, TypeOK, CheckedOut
  <2>2. UNCHANGED <<identity, git, head, at>>
    BY <1>5 DEF reconcileWithBase
  <2>3. CASE Merges(base, "mergeBase")
    <3>1. /\ branch' \in [Names -> (SUBSET Items) \cup {Absent}]
          /\ \A n \in Names : Exists(n)' <=> Exists(n)
      BY <2>1, <2>3, MergeEffects
    <3>2. \/ op' = op /\ tree' = tree
          \/ op' = [kind |-> "merge", orig |-> {}] /\ tree' = tree \cup {Conflict}
      BY <2>1, <2>3, MergeEffects
    <3>3. op' \in Ops /\ tree' \subseteq Items
      BY <2>1, <3>2, TokenFacts DEF TypeOK, Ops
    <3> QED BY <2>1, <2>2, <3>1, <3>3 DEF TypeOK, Volume, Exists
  <2>4. CASE UNCHANGED <<branch, op, tree>>
    BY <2>1, <2>2, <2>4 DEF TypeOK, Volume, Exists
  <2> QED BY <1>5, <2>3, <2>4 DEF reconcileWithBase
<1>6. CASE writeWorkspaceIdentity
  BY <1>6 DEF writeWorkspaceIdentity, Goto, Fault, PodEnds, gitVars, Shape, TypeOK, Volume, Exists
<1>7. CASE AgentRebase
  <2>1. branch[Task] \in SUBSET Items /\ branch[Main] \in SUBSET Items
    BY <1>7, NameFacts, Histories DEF AgentRebase, Shape, StageTask, StageRepo, Cloned
  <2> QED BY <1>7, <2>1, NameFacts, TokenFacts DEF AgentRebase, Shape, TypeOK, Volume, Exists, Ops
<1> USE DEF Shape, TypeOK, Volume, Exists, StageRescue, StageTask, StageRepo, Ops, NoOp, Items,
        Removed, Goto, bootVars, Fault, PodEnds, volVars, GitWorks, Aborted, GitFails, Escalated,
        dirty, ForgetMerge, Staged, Committable, FirstFree, Claims, NewBranch, HeadHistory,
        localExists, ProbesRemote, Switches, Merges, MergeStops, HalfRemoved, CutOff, InRebase,
        CommitOnHead
<1>8. CASE WipeWorkspace  BY <1>8, NameFacts, TokenFacts DEF WipeWorkspace
<1>9. CASE WipeCheckout  BY <1>9, NameFacts, TokenFacts DEF WipeCheckout, gitVars
<1>10. CASE abortInProgress  BY <1>10, NameFacts, TokenFacts DEF abortInProgress
<1>11. CASE ResetAfterAbort  BY <1>11, NameFacts, TokenFacts DEF ResetAfterAbort
<1>12. CASE RescueLeavesTree  BY <1>12, NameFacts, TokenFacts DEF RescueLeavesTree
<1>13. CASE nameRescueBranch  BY <1>13, NameFacts, TokenFacts DEF nameRescueBranch
<1>14. CASE claimRescueBranch  BY <1>14, NameFacts, TokenFacts DEF claimRescueBranch
<1>15. CASE CheckoutBack  BY <1>15, NameFacts, TokenFacts DEF CheckoutBack
<1>16. CASE Clone  BY <1>16, NameFacts, TokenFacts DEF Clone
<1>17. CASE CheckoutNew  BY <1>17, NameFacts, TokenFacts DEF CheckoutNew
<1>18. CASE ResumeRemote  BY <1>18, NameFacts, TokenFacts DEF ResumeRemote
<1>19. CASE mergeRemoteTaskBranch  BY <1>19, NameFacts, TokenFacts DEF mergeRemoteTaskBranch
<1>20. CASE Kill  BY <1>20, NameFacts, TokenFacts DEF Kill
<1>21. CASE AgentEdit  BY <1>21, NameFacts, TokenFacts DEF AgentEdit
<1>22. CASE AgentCommit
  BY <1>22, ServedCommit, ServedCommitted
<1>23. CASE AgentDetach  BY <1>23, NameFacts, TokenFacts DEF AgentDetach
<1>24. CASE AgentMerge  BY <1>24, NameFacts, TokenFacts DEF AgentMerge
<1>25. CASE AgentFinishesRebase  BY <1>25, NameFacts, TokenFacts DEF AgentFinishesRebase
<1>26. CASE CommitAndPush
  BY <1>26, ServedCommit, ServedCommitted
<1> QED BY <1>1, <1>2, <1>3, <1>4, <1>5, <1>6, <1>7, <1>8, <1>9, <1>10, <1>11, <1>12, <1>13,
          <1>14, <1>15, <1>16, <1>17, <1>18, <1>19, <1>20, <1>21, <1>22, <1>23, <1>24, <1>25,
          <1>26 DEF Next, Boot, Agent, LeavesRepo

\* The remote histories keep their type.
LEMMA FetchesSteps ==
  ASSUME Shape, Next
  PROVE  Fetches'
<1>1. CASE OriginMoves
  <2>1. Others \subseteq Items /\ BaseWork \subseteq Items
    BY DEF Items
  <2> QED BY <1>1, <2>1 DEF OriginMoves, Shape, TypeOK, Fetches, bootVars
<1> USE DEF Shape, TypeOK, Fetches, StageRepo, Goto, NoVolume, volVars, bootVars, WrongTask,
        Removed, Fault, PodEnds, isUsableRepo, LockAfterSweep, GitWorks, Aborted, GitFails,
        Escalated, dirty, ForgetMerge, NoGit, gitVars, Committable, Staged, CommitOnHead,
        FirstFree, Claims, NewBranch, HeadHistory, localExists, ProbesRemote, Switches, Pushed,
        PushOf, Merges, MergeStops, resumeDirective, HalfRemoved, CutOff, InRebase
<1>2. CASE BootStart  BY <1>2, NameFacts, Histories DEF BootStart
<1>3. CASE ClaimWorkspace  BY <1>3, NameFacts, Histories DEF ClaimWorkspace
<1>4. CASE WipeWorkspace  BY <1>4, NameFacts, Histories DEF WipeWorkspace
<1>5. CASE PrepareWorkspace  BY <1>5, NameFacts, Histories DEF PrepareWorkspace
<1>6. CASE WipeCheckout  BY <1>6, NameFacts, Histories DEF WipeCheckout
<1>7. CASE clearStaleLocks  BY <1>7, NameFacts, Histories DEF clearStaleLocks
<1>8. CASE abortInProgress  BY <1>8, NameFacts, Histories DEF abortInProgress
<1>9. CASE ResetAfterAbort  BY <1>9, NameFacts, Histories DEF ResetAfterAbort
<1>10. CASE CleanTree  BY <1>10, NameFacts, Histories DEF CleanTree
<1>11. CASE RescueCommit  BY <1>11, NameFacts, Histories DEF RescueCommit
<1>12. CASE RescueLeavesTree  BY <1>12, NameFacts, Histories DEF RescueLeavesTree
<1>13. CASE nameRescueBranch  BY <1>13, NameFacts, Histories DEF nameRescueBranch
<1>14. CASE claimRescueBranch  BY <1>14, NameFacts, Histories DEF claimRescueBranch
<1>15. CASE CommitUnabortable  BY <1>15, NameFacts, Histories DEF CommitUnabortable
<1>16. CASE CheckoutBack  BY <1>16, NameFacts, Histories DEF CheckoutBack
<1>17. CASE Clone  BY <1>17, NameFacts, Histories DEF Clone
<1>18. CASE CheckoutNew  BY <1>18, NameFacts, Histories DEF CheckoutNew
<1>19. CASE CheckoutLocal  BY <1>19, NameFacts, Histories DEF CheckoutLocal
<1>20. CASE UnshallowForResume  BY <1>20, NameFacts, Histories DEF UnshallowForResume
<1>21. CASE FetchTaskBranch  BY <1>21, NameFacts, Histories DEF FetchTaskBranch
<1>22. CASE ResumeRemote  BY <1>22, NameFacts, Histories DEF ResumeRemote
<1>23. CASE mergeRemoteTaskBranch  BY <1>23, NameFacts, Histories DEF mergeRemoteTaskBranch
<1>24. CASE reconcileWithBase  BY <1>24, NameFacts, Histories DEF reconcileWithBase
<1>25. CASE RenderConfig  BY <1>25, NameFacts, Histories DEF RenderConfig
<1>26. CASE writeWorkspaceIdentity  BY <1>26, NameFacts, Histories DEF writeWorkspaceIdentity
<1>27. CASE Kill  BY <1>27, NameFacts, Histories DEF Kill
<1>28. CASE AgentEdit  BY <1>28, NameFacts, Histories DEF AgentEdit
<1>29. CASE AgentCommit  BY <1>29, NameFacts, Histories DEF AgentCommit
<1>30. CASE AgentDetach  BY <1>30, NameFacts, Histories DEF AgentDetach
<1>31. CASE AgentMerge  BY <1>31, NameFacts, Histories DEF AgentMerge
<1>32. CASE AgentRebase  BY <1>32, NameFacts, Histories DEF AgentRebase
<1>33. CASE AgentFinishesRebase  BY <1>33, NameFacts, Histories DEF AgentFinishesRebase
<1>34. CASE PushTaskBranch  BY <1>34, NameFacts, Histories DEF PushTaskBranch
<1>35. CASE CommitAndPush
  <2>1. branch'[Task] \in (SUBSET Items) \cup {Absent}
    BY <1>35, ServedCommitted, NameFacts
  <2>2. origin' \in {origin, PushOf(branch'[Task])}
    BY <1>35, ServedCommit
  <2>3. UNCHANGED <<base, seen, seenBase>>
    BY <1>35 DEF CommitAndPush
  <2> QED BY <2>1, <2>2, <2>3
<1> QED BY <1>1, <1>2, <1>3, <1>4, <1>5, <1>6, <1>7, <1>8, <1>9, <1>10, <1>11, <1>12, <1>13,
          <1>14, <1>15, <1>16, <1>17, <1>18, <1>19, <1>20, <1>21, <1>22, <1>23, <1>24, <1>25,
          <1>26, <1>27, <1>28, <1>29, <1>30, <1>31, <1>32, <1>33, <1>34, <1>35
          DEF Next, Boot, Agent

\* The stage, the name to go back to and the notes keep their types.
LEMMA PlaceSteps ==
  ASSUME TypeOK, Next
  PROVE  Place'
<1> USE DEF TypeOK, Place, Stages, Notes, Goto, NoVolume, volVars, bootVars, WrongTask, Removed,
        Fault, PodEnds, isUsableRepo, LockAfterSweep, GitWorks, Aborted, GitFails, Escalated,
        dirty, ForgetMerge, NoGit, gitVars, Committable, Staged, CommitOnHead, FirstFree, Claims,
        NewBranch, HeadHistory, localExists, ProbesRemote, Switches, Pushed, PushOf, Merges,
        MergeStops, resumeDirective, HalfRemoved, CutOff, InRebase
<1>1. CASE BootStart  BY <1>1, NameFacts, Zenon DEF BootStart
<1>2. CASE ClaimWorkspace  BY <1>2, NameFacts, Zenon DEF ClaimWorkspace
<1>3. CASE WipeWorkspace  BY <1>3, NameFacts, Zenon DEF WipeWorkspace
<1>4. CASE PrepareWorkspace  BY <1>4, NameFacts, Zenon DEF PrepareWorkspace
<1>5. CASE WipeCheckout  BY <1>5, NameFacts, Zenon DEF WipeCheckout
<1>6. CASE clearStaleLocks  BY <1>6, NameFacts, Zenon DEF clearStaleLocks
<1>7. CASE abortInProgress  BY <1>7, NameFacts, Zenon DEF abortInProgress
<1>8. CASE ResetAfterAbort  BY <1>8, NameFacts, Zenon DEF ResetAfterAbort
<1>9. CASE CleanTree  BY <1>9, NameFacts, Zenon DEF CleanTree
<1>10. CASE RescueCommit  BY <1>10, NameFacts, Zenon DEF RescueCommit
<1>11. CASE RescueLeavesTree  BY <1>11, NameFacts, Zenon DEF RescueLeavesTree
<1>12. CASE nameRescueBranch  BY <1>12, NameFacts, Zenon DEF nameRescueBranch
<1>13. CASE claimRescueBranch  BY <1>13, NameFacts, Zenon DEF claimRescueBranch
<1>14. CASE CommitUnabortable  BY <1>14, NameFacts, Zenon DEF CommitUnabortable
<1>15. CASE CheckoutBack  BY <1>15, NameFacts, Zenon DEF CheckoutBack
<1>16. CASE Clone  BY <1>16, NameFacts, Zenon DEF Clone
<1>17. CASE CheckoutNew  BY <1>17, NameFacts, Zenon DEF CheckoutNew
<1>18. CASE CheckoutLocal  BY <1>18, NameFacts, Zenon DEF CheckoutLocal
<1>19. CASE UnshallowForResume  BY <1>19, NameFacts, Zenon DEF UnshallowForResume
<1>20. CASE FetchTaskBranch  BY <1>20, NameFacts, Zenon DEF FetchTaskBranch
<1>21. CASE ResumeRemote  BY <1>21, NameFacts, Zenon DEF ResumeRemote
<1>22. CASE mergeRemoteTaskBranch  BY <1>22, NameFacts, Zenon DEF mergeRemoteTaskBranch
<1>23. CASE reconcileWithBase  BY <1>23, NameFacts, Zenon DEF reconcileWithBase
<1>24. CASE RenderConfig  BY <1>24, NameFacts, Zenon DEF RenderConfig
<1>25. CASE writeWorkspaceIdentity  BY <1>25, NameFacts, Zenon DEF writeWorkspaceIdentity
<1>26. CASE Kill  BY <1>26, NameFacts, Zenon DEF Kill
<1>27. CASE AgentEdit  BY <1>27, NameFacts, Zenon DEF AgentEdit
<1>28. CASE AgentCommit  BY <1>28, NameFacts, Zenon DEF AgentCommit
<1>29. CASE AgentDetach  BY <1>29, NameFacts, Zenon DEF AgentDetach
<1>30. CASE AgentMerge  BY <1>30, NameFacts, Zenon DEF AgentMerge
<1>31. CASE AgentRebase  BY <1>31, NameFacts, Zenon DEF AgentRebase
<1>32. CASE AgentFinishesRebase  BY <1>32, NameFacts, Zenon DEF AgentFinishesRebase
<1>33. CASE PushTaskBranch  BY <1>33, NameFacts, Zenon DEF PushTaskBranch
<1>34. CASE OriginMoves  BY <1>34, NameFacts, Zenon DEF OriginMoves
<1>35. CASE CommitAndPush  BY <1>35, NameFacts, Zenon DEF CommitAndPush
<1> QED BY <1>1, <1>2, <1>3, <1>4, <1>5, <1>6, <1>7, <1>8, <1>9, <1>10, <1>11, <1>12, <1>13,
          <1>14, <1>15, <1>16, <1>17, <1>18, <1>19, <1>20, <1>21, <1>22, <1>23, <1>24, <1>25,
          <1>26, <1>27, <1>28, <1>29, <1>30, <1>31, <1>32, <1>33, <1>34, <1>35
          DEF Next, Boot, Agent

\* No step passes the bounds.
LEMMA CountSteps ==
  ASSUME Counts, Next
  PROVE  Counts'
<1> USE DEF Counts, Goto, NoVolume, volVars, bootVars, WrongTask, Removed, Fault, PodEnds,
        isUsableRepo, LockAfterSweep, GitWorks, Aborted, GitFails, Escalated, dirty, ForgetMerge,
        NoGit, gitVars, Committable, Staged, CommitOnHead, FirstFree, Claims, NewBranch,
        HeadHistory, localExists, ProbesRemote, Switches, Pushed, PushOf, Merges, MergeStops,
        resumeDirective, HalfRemoved, CutOff, InRebase
<1>1. CASE BootStart  BY <1>1 DEF BootStart
<1>2. CASE ClaimWorkspace  BY <1>2 DEF ClaimWorkspace
<1>3. CASE WipeWorkspace  BY <1>3 DEF WipeWorkspace
<1>4. CASE PrepareWorkspace  BY <1>4 DEF PrepareWorkspace
<1>5. CASE WipeCheckout  BY <1>5 DEF WipeCheckout
<1>6. CASE clearStaleLocks  BY <1>6 DEF clearStaleLocks
<1>7. CASE abortInProgress  BY <1>7 DEF abortInProgress
<1>8. CASE ResetAfterAbort  BY <1>8 DEF ResetAfterAbort
<1>9. CASE CleanTree  BY <1>9 DEF CleanTree
<1>10. CASE RescueCommit  BY <1>10 DEF RescueCommit
<1>11. CASE RescueLeavesTree  BY <1>11 DEF RescueLeavesTree
<1>12. CASE nameRescueBranch  BY <1>12 DEF nameRescueBranch
<1>13. CASE claimRescueBranch  BY <1>13 DEF claimRescueBranch
<1>14. CASE CommitUnabortable  BY <1>14 DEF CommitUnabortable
<1>15. CASE CheckoutBack  BY <1>15 DEF CheckoutBack
<1>16. CASE Clone  BY <1>16 DEF Clone
<1>17. CASE CheckoutNew  BY <1>17 DEF CheckoutNew
<1>18. CASE CheckoutLocal  BY <1>18 DEF CheckoutLocal
<1>19. CASE UnshallowForResume  BY <1>19 DEF UnshallowForResume
<1>20. CASE FetchTaskBranch  BY <1>20 DEF FetchTaskBranch
<1>21. CASE ResumeRemote  BY <1>21 DEF ResumeRemote
<1>22. CASE mergeRemoteTaskBranch  BY <1>22 DEF mergeRemoteTaskBranch
<1>23. CASE reconcileWithBase  BY <1>23 DEF reconcileWithBase
<1>24. CASE RenderConfig  BY <1>24 DEF RenderConfig
<1>25. CASE writeWorkspaceIdentity  BY <1>25 DEF writeWorkspaceIdentity
<1>26. CASE Kill  BY <1>26 DEF Kill
<1>27. CASE AgentEdit  BY <1>27 DEF AgentEdit
<1>28. CASE AgentCommit  BY <1>28 DEF AgentCommit
<1>29. CASE AgentDetach  BY <1>29 DEF AgentDetach
<1>30. CASE AgentMerge  BY <1>30 DEF AgentMerge
<1>31. CASE AgentRebase  BY <1>31 DEF AgentRebase
<1>32. CASE AgentFinishesRebase  BY <1>32 DEF AgentFinishesRebase
<1>33. CASE PushTaskBranch  BY <1>33 DEF PushTaskBranch
<1>34. CASE OriginMoves  BY <1>34 DEF OriginMoves
<1>35. CASE CommitAndPush  BY <1>35 DEF CommitAndPush
<1> QED BY <1>1, <1>2, <1>3, <1>4, <1>5, <1>6, <1>7, <1>8, <1>9, <1>10, <1>11, <1>12, <1>13,
          <1>14, <1>15, <1>16, <1>17, <1>18, <1>19, <1>20, <1>21, <1>22, <1>23, <1>24, <1>25,
          <1>26, <1>27, <1>28, <1>29, <1>30, <1>31, <1>32, <1>33, <1>34, <1>35
          DEF Next, Boot, Agent

\* Only a clone makes a repository, and only a removal unmakes it.
LEMMA ClonedSteps ==
  ASSUME Shape, Next
  PROVE  Cloned'
<1>1. CASE LeavesRepo
  BY <1>1, RepoLeft DEF Shape, Cloned, Exists
<1>2. CASE RescueCommit
  <2>1. head \in Names => Exists(head)
    BY <1>2 DEF RescueCommit, Shape, TypeOK, StageRepo, Rescuing
  <2>2. Committable \in SUBSET Items /\ TypeOK
    BY StagedFacts DEF Shape, TypeOK
  <2>3. \A n \in Names : Exists(n)' <=> Exists(n)
    BY <1>2, <2>1, <2>2, Commits DEF RescueCommit, Exists
  <2>4. git' = "ok"
    BY <1>2 DEF RescueCommit, Shape, StageRepo, Rescuing
  <2>5. git = "ok"
    BY <1>2, <2>4 DEF RescueCommit
  <2> QED BY <2>5, <2>3, <2>4, NameFacts DEF Shape, Cloned, StageRepo
<1>3. CASE nameRescueBranch
  <2>1. git = "ok" /\ git' = "ok" /\ TypeOK /\ at \in SUBSET Items
    BY <1>3 DEF nameRescueBranch, Shape, StageRepo, Rescuing, TypeOK
  <2>2. CASE UNCHANGED branch
    BY <2>1, <2>2 DEF Shape, Cloned, Exists
  <2>3. CASE \E n \in rescueBranchNames : branch' = NewBranch(n, at)
    <3>1. PICK n \in Names \ {Task, Main} : branch' = [branch EXCEPT ![n] = at]
      BY <2>3, NameFacts DEF NewBranch
    <3> QED BY <2>1, <3>1, WriteBranch, NameFacts DEF Shape, Cloned
  <2> QED BY <1>3, <2>2, <2>3 DEF nameRescueBranch
<1>4. CASE CommitUnabortable
  <2>1. head \in Names => Exists(head)
    BY <1>4 DEF CommitUnabortable, Shape, TypeOK, StageRepo, Rescuing
  <2>2. Committable \cup {Preserved} \in SUBSET Items /\ TypeOK
    BY StagedFacts, TokenFacts DEF Shape, TypeOK
  <2>3. \A n \in Names : Exists(n)' <=> Exists(n)
    BY <1>4, <2>1, <2>2, Commits DEF CommitUnabortable, Exists
  <2>4. git' = "ok"
    BY <1>4 DEF CommitUnabortable, Shape, StageRepo, Rescuing
  <2>5. git = "ok"
    BY <1>4, <2>4 DEF CommitUnabortable
  <2> QED BY <2>5, <2>3, <2>4, NameFacts DEF Shape, Cloned, StageRepo
<1>5. CASE CheckoutBack
  BY <1>5, NameFacts DEF Shape, Cloned, StageRepo, Rescuing, Exists, CheckoutBack
<1>6. CASE reconcileWithBase
  <2>1. TypeOK /\ Exists(Task) /\ base \in SUBSET Items /\ git = "ok" /\ git' = "ok"
    BY <1>6 DEF reconcileWithBase, Shape, StageTask, StageRepo, TypeOK, CheckedOut
  <2>2. CASE Merges(base, "mergeBase")
    BY <2>1, <2>2, MergeEffects, NameFacts DEF Shape, Cloned
  <2>3. CASE UNCHANGED branch
    BY <2>1, <2>3 DEF Shape, Cloned, Exists
  <2> QED BY <1>6, <2>2, <2>3 DEF reconcileWithBase
<1> USE DEF Shape, TypeOK, Cloned, Exists, StageRepo, Rescuing, Removed, Goto, bootVars, Fault,
        PodEnds, volVars, GitWorks, Aborted, GitFails, Escalated, dirty, ForgetMerge, Staged,
        Committable, FirstFree, Claims, NewBranch, HeadHistory, localExists, ProbesRemote,
        Switches, Pushed, PushOf, Merges, MergeStops, HalfRemoved, CutOff, InRebase, CommitOnHead
<1>7. CASE WipeWorkspace  BY <1>7, NameFacts, Histories DEF WipeWorkspace
<1>8. CASE WipeCheckout  BY <1>8, NameFacts, Histories DEF WipeCheckout, gitVars
<1>9. CASE abortInProgress  BY <1>9, NameFacts, Histories DEF abortInProgress
<1>10. CASE ResetAfterAbort  BY <1>10, NameFacts, Histories DEF ResetAfterAbort
<1>11. CASE RescueLeavesTree  BY <1>11, NameFacts, Histories DEF RescueLeavesTree
<1>12. CASE claimRescueBranch  BY <1>12, NameFacts, Histories DEF claimRescueBranch
<1>13. CASE Clone  BY <1>13, NameFacts, Histories DEF Clone
<1>14. CASE CheckoutNew  BY <1>14, NameFacts, Histories DEF CheckoutNew
<1>15. CASE CheckoutLocal  BY <1>15, NameFacts, Histories DEF CheckoutLocal
<1>16. CASE ResumeRemote  BY <1>16, NameFacts, Histories DEF ResumeRemote
<1>17. CASE mergeRemoteTaskBranch  BY <1>17, NameFacts, Histories DEF mergeRemoteTaskBranch
<1>18. CASE Kill  BY <1>18, NameFacts, Histories DEF Kill
<1>19. CASE AgentEdit  BY <1>19, NameFacts, Histories DEF AgentEdit
<1>20. CASE AgentCommit
  BY <1>20, ServedCommit, ServedCommitted, NameFacts
<1>21. CASE AgentDetach  BY <1>21, NameFacts, Histories DEF AgentDetach
<1>22. CASE AgentMerge  BY <1>22, NameFacts, Histories DEF AgentMerge
<1>23. CASE AgentRebase  BY <1>23, NameFacts, Histories DEF AgentRebase
<1>24. CASE AgentFinishesRebase  BY <1>24, NameFacts, Histories DEF AgentFinishesRebase
<1>25. CASE CommitAndPush
  BY <1>25, ServedCommit, ServedCommitted, NameFacts
<1> QED BY <1>1, <1>2, <1>3, <1>4, <1>5, <1>6, <1>7, <1>8, <1>9, <1>10, <1>11, <1>12, <1>13,
          <1>14, <1>15, <1>16, <1>17, <1>18, <1>19, <1>20, <1>21, <1>22, <1>23, <1>24, <1>25
          DEF Next, Boot, Agent, LeavesRepo

\* Every stage finds the repository it relies on.
LEMMA RepoSteps ==
  ASSUME Shape, Next
  PROVE  StageRepo'
<1>1. CASE OriginMoves
  <2>1. (origin # Absent => origin' # Absent) /\ UNCHANGED <<git, pod, persistent>>
    <3>1. CASE UNCHANGED origin
      BY <1>1, <3>1 DEF OriginMoves, volVars, bootVars
    <3>2. CASE \E r \in Others : origin # Absent /\ origin' = origin \cup {r}
      <4>1. Others \subseteq Items
        BY DEF Items
      <4> QED BY <1>1, <3>2, <4>1 DEF OriginMoves, volVars, bootVars, Shape, TypeOK
    <3> QED BY <1>1, <3>1, <3>2 DEF OriginMoves
  <2> QED BY <2>1 DEF Shape, StageRepo, Rescuing, CheckedOut
<1> USE DEF Shape, TypeOK, StageRepo, Exists, Rescuing, CheckedOut, Goto, NoVolume, volVars,
        bootVars, WrongTask, Removed, Fault, PodEnds, isUsableRepo, LockAfterSweep, GitWorks,
        Aborted, GitFails, Escalated, dirty, ForgetMerge, NoGit, gitVars, Committable, Staged,
        CommitOnHead, FirstFree, Claims, NewBranch, HeadHistory, localExists, ProbesRemote,
        Switches, Pushed, PushOf, Merges, MergeStops, resumeDirective, HalfRemoved, CutOff,
        InRebase
<1>2. CASE BootStart  BY <1>2, NameFacts DEF BootStart
<1>3. CASE ClaimWorkspace  BY <1>3, NameFacts DEF ClaimWorkspace
<1>4. CASE WipeWorkspace  BY <1>4, NameFacts DEF WipeWorkspace
<1>5. CASE PrepareWorkspace  BY <1>5, NameFacts DEF PrepareWorkspace
<1>6. CASE WipeCheckout  BY <1>6, NameFacts DEF WipeCheckout
<1>7. CASE clearStaleLocks  BY <1>7, NameFacts DEF clearStaleLocks
<1>8. CASE abortInProgress  BY <1>8, NameFacts DEF abortInProgress
<1>9. CASE ResetAfterAbort  BY <1>9, NameFacts DEF ResetAfterAbort
<1>10. CASE CleanTree  BY <1>10, NameFacts DEF CleanTree
<1>11. CASE RescueCommit  BY <1>11, NameFacts DEF RescueCommit
<1>12. CASE RescueLeavesTree  BY <1>12, NameFacts DEF RescueLeavesTree
<1>13. CASE nameRescueBranch  BY <1>13, NameFacts DEF nameRescueBranch
<1>14. CASE claimRescueBranch  BY <1>14, NameFacts DEF claimRescueBranch
<1>15. CASE CommitUnabortable  BY <1>15, NameFacts DEF CommitUnabortable
<1>16. CASE CheckoutBack  BY <1>16, NameFacts DEF CheckoutBack
<1>17. CASE Clone  BY <1>17, NameFacts DEF Clone
<1>18. CASE CheckoutNew  BY <1>18, NameFacts DEF CheckoutNew
<1>19. CASE CheckoutLocal  BY <1>19, NameFacts DEF CheckoutLocal
<1>20. CASE UnshallowForResume  BY <1>20, NameFacts DEF UnshallowForResume
<1>21. CASE FetchTaskBranch  BY <1>21, NameFacts DEF FetchTaskBranch
<1>22. CASE ResumeRemote  BY <1>22, NameFacts DEF ResumeRemote
<1>23. CASE mergeRemoteTaskBranch  BY <1>23, NameFacts DEF mergeRemoteTaskBranch
<1>24. CASE reconcileWithBase  BY <1>24, NameFacts DEF reconcileWithBase
<1>25. CASE RenderConfig  BY <1>25, NameFacts DEF RenderConfig
<1>26. CASE writeWorkspaceIdentity  BY <1>26, NameFacts DEF writeWorkspaceIdentity
<1>27. CASE Kill  BY <1>27, NameFacts DEF Kill
<1>28. CASE AgentEdit  BY <1>28, NameFacts DEF AgentEdit
<1>29. CASE AgentCommit  BY <1>29, NameFacts DEF AgentCommit
<1>30. CASE AgentDetach  BY <1>30, NameFacts DEF AgentDetach
<1>31. CASE AgentMerge  BY <1>31, NameFacts DEF AgentMerge
<1>32. CASE AgentRebase  BY <1>32, NameFacts DEF AgentRebase
<1>33. CASE AgentFinishesRebase  BY <1>33, NameFacts DEF AgentFinishesRebase
<1>34. CASE PushTaskBranch  BY <1>34, NameFacts DEF PushTaskBranch
<1>35. CASE CommitAndPush  BY <1>35, NameFacts DEF CommitAndPush
<1> QED BY <1>1, <1>2, <1>3, <1>4, <1>5, <1>6, <1>7, <1>8, <1>9, <1>10, <1>11, <1>12, <1>13,
          <1>14, <1>15, <1>16, <1>17, <1>18, <1>19, <1>20, <1>21, <1>22, <1>23, <1>24, <1>25,
          <1>26, <1>27, <1>28, <1>29, <1>30, <1>31, <1>32, <1>33, <1>34, <1>35
          DEF Next, Boot, Agent

\* A task branch comes with the first boot that serves, and only a removal takes it.
LEMMA UnservedSteps ==
  ASSUME Shape, Next
  PROVE  Unserved'
<1>1. CASE LeavesRepo
  BY <1>1, RepoLeft DEF Shape, Unserved, Exists
<1>2. CASE abortInProgress
  <2>1. op.orig \in SUBSET Items /\ (op # NoOp => Exists(Task)) /\ Exists(Main) /\ pod' = "rescue"
    BY <1>2 DEF abortInProgress, Goto, Shape, TypeOK, Ops, Unserved, StageRepo, Rescuing, Cloned
  <2>2. CASE UNCHANGED <<op, tree, head, branch>>
    BY <2>2 DEF Shape, Unserved, Exists
  <2>3. CASE op # NoOp /\ Aborted /\ op.kind # "rebase"
    BY <2>1, <2>3 DEF Shape, Unserved, Exists, Aborted
  <2>4. CASE op # NoOp /\ Aborted /\ op.kind = "rebase"
    <3>1. branch' = [branch EXCEPT ![Task] = op.orig] /\ head' = Task
      BY <2>4 DEF Aborted
    <3>2. Exists(Task)'
      BY <2>1, <3>1, NameFacts, WriteBranch DEF Shape
    <3> QED BY <3>1, <3>2, NameFacts DEF Unserved
  <2> QED BY <1>2, <2>2, <2>3, <2>4 DEF abortInProgress
<1>3. CASE AgentFinishesRebase
  BY <1>3, RebaseFinished, NameFacts DEF Unserved
<1> USE DEF Shape, TypeOK, Unserved, StageTask, StageRepo, StageRescue, Cloned, Exists,
        CheckedOut, Rescuing, Removed, Goto, bootVars, Fault, PodEnds, volVars, Escalated, dirty,
        GitWorks, ForgetMerge, GitFails, Committable, Staged, CommitOnHead, FirstFree, Claims,
        NewBranch, HeadHistory, localExists, ProbesRemote, Switches, Pushed, PushOf, Merges,
        MergeStops, HalfRemoved, CutOff, InRebase
<1>4. CASE WipeWorkspace  BY <1>4, NameFacts, TokenFacts DEF WipeWorkspace
<1>5. CASE WipeCheckout  BY <1>5, NameFacts, TokenFacts DEF WipeCheckout, gitVars
<1>6. CASE ResetAfterAbort  BY <1>6, NameFacts, TokenFacts DEF ResetAfterAbort
<1>7. CASE RescueCommit  BY <1>7, NameFacts, TokenFacts DEF RescueCommit
<1>8. CASE RescueLeavesTree  BY <1>8, NameFacts, TokenFacts DEF RescueLeavesTree
<1>9. CASE nameRescueBranch  BY <1>9, NameFacts, TokenFacts DEF nameRescueBranch
<1>10. CASE claimRescueBranch  BY <1>10, NameFacts, TokenFacts DEF claimRescueBranch
<1>11. CASE CommitUnabortable  BY <1>11, NameFacts, TokenFacts DEF CommitUnabortable
<1>12. CASE CheckoutBack  BY <1>12, NameFacts, TokenFacts DEF CheckoutBack
<1>13. CASE Clone  BY <1>13, NameFacts, TokenFacts DEF Clone
<1>14. CASE CheckoutNew  BY <1>14, NameFacts, TokenFacts DEF CheckoutNew
<1>15. CASE CheckoutLocal  BY <1>15, NameFacts, TokenFacts DEF CheckoutLocal
<1>16. CASE ResumeRemote  BY <1>16, NameFacts, TokenFacts DEF ResumeRemote
<1>17. CASE mergeRemoteTaskBranch  BY <1>17, NameFacts, TokenFacts DEF mergeRemoteTaskBranch
<1>18. CASE reconcileWithBase  BY <1>18, NameFacts, TokenFacts DEF reconcileWithBase
<1>19. CASE Kill  BY <1>19, NameFacts, TokenFacts DEF Kill
<1>20. CASE AgentEdit  BY <1>20, NameFacts, TokenFacts DEF AgentEdit
<1>21. CASE AgentCommit
  BY <1>21, ServedCommit, ServedCommitted, NameFacts
<1>22. CASE AgentDetach  BY <1>22, NameFacts, TokenFacts DEF AgentDetach
<1>23. CASE AgentMerge  BY <1>23, NameFacts, TokenFacts DEF AgentMerge
<1>24. CASE AgentRebase  BY <1>24, NameFacts, TokenFacts DEF AgentRebase
<1>25. CASE CommitAndPush
  BY <1>25, ServedCommit, ServedCommitted, NameFacts
<1> QED BY <1>1, <1>2, <1>3, <1>4, <1>5, <1>6, <1>7, <1>8, <1>9, <1>10, <1>11, <1>12, <1>13,
          <1>14, <1>15, <1>16, <1>17, <1>18, <1>19, <1>20, <1>21, <1>22, <1>23, <1>24, <1>25
          DEF Next, Boot, Agent, LeavesRepo

\* Every stage finds HEAD and the task branch where it relies on them.
LEMMA TaskSteps ==
  ASSUME Shape, Next
  PROVE  StageTask'
<1>1. CASE AgentFinishesRebase
  BY <1>1, RebaseFinished DEF StageTask, CheckedOut
<1> USE DEF Shape, TypeOK, StageTask, Unserved, Cloned, StageRepo, Rescuing, CheckedOut, Exists,
        Goto, NoVolume, volVars, bootVars, WrongTask, Removed, Fault, PodEnds, isUsableRepo,
        LockAfterSweep, GitWorks, Aborted, GitFails, Escalated, dirty, ForgetMerge, NoGit,
        gitVars, Committable, Staged, CommitOnHead, FirstFree, Claims, NewBranch, HeadHistory,
        localExists, ProbesRemote, Switches, Pushed, PushOf, Merges, MergeStops, resumeDirective,
        HalfRemoved, CutOff, InRebase
<1>2. CASE BootStart  BY <1>2, NameFacts DEF BootStart
<1>3. CASE ClaimWorkspace  BY <1>3, NameFacts DEF ClaimWorkspace
<1>4. CASE WipeWorkspace  BY <1>4, NameFacts DEF WipeWorkspace
<1>5. CASE PrepareWorkspace  BY <1>5, NameFacts DEF PrepareWorkspace
<1>6. CASE WipeCheckout  BY <1>6, NameFacts DEF WipeCheckout
<1>7. CASE clearStaleLocks  BY <1>7, NameFacts DEF clearStaleLocks
<1>8. CASE abortInProgress  BY <1>8, NameFacts DEF abortInProgress
<1>9. CASE ResetAfterAbort  BY <1>9, NameFacts DEF ResetAfterAbort
<1>10. CASE CleanTree  BY <1>10, NameFacts DEF CleanTree
<1>11. CASE RescueCommit  BY <1>11, NameFacts DEF RescueCommit
<1>12. CASE RescueLeavesTree  BY <1>12, NameFacts DEF RescueLeavesTree
<1>13. CASE nameRescueBranch  BY <1>13, NameFacts DEF nameRescueBranch
<1>14. CASE claimRescueBranch  BY <1>14, NameFacts DEF claimRescueBranch
<1>15. CASE CommitUnabortable  BY <1>15, NameFacts DEF CommitUnabortable
<1>16. CASE CheckoutBack  BY <1>16, NameFacts DEF CheckoutBack
<1>17. CASE Clone  BY <1>17, NameFacts DEF Clone
<1>18. CASE CheckoutNew  BY <1>18, NameFacts DEF CheckoutNew
<1>19. CASE CheckoutLocal  BY <1>19, NameFacts DEF CheckoutLocal
<1>20. CASE UnshallowForResume  BY <1>20, NameFacts DEF UnshallowForResume
<1>21. CASE FetchTaskBranch  BY <1>21, NameFacts DEF FetchTaskBranch
<1>22. CASE ResumeRemote  BY <1>22, NameFacts DEF ResumeRemote
<1>23. CASE mergeRemoteTaskBranch  BY <1>23, NameFacts DEF mergeRemoteTaskBranch
<1>24. CASE reconcileWithBase  BY <1>24, NameFacts DEF reconcileWithBase
<1>25. CASE RenderConfig  BY <1>25, NameFacts DEF RenderConfig
<1>26. CASE writeWorkspaceIdentity  BY <1>26, NameFacts DEF writeWorkspaceIdentity
<1>27. CASE Kill  BY <1>27, NameFacts DEF Kill
<1>28. CASE AgentEdit  BY <1>28, NameFacts DEF AgentEdit
<1>29. CASE AgentCommit
  BY <1>29, ServedCommit, ServedCommitted, NameFacts
<1>30. CASE AgentDetach  BY <1>30, NameFacts DEF AgentDetach
<1>31. CASE AgentMerge  BY <1>31, NameFacts DEF AgentMerge
<1>32. CASE AgentRebase  BY <1>32, NameFacts DEF AgentRebase
<1>33. CASE PushTaskBranch  BY <1>33, NameFacts DEF PushTaskBranch
<1>34. CASE OriginMoves  BY <1>34, NameFacts DEF OriginMoves
<1>35. CASE CommitAndPush
  BY <1>35, ServedCommit, ServedCommitted, NameFacts
<1> QED BY <1>1, <1>2, <1>3, <1>4, <1>5, <1>6, <1>7, <1>8, <1>9, <1>10, <1>11, <1>12, <1>13,
          <1>14, <1>15, <1>16, <1>17, <1>18, <1>19, <1>20, <1>21, <1>22, <1>23, <1>24, <1>25,
          <1>26, <1>27, <1>28, <1>29, <1>30, <1>31, <1>32, <1>33, <1>34, <1>35
          DEF Next, Boot, Agent

\* Phase D finds what the abort left.
LEMMA RescueSteps ==
  ASSUME Shape, Next
  PROVE  StageRescue'
<1>1. CASE abortInProgress
  <2>1. op.orig \in SUBSET Items /\ (op # NoOp => Exists(Task)) /\ pod' = "rescue" /\ TypeOK
    BY <1>1 DEF abortInProgress, Goto, Shape, TypeOK, Ops, Unserved
  <2>2. op # NoOp => Exists(Task)'
    <3>1. CASE UNCHANGED branch
      BY <2>1, <3>1 DEF Exists
    <3>2. CASE branch' = [branch EXCEPT ![Task] = op.orig]
      BY <2>1, <3>2, NameFacts, WriteBranch
    <3> QED BY <1>1, <3>1, <3>2 DEF abortInProgress, Aborted
  <2>3. abortFailed' \/ op' = NoOp
    BY <1>1 DEF abortInProgress, Aborted
  <2>4. abortFailed' => op # NoOp
    BY <1>1 DEF abortInProgress, Shape, StageRescue
  <2> QED BY <2>1, <2>2, <2>3, <2>4 DEF StageRescue
<1>2. CASE CommitUnabortable
  <2>1. pod' \in {"back", "wipe"} /\ head' = head /\ prev' = prev
    BY <1>2 DEF CommitUnabortable, Goto
  <2>2. head \in abortRescueBranchNames /\ prev # Main /\ (prev \in Names => Exists(prev))
    BY <1>2 DEF CommitUnabortable, Shape, StageRescue
  <2>3. head \in Names => Exists(head)
    BY <1>2 DEF CommitUnabortable, Shape, TypeOK, StageRepo, Rescuing
  <2>4. Committable \cup {Preserved} \in SUBSET Items /\ TypeOK
    BY StagedFacts, TokenFacts DEF Shape, TypeOK
  <2>5. \A n \in Names : Exists(n)' <=> Exists(n)
    BY <1>2, <2>3, <2>4, Commits DEF CommitUnabortable, Exists
  <2>6. prev \in Names => Exists(prev)'
    BY <2>1, <2>2, <2>5 DEF Exists
  <2> QED BY <2>1, <2>2, <2>6 DEF StageRescue, Exists
<1> USE DEF Shape, TypeOK, StageRescue, StageRepo, Unserved, Cloned, Exists, Goto, NoVolume,
        volVars, bootVars, WrongTask, Removed, Fault, PodEnds, isUsableRepo, LockAfterSweep,
        Escalated, dirty, GitWorks, ForgetMerge, GitFails, NoGit, gitVars, Committable, Staged,
        CommitOnHead, FirstFree, Claims, NewBranch, HeadHistory, localExists, ProbesRemote,
        Switches, Pushed, PushOf, Merges, MergeStops, resumeDirective, HalfRemoved, CutOff,
        InRebase
<1>3. CASE BootStart  BY <1>3, NameFacts DEF BootStart
<1>4. CASE ClaimWorkspace  BY <1>4, NameFacts DEF ClaimWorkspace
<1>5. CASE WipeWorkspace  BY <1>5, NameFacts DEF WipeWorkspace
<1>6. CASE PrepareWorkspace  BY <1>6, NameFacts DEF PrepareWorkspace
<1>7. CASE WipeCheckout  BY <1>7, NameFacts DEF WipeCheckout
<1>8. CASE clearStaleLocks  BY <1>8, NameFacts DEF clearStaleLocks
<1>9. CASE ResetAfterAbort  BY <1>9, NameFacts DEF ResetAfterAbort
<1>10. CASE CleanTree  BY <1>10, NameFacts DEF CleanTree
<1>11. CASE RescueCommit  BY <1>11, NameFacts DEF RescueCommit
<1>12. CASE RescueLeavesTree  BY <1>12, NameFacts DEF RescueLeavesTree
<1>13. CASE nameRescueBranch  BY <1>13, NameFacts DEF nameRescueBranch
<1>14. CASE claimRescueBranch  BY <1>14, NameFacts DEF claimRescueBranch
<1>15. CASE CheckoutBack  BY <1>15, NameFacts DEF CheckoutBack
<1>16. CASE Clone  BY <1>16, NameFacts DEF Clone
<1>17. CASE CheckoutNew  BY <1>17, NameFacts DEF CheckoutNew
<1>18. CASE CheckoutLocal  BY <1>18, NameFacts DEF CheckoutLocal
<1>19. CASE UnshallowForResume  BY <1>19, NameFacts DEF UnshallowForResume
<1>20. CASE FetchTaskBranch  BY <1>20, NameFacts DEF FetchTaskBranch
<1>21. CASE ResumeRemote  BY <1>21, NameFacts DEF ResumeRemote
<1>22. CASE mergeRemoteTaskBranch  BY <1>22, NameFacts DEF mergeRemoteTaskBranch
<1>23. CASE reconcileWithBase  BY <1>23, NameFacts DEF reconcileWithBase
<1>24. CASE RenderConfig  BY <1>24, NameFacts DEF RenderConfig
<1>25. CASE writeWorkspaceIdentity  BY <1>25, NameFacts DEF writeWorkspaceIdentity
<1>26. CASE Kill  BY <1>26, NameFacts DEF Kill
<1>27. CASE AgentEdit  BY <1>27, NameFacts DEF AgentEdit
<1>28. CASE AgentCommit  BY <1>28, NameFacts DEF AgentCommit
<1>29. CASE AgentDetach  BY <1>29, NameFacts DEF AgentDetach
<1>30. CASE AgentMerge  BY <1>30, NameFacts DEF AgentMerge
<1>31. CASE AgentRebase  BY <1>31, NameFacts DEF AgentRebase
<1>32. CASE AgentFinishesRebase  BY <1>32, NameFacts DEF AgentFinishesRebase
<1>33. CASE PushTaskBranch  BY <1>33, NameFacts DEF PushTaskBranch
<1>34. CASE OriginMoves  BY <1>34, NameFacts DEF OriginMoves
<1>35. CASE CommitAndPush  BY <1>35, NameFacts DEF CommitAndPush
<1> QED BY <1>1, <1>2, <1>3, <1>4, <1>5, <1>6, <1>7, <1>8, <1>9, <1>10, <1>11, <1>12, <1>13,
          <1>14, <1>15, <1>16, <1>17, <1>18, <1>19, <1>20, <1>21, <1>22, <1>23, <1>24, <1>25,
          <1>26, <1>27, <1>28, <1>29, <1>30, <1>31, <1>32, <1>33, <1>34, <1>35
          DEF Next, Boot, Agent

\* A rebase that stopped stands between the same histories until it is aborted or finished.
LEMMA RebasingSteps ==
  ASSUME Shape, Next
  PROVE  Rebasing'
<1> USE DEF Shape, TypeOK, Rebasing, StageTask, StageRepo, Cloned, Unserved, StageRescue, Ops,
        NoOp, Exists, CheckedOut, Goto, NoVolume, volVars, bootVars, WrongTask, Removed, Fault,
        PodEnds, isUsableRepo, LockAfterSweep, GitWorks, Aborted, GitFails, Escalated, dirty,
        ForgetMerge, NoGit, gitVars, Committable, Staged, CommitOnHead, FirstFree, Claims,
        NewBranch, HeadHistory, localExists, ProbesRemote, Switches, Pushed, PushOf, Merges,
        MergeStops, resumeDirective, HalfRemoved, CutOff, InRebase
<1>1. CASE BootStart  BY <1>1, NameFacts, Histories DEF BootStart
<1>2. CASE ClaimWorkspace  BY <1>2, NameFacts, Histories DEF ClaimWorkspace
<1>3. CASE WipeWorkspace  BY <1>3, NameFacts, Histories DEF WipeWorkspace
<1>4. CASE PrepareWorkspace  BY <1>4, NameFacts, Histories DEF PrepareWorkspace
<1>5. CASE WipeCheckout  BY <1>5, NameFacts, Histories DEF WipeCheckout
<1>6. CASE clearStaleLocks  BY <1>6, NameFacts, Histories DEF clearStaleLocks
<1>7. CASE abortInProgress  BY <1>7, NameFacts, Histories DEF abortInProgress
<1>8. CASE ResetAfterAbort  BY <1>8, NameFacts, Histories DEF ResetAfterAbort
<1>9. CASE CleanTree  BY <1>9, NameFacts, Histories DEF CleanTree
<1>10. CASE RescueCommit  BY <1>10, NameFacts, Histories DEF RescueCommit
<1>11. CASE RescueLeavesTree  BY <1>11, NameFacts, Histories DEF RescueLeavesTree
<1>12. CASE nameRescueBranch  BY <1>12, NameFacts, Histories DEF nameRescueBranch
<1>13. CASE claimRescueBranch  BY <1>13, NameFacts, Histories DEF claimRescueBranch
<1>14. CASE CommitUnabortable  BY <1>14, NameFacts, Histories DEF CommitUnabortable
<1>15. CASE CheckoutBack  BY <1>15, NameFacts, Histories DEF CheckoutBack
<1>16. CASE Clone  BY <1>16, NameFacts, Histories DEF Clone
<1>17. CASE CheckoutNew  BY <1>17, NameFacts, Histories DEF CheckoutNew
<1>18. CASE CheckoutLocal  BY <1>18, NameFacts, Histories DEF CheckoutLocal
<1>19. CASE UnshallowForResume  BY <1>19, NameFacts, Histories DEF UnshallowForResume
<1>20. CASE FetchTaskBranch  BY <1>20, NameFacts, Histories DEF FetchTaskBranch
<1>21. CASE ResumeRemote  BY <1>21, NameFacts, Histories DEF ResumeRemote
<1>22. CASE mergeRemoteTaskBranch  BY <1>22, NameFacts, Histories DEF mergeRemoteTaskBranch
<1>23. CASE reconcileWithBase  BY <1>23, NameFacts, Histories DEF reconcileWithBase
<1>24. CASE RenderConfig  BY <1>24, NameFacts, Histories DEF RenderConfig
<1>25. CASE writeWorkspaceIdentity  BY <1>25, NameFacts, Histories DEF writeWorkspaceIdentity
<1>26. CASE Kill  BY <1>26, NameFacts, Histories DEF Kill
<1>27. CASE AgentEdit  BY <1>27, NameFacts, Histories DEF AgentEdit
<1>28. CASE AgentCommit
  BY <1>28, ServedCommit, ServedCommitted, NameFacts
<1>29. CASE AgentDetach  BY <1>29, NameFacts, Histories DEF AgentDetach
<1>30. CASE AgentMerge  BY <1>30, NameFacts, Histories DEF AgentMerge
<1>31. CASE AgentRebase  BY <1>31, NameFacts, Histories DEF AgentRebase
<1>32. CASE AgentFinishesRebase  BY <1>32, NameFacts, Histories DEF AgentFinishesRebase
<1>33. CASE PushTaskBranch  BY <1>33, NameFacts, Histories DEF PushTaskBranch
<1>34. CASE OriginMoves  BY <1>34, NameFacts, Histories DEF OriginMoves
<1>35. CASE CommitAndPush
  BY <1>35, ServedCommit, ServedCommitted, NameFacts
<1> QED BY <1>1, <1>2, <1>3, <1>4, <1>5, <1>6, <1>7, <1>8, <1>9, <1>10, <1>11, <1>12, <1>13,
          <1>14, <1>15, <1>16, <1>17, <1>18, <1>19, <1>20, <1>21, <1>22, <1>23, <1>24, <1>25,
          <1>26, <1>27, <1>28, <1>29, <1>30, <1>31, <1>32, <1>33, <1>34, <1>35
          DEF Next, Boot, Agent

LEMMA ShapeInit == Init => Shape
<1> SUFFICES ASSUME Init PROVE Shape
  OBVIOUS
<1>1. Flags
  BY Zenon DEF Init, Flags
<1>2. Volume
  BY NameFacts, TokenFacts DEF Init, Fresh, Rebound, Used, Volume, Exists, Ops, NoOp
<1>3. Fetches
  BY DEF Init, Fetches, Items
<1>4. Place
  BY NameFacts, Zenon DEF Init, Place, Stages
<1>5. Counts
  BY DEF Init, Counts
<1>6. Cloned /\ Unserved
  BY NameFacts, TokenFacts DEF Init, Fresh, Rebound, Used, Cloned, Unserved, Exists
<1>7. StageRepo /\ StageTask /\ StageRescue /\ Rebasing
  BY DEF Init, StageRepo, StageTask, StageRescue, Rebasing, NoOp, Rescuing, CheckedOut
<1> QED BY <1>1, <1>2, <1>3, <1>4, <1>5, <1>6, <1>7, TypeParts DEF Shape

LEMMA ShapeStep == Shape /\ [Next]_vars => Shape'
<1> SUFFICES ASSUME Shape, [Next]_vars PROVE Shape'
  OBVIOUS
<1>1. CASE Next
  <2>1. Flags /\ Counts /\ TypeOK
    BY TypeParts DEF Shape
  <2>2. TypeOK'
    BY <1>1, <2>1, FlagSteps, VolumeSteps, FetchesSteps, PlaceSteps, CountSteps, TypePartsNext
  <2> QED BY <1>1, <2>2, ClonedSteps, UnservedSteps, RepoSteps, TaskSteps, RescueSteps,
             RebasingSteps DEF Shape
<1>2. CASE UNCHANGED vars
  <2>1. Flags' /\ Place' /\ Counts'
    BY <1>2, TypeParts, Zenon DEF Shape, Flags, Place, Counts, vars, volVars, bootVars
  <2>2. Volume' /\ Fetches'
    BY <1>2, TypeParts DEF Shape, Volume, Fetches, vars, volVars, bootVars, Exists
  <2>3. Cloned' /\ Unserved' /\ StageRepo' /\ StageTask'
    BY <1>2 DEF Shape, vars, volVars, bootVars, Cloned, Unserved, StageRepo, StageTask, Exists
  <2>4. StageRescue' /\ Rebasing'
    BY <1>2 DEF Shape, vars, volVars, bootVars, StageRescue, Rebasing, Exists
  <2> QED BY <2>1, <2>2, <2>3, <2>4, TypePartsNext DEF Shape
<1> QED BY <1>1, <1>2

\* The type invariant of the volume, origin and the running boot (resume.go,
\* bootstrap.go), HEAD naming a branch that exists included, for any bounds.
THEOREM TypeCorrect == Spec => []TypeOK
<1>1. Shape => TypeOK
  BY DEF Shape
<1> QED BY <1>1, ShapeInit, ShapeStep, PTL DEF Spec

\* A push takes nothing from origin.
LEMMA PushKeeps ==
  ASSUME TypeOK, NEW history \in (SUBSET Items) \cup {Absent}, origin' \in {origin, PushOf(history)}
  PROVE  /\ origin # Absent => origin' # Absent /\ origin \subseteq origin'
         /\ \A c : origin' # Absent /\ c \in origin' =>
              (origin # Absent /\ c \in origin) \/ (history # Absent /\ c \in history)
BY DEF PushOf, TypeOK

\* Neither does what the others push, to the task branch or to the base.
LEMMA OthersKeep ==
  ASSUME TypeOK, OriginMoves
  PROVE  /\ origin # Absent => origin' # Absent /\ origin \subseteq origin'
         /\ origin' # Absent => origin # Absent /\ origin' \subseteq origin \cup Others
         /\ base \subseteq base' /\ base' \subseteq base \cup BaseWork
<1>1. Others \subseteq Items
  BY DEF Items
<1>2. CASE \E r \in Others : origin # Absent /\ origin' = origin \cup {r} /\ UNCHANGED base
  BY <1>1, <1>2 DEF TypeOK
<1>3. CASE UNCHANGED origin /\ \E m \in BaseWork : base' = base \cup {m}
  BY <1>3
<1> QED BY <1>2, <1>3 DEF OriginMoves

\* A commit keeps what was held and holds what it commits.
LEMMA HeldCommitted ==
  ASSUME TypeOK, head \in Names => Exists(head), NEW changes \in SUBSET Items,
         CommitOnHead(changes), UNCHANGED head,
         origin # Absent => origin' # Absent /\ origin \subseteq origin'
  PROVE  Held \subseteq Held' /\ changes \subseteq Held'
<1>1. /\ \A n \in Names : Exists(n)' <=> Exists(n)
      /\ \A n \in Names : Exists(n) => branch[n] \subseteq branch'[n]
      /\ at \subseteq at'
  BY Commits
<1>2. Held \subseteq Held'
  BY <1>1, HeldGrows
<1>3. CASE head = Detached
  <2>1. changes \subseteq at' /\ head' = Detached
    BY <1>3, Commits
  <2> QED BY <1>2, <2>1, HeldMemberNext
<1>4. CASE head # Detached
  <2>1. changes \subseteq branch'[head] /\ head \in Names
    BY <1>4, Commits DEF TypeOK
  <2>2. branch'[head] # Absent
    BY <1>1, <2>1 DEF Exists
  <2> QED BY <1>2, <2>1, <2>2, HeldMemberNext DEF Exists
<1> QED BY <1>3, <1>4

\* What is on a branch or at HEAD after a commit was there or is committed.
LEMMA CommittedFrom ==
  ASSUME TypeOK, head \in Names => Exists(head), NEW changes \in SUBSET Items,
         CommitOnHead(changes), NEW c
  PROVE  /\ c \in at' => c \in at \cup changes
         /\ \A n \in Names : Exists(n)' /\ c \in branch'[n]
                               => c \in changes \/ (Exists(n) /\ c \in branch[n])
<1>1. c \in at' => c \in at \cup changes
  BY Commits
<1>2. ASSUME NEW n \in Names, Exists(n)', c \in branch'[n]
      PROVE  c \in changes \/ (Exists(n) /\ c \in branch[n])
  <2>1. Exists(n)
    BY <1>2, Commits
  <2>2. CASE n = head
    BY <1>2, <2>1, <2>2, NameFacts, Commits
  <2>3. CASE n # head
    BY <1>2, <2>1, <2>3, Commits
  <2> QED BY <2>2, <2>3
<1> QED BY <1>1, <1>2

----------------------------------------------------------------------------
(* Commits and edits are kept *)

\* What CommitsKept and UncommittedKept say of one step.
Kept == Held \ Held' \subseteq LeftBehind \/ Wipes
EditsKept == tree \cap Work \subseteq tree' \cup Held' \/ Wipes \/ Aborts

\* Held grows in every other step.
LEMMA CommitsKeptStep ==
  ASSUME Shape, Next
  PROVE  Kept
<1>1. CASE abortInProgress
  <2>1. op.orig \in SUBSET Items /\ TypeOK /\ UNCHANGED origin
    BY <1>1 DEF abortInProgress, Shape, TypeOK, Ops
  <2>2. CASE UNCHANGED <<head, at, branch>>
    BY <2>1, <2>2, HeldGrows DEF Kept, Exists
  <2>3. CASE op # NoOp /\ op.kind = "rebase" /\ Aborted
    <3>1. branch' = [branch EXCEPT ![Task] = op.orig]
      BY <2>3 DEF Aborted
    <3>2. /\ branch'[Task] = op.orig /\ Exists(Task)'
          /\ \A m \in Names \ {Task} : branch'[m] = branch[m] /\ (Exists(m)' <=> Exists(m))
      BY <2>1, <3>1, NameFacts, WriteBranch
    <3>3. ASSUME NEW c \in Held, c \notin Held' PROVE c \in (HeadHistory \cup branch[Task]) \ op.orig
      <4>1. c \notin op.orig
        BY <3>2, <3>3, NameFacts, HeldMemberNext
      <4>2. CASE head = Detached /\ c \in at
        BY <4>1, <4>2 DEF HeadHistory
      <4>3. CASE \E n \in Names : Exists(n) /\ c \in branch[n]
        <5>1. PICK n \in Names : Exists(n) /\ c \in branch[n]
          BY <4>3
        <5>2. n = Task
          BY <3>2, <3>3, <5>1, HeldMemberNext
        <5> QED BY <4>1, <5>1, <5>2
      <4>4. ~(origin # Absent /\ c \in origin)
        BY <2>1, <3>3, HeldMemberNext
      <4> QED BY <4>2, <4>3, <4>4, HeldMember
    <3>4. AbortsRebase
      BY <1>1, <2>3 DEF abortInProgress, AbortsRebase, Aborts
    <3>5. (HeadHistory \cup branch[Task]) \ op.orig \subseteq LeftBehind
      BY <3>4 DEF LeftBehind
    <3> QED BY <3>3, <3>5 DEF Kept
  <2> QED BY <1>1, <2>2, <2>3 DEF abortInProgress, Aborted
<1>2. CASE RescueCommit
  <2>1. head \in Names => Exists(head)
    BY <1>2 DEF RescueCommit, Shape, TypeOK, StageRepo, Rescuing
  <2>2. Committable \in SUBSET Items /\ TypeOK
    BY StagedFacts DEF Shape, TypeOK
  <2> QED BY <1>2, <2>1, <2>2, HeldCommitted DEF RescueCommit, Kept
<1>3. CASE CommitUnabortable
  <2>1. head \in Names => Exists(head)
    BY <1>3 DEF CommitUnabortable, Shape, TypeOK, StageRepo, Rescuing
  <2>2. Committable \cup {Preserved} \in SUBSET Items /\ TypeOK
    BY StagedFacts, TokenFacts DEF Shape, TypeOK
  <2>3. CASE CommitOnHead(Committable \cup {Preserved})
    BY <1>3, <2>1, <2>2, <2>3, HeldCommitted DEF CommitUnabortable, Kept
  <2>4. CASE UNCHANGED <<at, branch>>
    BY <1>3, <2>4, HeldGrows DEF CommitUnabortable, Kept, Exists
  <2> QED BY <1>3, <2>3, <2>4 DEF CommitUnabortable
<1>4. CASE CheckoutBack
  <2>1. head # Detached /\ UNCHANGED <<origin, branch>>
    BY <1>4, NameFacts DEF CheckoutBack, Shape, StageRescue
  <2> QED BY <2>1, HeldGrows DEF Kept, Exists
<1>5. CASE CheckoutLocal
  <2>1. origin' \in {origin, Pushed} /\ UNCHANGED branch /\ TypeOK
    BY <1>5 DEF CheckoutLocal, Shape
  <2>2. (IF head = Detached THEN at ELSE {}) \subseteq LeftBehind
    BY <1>5 DEF CheckoutLocal, LeavesDetached, LeftBehind
  <2>3. origin # Absent => origin' # Absent /\ origin \subseteq origin'
    BY <2>1, NameFacts, PushKeeps DEF Pushed, TypeOK
  <2> QED BY <2>1, <2>2, <2>3, HeldButDetached DEF Kept, Exists
<1>6. CASE AgentFinishesRebase
  <2>1. \A n \in Names : Exists(n) => Exists(n)' /\ branch[n] \subseteq branch'[n]
    BY <1>6, RebaseFinished
  <2>2. Exists(Task)' /\ at \subseteq branch'[Task] /\ UNCHANGED origin
    BY <1>6, RebaseFinished
  <2> QED BY <2>1, <2>2, NameFacts, HeldGrows DEF Kept
<1>7. CASE OriginMoves
  <2>1. TypeOK /\ UNCHANGED <<head, at, branch>>
    BY <1>7 DEF OriginMoves, volVars, Shape
  <2> QED BY <1>7, <2>1, OthersKeep, HeldGrows DEF Kept, Exists
<1> USE DEF Shape, TypeOK, Kept, Wipes, LeavesDetached, Exists, StageTask, Cloned, StageRepo,
        Goto, NoVolume, volVars, bootVars, WrongTask, Removed, Fault, PodEnds, isUsableRepo,
        LockAfterSweep, Escalated, dirty, GitWorks, ForgetMerge, GitFails, NoGit, gitVars, Staged,
        Committable, FirstFree, Claims, NewBranch, HeadHistory, localExists, ProbesRemote,
        Switches, Merges, MergeStops, resumeDirective, HalfRemoved, CutOff, InRebase,
        CommitOnHead, Pushed
<1>8. CASE BootStart  BY <1>8, NameFacts, HeldGrows DEF BootStart
<1>9. CASE ClaimWorkspace  BY <1>9, NameFacts, HeldGrows DEF ClaimWorkspace
<1>10. CASE WipeWorkspace  BY <1>10, NameFacts, HeldGrows DEF WipeWorkspace
<1>11. CASE PrepareWorkspace  BY <1>11, NameFacts, HeldGrows DEF PrepareWorkspace
<1>12. CASE WipeCheckout  BY <1>12, NameFacts, HeldGrows DEF WipeCheckout
<1>13. CASE clearStaleLocks  BY <1>13, NameFacts, HeldGrows DEF clearStaleLocks
<1>14. CASE ResetAfterAbort  BY <1>14, NameFacts, HeldGrows DEF ResetAfterAbort
<1>15. CASE CleanTree  BY <1>15, NameFacts, HeldGrows DEF CleanTree
<1>16. CASE RescueLeavesTree  BY <1>16, NameFacts, HeldGrows DEF RescueLeavesTree
<1>17. CASE nameRescueBranch  BY <1>17, NameFacts, HeldGrows DEF nameRescueBranch
<1>18. CASE claimRescueBranch  BY <1>18, NameFacts, HeldGrows DEF claimRescueBranch
<1>19. CASE Clone  BY <1>19, NameFacts, HeldGrows DEF Clone
<1>20. CASE CheckoutNew
  <2>1. \A n \in Names : Exists(n) => Exists(n)' /\ branch[n] \subseteq branch'[n]
    BY <1>20, NameFacts DEF CheckoutNew
  <2>2. UNCHANGED origin /\ (IF head = Detached THEN at ELSE {}) \subseteq LeftBehind
    BY <1>20 DEF CheckoutNew, LeftBehind
  <2> QED BY <2>1, <2>2, HeldButDetached
<1>21. CASE UnshallowForResume  BY <1>21, NameFacts, HeldGrows DEF UnshallowForResume
<1>22. CASE FetchTaskBranch  BY <1>22, NameFacts, HeldGrows DEF FetchTaskBranch
<1>23. CASE ResumeRemote
  <2>1. \A n \in Names : Exists(n) => Exists(n)' /\ branch[n] \subseteq branch'[n]
    BY <1>23, NameFacts DEF ResumeRemote
  <2>2. UNCHANGED origin /\ (IF head = Detached THEN at ELSE {}) \subseteq LeftBehind
    BY <1>23 DEF ResumeRemote, LeftBehind
  <2> QED BY <2>1, <2>2, HeldButDetached
<1>24. CASE mergeRemoteTaskBranch  BY <1>24, NameFacts, HeldGrows DEF mergeRemoteTaskBranch
<1>25. CASE reconcileWithBase  BY <1>25, NameFacts, HeldGrows DEF reconcileWithBase
<1>26. CASE RenderConfig  BY <1>26, NameFacts, HeldGrows DEF RenderConfig
<1>27. CASE writeWorkspaceIdentity  BY <1>27, NameFacts, HeldGrows DEF writeWorkspaceIdentity
<1>28. CASE Kill  BY <1>28, NameFacts, HeldGrows DEF Kill
<1>29. CASE AgentEdit  BY <1>29, NameFacts, HeldGrows DEF AgentEdit
<1>30. CASE AgentCommit
  BY <1>30, ServedCommit, ServedCommitted, HeldGrows DEF AgentCommit
<1>31. CASE AgentDetach  BY <1>31, NameFacts, HeldGrows DEF AgentDetach
<1>32. CASE AgentMerge  BY <1>32, NameFacts, HeldGrows DEF AgentMerge
<1>33. CASE AgentRebase  BY <1>33, NameFacts, HeldGrows DEF AgentRebase
<1>34. CASE PushTaskBranch
  <2>1. branch[Task] \in (SUBSET Items) \cup {Absent} /\ origin' = PushOf(branch[Task])
    BY <1>34, NameFacts DEF PushTaskBranch
  <2>2. origin # Absent => origin' # Absent /\ origin \subseteq origin'
    BY <2>1, PushKeeps DEF Shape
  <2> QED BY <1>34, <2>2, HeldGrows DEF PushTaskBranch
<1>35. CASE CommitAndPush
  <2>1. branch'[Task] \in (SUBSET Items) \cup {Absent}
    BY <1>35, ServedCommitted, NameFacts
  <2>2. origin # Absent => origin' # Absent /\ origin \subseteq origin'
    BY <1>35, <2>1, ServedCommit, PushKeeps
  <2> QED BY <1>35, <2>2, ServedCommit, ServedCommitted, HeldGrows
<1> QED BY <1>1, <1>2, <1>3, <1>4, <1>5, <1>6, <1>7, <1>8, <1>9, <1>10, <1>11, <1>12, <1>13,
          <1>14, <1>15, <1>16, <1>17, <1>18, <1>19, <1>20, <1>21, <1>22, <1>23, <1>24, <1>25,
          <1>26, <1>27, <1>28, <1>29, <1>30, <1>31, <1>32, <1>33, <1>34, <1>35
          DEF Next, Boot, Agent

\* What leaves the tree is committed.
LEMMA EditsKeptStep ==
  ASSUME Shape, Next
  PROVE  EditsKept
<1>1. CASE RescueCommit
  <2>1. head \in Names => Exists(head)
    BY <1>1 DEF RescueCommit, Shape, TypeOK, StageRepo, Rescuing
  <2>2. Committable \in SUBSET Items /\ TypeOK
    BY StagedFacts DEF Shape, TypeOK
  <2>3. tree \cap Work \subseteq Committable
    BY <2>2, StagedFacts DEF TypeOK
  <2> QED BY <1>1, <2>1, <2>2, <2>3, HeldCommitted DEF RescueCommit, EditsKept
<1>2. CASE CommitUnabortable
  <2>1. head \in Names => Exists(head)
    BY <1>2 DEF CommitUnabortable, Shape, TypeOK, StageRepo, Rescuing
  <2>2. Committable \cup {Preserved} \in SUBSET Items /\ TypeOK
    BY StagedFacts, TokenFacts DEF Shape, TypeOK
  <2>3. tree \cap Work \subseteq Committable /\ Committable \subseteq Staged
    BY <2>2, StagedFacts DEF TypeOK, Committable
  <2>4. CASE CommitOnHead(Committable \cup {Preserved})
    BY <1>2, <2>1, <2>2, <2>3, <2>4, HeldCommitted DEF CommitUnabortable, EditsKept
  <2>5. CASE tree' \in {tree, Staged}
    BY <2>3, <2>5 DEF EditsKept
  <2> QED BY <1>2, <2>4, <2>5 DEF CommitUnabortable
<1>3. CASE AgentCommit \/ CommitAndPush
  <2>1. /\ TypeOK /\ (head \in Names => Exists(head)) /\ UNCHANGED head
        /\ origin' \in {origin, PushOf(branch'[Task])}
    BY <1>3, ServedCommit
  <2>2. branch'[Task] \in (SUBSET Items) \cup {Absent}
    BY <1>3, ServedCommitted, NameFacts
  <2>3. origin # Absent => origin' # Absent /\ origin \subseteq origin'
    BY <2>1, <2>2, PushKeeps
  <2>4. \A changes \in {tree \cap (Work \cup {Foreign}), Committable} :
          changes \in SUBSET Items /\ tree \cap Work \subseteq changes
    BY <2>1, StagedFacts DEF TypeOK
  <2>5. CASE \E changes \in {tree \cap (Work \cup {Foreign}), Committable} : CommitOnHead(changes)
    <3>1. PICK changes \in {tree \cap (Work \cup {Foreign}), Committable} : CommitOnHead(changes)
      BY <2>5
    <3>2. changes \subseteq Held'
      BY <2>1, <2>3, <2>4, <3>1, HeldCommitted
    <3> QED BY <2>4, <3>2 DEF EditsKept
  <2>6. CASE tree' \in {tree, Staged}
    BY <2>6, TokenFacts DEF EditsKept, Staged
  <2> QED BY <1>3, <2>5, <2>6, ServedCommit
<1>4. CASE AgentFinishesRebase
  <2>1. tree \cap Work \subseteq branch'[Task] /\ Exists(Task)'
    BY <1>4, RebaseFinished
  <2> QED BY <2>1, NameFacts, HeldMemberNext DEF EditsKept
<1> USE DEF Shape, TypeOK, EditsKept, Wipes, Aborts, Goto, NoVolume, volVars, bootVars, WrongTask,
        Removed, Fault, PodEnds, isUsableRepo, LockAfterSweep, GitWorks, Aborted, GitFails,
        Escalated, dirty, ForgetMerge, NoGit, gitVars, Staged, Committable, FirstFree, Claims,
        NewBranch, HeadHistory, localExists, ProbesRemote, Switches, Pushed, PushOf, Merges,
        MergeStops, resumeDirective, HalfRemoved, CutOff
<1>5. CASE BootStart  BY <1>5, NameFacts, TokenFacts DEF BootStart
<1>6. CASE ClaimWorkspace  BY <1>6, NameFacts, TokenFacts DEF ClaimWorkspace
<1>7. CASE WipeWorkspace  BY <1>7, NameFacts, TokenFacts DEF WipeWorkspace
<1>8. CASE PrepareWorkspace  BY <1>8, NameFacts, TokenFacts DEF PrepareWorkspace
<1>9. CASE WipeCheckout  BY <1>9, NameFacts, TokenFacts DEF WipeCheckout, gitVars
<1>10. CASE clearStaleLocks  BY <1>10, NameFacts, TokenFacts DEF clearStaleLocks
<1>11. CASE abortInProgress  BY <1>11, NameFacts, TokenFacts DEF abortInProgress
<1>12. CASE ResetAfterAbort  BY <1>12, NameFacts, TokenFacts DEF ResetAfterAbort
<1>13. CASE CleanTree  BY <1>13, NameFacts, TokenFacts DEF CleanTree
<1>14. CASE RescueLeavesTree  BY <1>14, NameFacts, TokenFacts DEF RescueLeavesTree
<1>15. CASE nameRescueBranch  BY <1>15, NameFacts, TokenFacts DEF nameRescueBranch
<1>16. CASE claimRescueBranch  BY <1>16, NameFacts, TokenFacts DEF claimRescueBranch
<1>17. CASE CheckoutBack  BY <1>17, NameFacts, TokenFacts DEF CheckoutBack
<1>18. CASE Clone  BY <1>18, NameFacts, TokenFacts DEF Clone
<1>19. CASE CheckoutNew  BY <1>19, NameFacts, TokenFacts DEF CheckoutNew
<1>20. CASE CheckoutLocal  BY <1>20, NameFacts, TokenFacts DEF CheckoutLocal
<1>21. CASE UnshallowForResume  BY <1>21, NameFacts, TokenFacts DEF UnshallowForResume
<1>22. CASE FetchTaskBranch  BY <1>22, NameFacts, TokenFacts DEF FetchTaskBranch
<1>23. CASE ResumeRemote  BY <1>23, NameFacts, TokenFacts DEF ResumeRemote
<1>24. CASE mergeRemoteTaskBranch  BY <1>24, NameFacts, TokenFacts DEF mergeRemoteTaskBranch
<1>25. CASE reconcileWithBase  BY <1>25, NameFacts, TokenFacts DEF reconcileWithBase
<1>26. CASE RenderConfig  BY <1>26, NameFacts, TokenFacts DEF RenderConfig
<1>27. CASE writeWorkspaceIdentity  BY <1>27, NameFacts, TokenFacts DEF writeWorkspaceIdentity
<1>28. CASE Kill  BY <1>28, NameFacts, TokenFacts DEF Kill
<1>29. CASE AgentEdit  BY <1>29, NameFacts, TokenFacts DEF AgentEdit
<1>30. CASE AgentDetach  BY <1>30, NameFacts, TokenFacts DEF AgentDetach
<1>31. CASE AgentMerge  BY <1>31, NameFacts, TokenFacts DEF AgentMerge
<1>32. CASE AgentRebase  BY <1>32, NameFacts, TokenFacts DEF AgentRebase
<1>33. CASE PushTaskBranch  BY <1>33, NameFacts, TokenFacts DEF PushTaskBranch
<1>34. CASE OriginMoves  BY <1>34, NameFacts, TokenFacts DEF OriginMoves
<1> QED BY <1>1, <1>2, <1>3, <1>4, <1>5, <1>6, <1>7, <1>8, <1>9, <1>10, <1>11, <1>12, <1>13,
          <1>14, <1>15, <1>16, <1>17, <1>18, <1>19, <1>20, <1>21, <1>22, <1>23, <1>24, <1>25,
          <1>26, <1>27, <1>28, <1>29, <1>30, <1>31, <1>32, <1>33, <1>34 DEF Next, Boot, Agent

\* "Local commits are authoritative and are never discarded" (resume.go): over
\* any number of deaths, boots and failing git commands a committed change stays
\* on a branch, at HEAD or on origin, with the exceptions CommitsKept names.
THEOREM CommitsAreKept == Spec => CommitsKept
<1>1. Shape /\ [Next]_vars => [Kept]_vars
  BY CommitsKeptStep
<1> QED BY <1>1, ShapeInit, ShapeStep, PTL DEF Spec, CommitsKept, Kept

\* Work that was never committed survives a restart (rescueWorkingTree): it is
\* in the tree or committed, unless an operation is aborted or the checkout goes.
THEOREM EditsAreKept == Spec => UncommittedKept
<1>1. Shape /\ [Next]_vars => [EditsKept]_vars
  BY EditsKeptStep
<1> QED BY <1>1, ShapeInit, ShapeStep, PTL DEF Spec, UncommittedKept, EditsKept
=============================================================================
