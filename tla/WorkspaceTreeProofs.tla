------------------------ MODULE WorkspaceTreeProofs ------------------------
(***************************************************************************)
(* Theorems about what an agent of Workspace finds on its volume: what was *)
(* fetched for it is on its branch or it is told, the tree is no other     *)
(* Task's, and no boot publishes conflict markers or leaves them unsaid.   *)
(***************************************************************************)
EXTENDS WorkspaceProofs

USE BoundsAssumption, ItemsAssumption

----------------------------------------------------------------------------
(* What was fetched, what is told about it, and whose tree it is *)

\* Only the steps of others put changes on the base branch, and what a boot
\* fetched is still on origin.
FetchOrder ==
  /\ base \subseteq BaseWork /\ seenBase \subseteq base
  /\ seen # {} => origin # Absent /\ seen \subseteq origin
  /\ seen # {} => pod \in {"merge", "serving"} \cup CheckedOut
  /\ seenBase # {} => pod \in {"render", "stamp", "serving"}

\* What was fetched is merged or noted, and from the rendering on told.
Noted ==
  /\ pod \in {"reconcile", "render"} => seen \subseteq branch[Task] \/ "mergeLocal" \in notes
  /\ pod \in {"stamp", "serving"} => seen \subseteq branch[Task] \/ "mergeLocal" \in told
  /\ pod = "render" => seenBase \subseteq branch[Task] \/ "mergeBase" \in notes
  /\ pod \in {"stamp", "serving"} => seenBase \subseteq branch[Task] \/ "mergeBase" \in told

\* A boot on another Task's volume goes no further than its removal.
OtherTask == identity = "other" => pod \in {"down", "claim", "wipeWorkspace"}

\* Another Task's tree is on a volume that still bears its name, or whose
\* removal was cut off, or it has been published.
ForeignHere ==
  \/ Foreign \in tree \cup at \cup op.orig
  \/ \E n \in Names : Exists(n) /\ Foreign \in branch[n]
ForeignExcused == identity = "other" \/ torn \/ (origin # Absent /\ Foreign \in origin)
ForeignTells == ForeignHere => ForeignExcused

Provenance == Shape /\ FetchOrder /\ Noted /\ OtherTask /\ ForeignTells

\* What was fetched is not taken back.
LEMMA FetchOrderSteps ==
  ASSUME Shape, FetchOrder, Next
  PROVE  FetchOrder'
<1>1. CASE OriginMoves
  <2>1. UNCHANGED <<pod, seen, seenBase>> /\ TypeOK
    BY <1>1 DEF OriginMoves, bootVars, Shape
  <2> QED BY <1>1, <2>1, OthersKeep DEF FetchOrder, CheckedOut
<1> USE DEF Shape, TypeOK, FetchOrder, CheckedOut, StageRepo, Goto, NoVolume, volVars, bootVars,
        WrongTask, Removed, Fault, PodEnds, isUsableRepo, LockAfterSweep, GitWorks, Aborted,
        GitFails, Escalated, dirty, ForgetMerge, NoGit, gitVars, Committable, Staged,
        CommitOnHead, FirstFree, Claims, NewBranch, HeadHistory, localExists, ProbesRemote,
        Switches, Pushed, PushOf, Merges, MergeStops, resumeDirective, HalfRemoved, CutOff,
        InRebase
<1>2. CASE BootStart  BY <1>2, NameFacts, Histories DEF BootStart
<1>3. CASE ClaimWorkspace  BY <1>3, NameFacts, Histories DEF ClaimWorkspace
<1>4. CASE WipeWorkspace  BY <1>4, NameFacts, Histories DEF WipeWorkspace
<1>5. CASE PrepareWorkspace  BY <1>5, NameFacts, Histories DEF PrepareWorkspace
<1>6. CASE WipeCheckout  BY <1>6, NameFacts, Histories DEF WipeCheckout
<1>7. CASE clearStaleLocks  BY <1>7, NameFacts, Histories DEF clearStaleLocks
<1>8. CASE abortInProgress  BY <1>8, NameFacts, Histories DEF abortInProgress
<1>9. CASE ResetAfterAbort  BY <1>9, NameFacts, Histories DEF ResetAfterAbort
<1>10. CASE CleanTree  BY <1>10, NameFacts, Histories DEF CleanTree
<1>11. CASE RescueCommit  BY <1>11, NameFacts, Histories DEF RescueCommit
<1>12. CASE RescueLeavesTree  BY <1>12, NameFacts, Histories DEF RescueLeavesTree
<1>13. CASE nameRescueBranch  BY <1>13, NameFacts, Histories DEF nameRescueBranch
<1>14. CASE claimRescueBranch  BY <1>14, NameFacts, Histories DEF claimRescueBranch
<1>15. CASE CommitUnabortable  BY <1>15, NameFacts, Histories DEF CommitUnabortable
<1>16. CASE CheckoutBack  BY <1>16, NameFacts, Histories DEF CheckoutBack
<1>17. CASE Clone  BY <1>17, NameFacts, Histories DEF Clone
<1>18. CASE CheckoutNew  BY <1>18, NameFacts, Histories DEF CheckoutNew
<1>19. CASE CheckoutLocal  BY <1>19, NameFacts, Histories DEF CheckoutLocal
<1>20. CASE UnshallowForResume  BY <1>20, NameFacts, Histories DEF UnshallowForResume
<1>21. CASE FetchTaskBranch  BY <1>21, NameFacts, Histories DEF FetchTaskBranch
<1>22. CASE ResumeRemote  BY <1>22, NameFacts, Histories DEF ResumeRemote
<1>23. CASE mergeRemoteTaskBranch  BY <1>23, NameFacts, Histories DEF mergeRemoteTaskBranch
<1>24. CASE reconcileWithBase  BY <1>24, NameFacts, Histories DEF reconcileWithBase
<1>25. CASE RenderConfig  BY <1>25, NameFacts, Histories DEF RenderConfig
<1>26. CASE writeWorkspaceIdentity  BY <1>26, NameFacts, Histories DEF writeWorkspaceIdentity
<1>27. CASE Kill  BY <1>27, NameFacts, Histories DEF Kill
<1>28. CASE AgentEdit  BY <1>28, NameFacts, Histories DEF AgentEdit
<1>29. CASE AgentCommit  BY <1>29, NameFacts, Histories DEF AgentCommit
<1>30. CASE AgentDetach  BY <1>30, NameFacts, Histories DEF AgentDetach
<1>31. CASE AgentMerge  BY <1>31, NameFacts, Histories DEF AgentMerge
<1>32. CASE AgentRebase  BY <1>32, NameFacts, Histories DEF AgentRebase
<1>33. CASE AgentFinishesRebase  BY <1>33, NameFacts, Histories DEF AgentFinishesRebase
<1>34. CASE PushTaskBranch  BY <1>34, NameFacts, Histories DEF PushTaskBranch
<1>35. CASE CommitAndPush
  <2>1. branch'[Task] \in (SUBSET Items) \cup {Absent}
    BY <1>35, ServedCommitted, NameFacts
  <2>2. origin # Absent => origin' # Absent /\ origin \subseteq origin'
    BY <1>35, <2>1, ServedCommit, PushKeeps
  <2> QED BY <1>35, <2>2 DEF CommitAndPush
<1> QED BY <1>1, <1>2, <1>3, <1>4, <1>5, <1>6, <1>7, <1>8, <1>9, <1>10, <1>11, <1>12, <1>13,
          <1>14, <1>15, <1>16, <1>17, <1>18, <1>19, <1>20, <1>21, <1>22, <1>23, <1>24, <1>25,
          <1>26, <1>27, <1>28, <1>29, <1>30, <1>31, <1>32, <1>33, <1>34, <1>35
          DEF Next, Boot, Agent

\* A merge that adds nothing leaves a note, and the rendering tells what is noted.
LEMMA NotedSteps ==
  ASSUME Shape, FetchOrder, Noted, Next
  PROVE  Noted'
<1> USE DEF Shape, TypeOK, FetchOrder, Noted, CheckedOut, StageTask, StageRepo, Rebasing, Goto,
        NoVolume, volVars, bootVars, WrongTask, Removed, Fault, PodEnds, isUsableRepo,
        LockAfterSweep, GitWorks, Aborted, GitFails, Escalated, dirty, ForgetMerge, NoGit,
        gitVars, Committable, Staged, CommitOnHead, FirstFree, Claims, NewBranch, HeadHistory,
        localExists, ProbesRemote, Switches, Pushed, PushOf, Merges, MergeStops, resumeDirective,
        HalfRemoved, CutOff, InRebase
<1>1. CASE BootStart  BY <1>1, NameFacts, Histories DEF BootStart
<1>2. CASE ClaimWorkspace  BY <1>2, NameFacts, Histories DEF ClaimWorkspace
<1>3. CASE WipeWorkspace  BY <1>3, NameFacts, Histories DEF WipeWorkspace
<1>4. CASE PrepareWorkspace  BY <1>4, NameFacts, Histories DEF PrepareWorkspace
<1>5. CASE WipeCheckout  BY <1>5, NameFacts, Histories DEF WipeCheckout
<1>6. CASE clearStaleLocks  BY <1>6, NameFacts, Histories DEF clearStaleLocks
<1>7. CASE abortInProgress  BY <1>7, NameFacts, Histories DEF abortInProgress
<1>8. CASE ResetAfterAbort  BY <1>8, NameFacts, Histories DEF ResetAfterAbort
<1>9. CASE CleanTree  BY <1>9, NameFacts, Histories DEF CleanTree
<1>10. CASE RescueCommit  BY <1>10, NameFacts, Histories DEF RescueCommit
<1>11. CASE RescueLeavesTree  BY <1>11, NameFacts, Histories DEF RescueLeavesTree
<1>12. CASE nameRescueBranch  BY <1>12, NameFacts, Histories DEF nameRescueBranch
<1>13. CASE claimRescueBranch  BY <1>13, NameFacts, Histories DEF claimRescueBranch
<1>14. CASE CommitUnabortable  BY <1>14, NameFacts, Histories DEF CommitUnabortable
<1>15. CASE CheckoutBack  BY <1>15, NameFacts, Histories DEF CheckoutBack
<1>16. CASE Clone  BY <1>16, NameFacts, Histories DEF Clone
<1>17. CASE CheckoutNew  BY <1>17, NameFacts, Histories DEF CheckoutNew
<1>18. CASE CheckoutLocal  BY <1>18, NameFacts, Histories DEF CheckoutLocal
<1>19. CASE UnshallowForResume  BY <1>19, NameFacts, Histories DEF UnshallowForResume
<1>20. CASE FetchTaskBranch  BY <1>20, NameFacts, Histories DEF FetchTaskBranch
<1>21. CASE ResumeRemote  BY <1>21, NameFacts, Histories DEF ResumeRemote
<1>22. CASE mergeRemoteTaskBranch  BY <1>22, NameFacts, Histories DEF mergeRemoteTaskBranch
<1>23. CASE reconcileWithBase  BY <1>23, NameFacts, Histories DEF reconcileWithBase
<1>24. CASE RenderConfig  BY <1>24, NameFacts, Histories DEF RenderConfig
<1>25. CASE writeWorkspaceIdentity  BY <1>25, NameFacts, Histories DEF writeWorkspaceIdentity
<1>26. CASE Kill  BY <1>26, NameFacts, Histories DEF Kill
<1>27. CASE AgentEdit  BY <1>27, NameFacts, Histories DEF AgentEdit
<1>28. CASE AgentCommit
  BY <1>28, ServedCommit, ServedCommitted, NameFacts
<1>29. CASE AgentDetach  BY <1>29, NameFacts, Histories DEF AgentDetach
<1>30. CASE AgentMerge  BY <1>30, NameFacts, Histories DEF AgentMerge
<1>31. CASE AgentRebase  BY <1>31, NameFacts, Histories DEF AgentRebase
<1>32. CASE AgentFinishesRebase  BY <1>32, NameFacts, Histories DEF AgentFinishesRebase
<1>33. CASE PushTaskBranch  BY <1>33, NameFacts, Histories DEF PushTaskBranch
<1>34. CASE OriginMoves  BY <1>34, NameFacts, Histories DEF OriginMoves
<1>35. CASE CommitAndPush
  BY <1>35, ServedCommit, ServedCommitted, NameFacts
<1> QED BY <1>1, <1>2, <1>3, <1>4, <1>5, <1>6, <1>7, <1>8, <1>9, <1>10, <1>11, <1>12, <1>13,
          <1>14, <1>15, <1>16, <1>17, <1>18, <1>19, <1>20, <1>21, <1>22, <1>23, <1>24, <1>25,
          <1>26, <1>27, <1>28, <1>29, <1>30, <1>31, <1>32, <1>33, <1>34, <1>35
          DEF Next, Boot, Agent

\* Nothing but the removal follows the claim of another Task's volume.
LEMMA OtherTaskSteps ==
  ASSUME OtherTask, Next
  PROVE  OtherTask'
<1> USE DEF OtherTask, Goto, NoVolume, volVars, bootVars, WrongTask, Removed, Fault, PodEnds,
        isUsableRepo, LockAfterSweep, GitWorks, Aborted, GitFails, Escalated, dirty, ForgetMerge,
        NoGit, gitVars, Committable, Staged, CommitOnHead, FirstFree, Claims, NewBranch,
        HeadHistory, localExists, ProbesRemote, Switches, Pushed, PushOf, Merges, MergeStops,
        resumeDirective, HalfRemoved, CutOff, InRebase
<1>1. CASE BootStart  BY <1>1 DEF BootStart
<1>2. CASE ClaimWorkspace  BY <1>2 DEF ClaimWorkspace
<1>3. CASE WipeWorkspace  BY <1>3 DEF WipeWorkspace
<1>4. CASE PrepareWorkspace  BY <1>4 DEF PrepareWorkspace
<1>5. CASE WipeCheckout  BY <1>5 DEF WipeCheckout
<1>6. CASE clearStaleLocks  BY <1>6 DEF clearStaleLocks
<1>7. CASE abortInProgress  BY <1>7 DEF abortInProgress
<1>8. CASE ResetAfterAbort  BY <1>8 DEF ResetAfterAbort
<1>9. CASE CleanTree  BY <1>9 DEF CleanTree
<1>10. CASE RescueCommit  BY <1>10 DEF RescueCommit
<1>11. CASE RescueLeavesTree  BY <1>11 DEF RescueLeavesTree
<1>12. CASE nameRescueBranch  BY <1>12 DEF nameRescueBranch
<1>13. CASE claimRescueBranch  BY <1>13 DEF claimRescueBranch
<1>14. CASE CommitUnabortable  BY <1>14 DEF CommitUnabortable
<1>15. CASE CheckoutBack  BY <1>15 DEF CheckoutBack
<1>16. CASE Clone  BY <1>16 DEF Clone
<1>17. CASE CheckoutNew  BY <1>17 DEF CheckoutNew
<1>18. CASE CheckoutLocal  BY <1>18 DEF CheckoutLocal
<1>19. CASE UnshallowForResume  BY <1>19 DEF UnshallowForResume
<1>20. CASE FetchTaskBranch  BY <1>20 DEF FetchTaskBranch
<1>21. CASE ResumeRemote  BY <1>21 DEF ResumeRemote
<1>22. CASE mergeRemoteTaskBranch  BY <1>22 DEF mergeRemoteTaskBranch
<1>23. CASE reconcileWithBase  BY <1>23 DEF reconcileWithBase
<1>24. CASE RenderConfig  BY <1>24 DEF RenderConfig
<1>25. CASE writeWorkspaceIdentity  BY <1>25 DEF writeWorkspaceIdentity
<1>26. CASE Kill  BY <1>26 DEF Kill
<1>27. CASE AgentEdit  BY <1>27 DEF AgentEdit
<1>28. CASE AgentCommit  BY <1>28 DEF AgentCommit
<1>29. CASE AgentDetach  BY <1>29 DEF AgentDetach
<1>30. CASE AgentMerge  BY <1>30 DEF AgentMerge
<1>31. CASE AgentRebase  BY <1>31 DEF AgentRebase
<1>32. CASE AgentFinishesRebase  BY <1>32 DEF AgentFinishesRebase
<1>33. CASE PushTaskBranch  BY <1>33 DEF PushTaskBranch
<1>34. CASE OriginMoves  BY <1>34 DEF OriginMoves
<1>35. CASE CommitAndPush  BY <1>35 DEF CommitAndPush
<1> QED BY <1>1, <1>2, <1>3, <1>4, <1>5, <1>6, <1>7, <1>8, <1>9, <1>10, <1>11, <1>12, <1>13,
          <1>14, <1>15, <1>16, <1>17, <1>18, <1>19, <1>20, <1>21, <1>22, <1>23, <1>24, <1>25,
          <1>26, <1>27, <1>28, <1>29, <1>30, <1>31, <1>32, <1>33, <1>34, <1>35
          DEF Next, Boot, Agent

\* No step brings another Task's tree to where it was not.
LEMMA ForeignTellsSteps ==
  ASSUME Shape, FetchOrder, OtherTask, ForeignTells, Next
  PROVE  ForeignTells'
<1>1. CASE RescueCommit
  <2>1. head \in Names => Exists(head)
    BY <1>1 DEF RescueCommit, Shape, TypeOK, StageRepo, Rescuing
  <2>2. Committable \in SUBSET Items /\ TypeOK
    BY StagedFacts DEF Shape, TypeOK
  <2>3. Foreign \in Committable => Foreign \in tree
    BY <2>2, StagedFacts DEF TypeOK, Committable
  <2>4. /\ CommitOnHead(Committable) /\ UNCHANGED <<identity, torn, op, origin>>
        /\ Foreign \notin tree'
    BY <1>1, TokenFacts DEF RescueCommit
  <2>5. ForeignHere' => ForeignHere
    BY <2>1, <2>2, <2>3, <2>4, CommittedFrom DEF ForeignHere
  <2> QED BY <2>4, <2>5 DEF ForeignTells, ForeignExcused
<1>2. CASE CommitUnabortable
  <2>1. head \in Names => Exists(head)
    BY <1>2 DEF CommitUnabortable, Shape, TypeOK, StageRepo, Rescuing
  <2>2. Committable \cup {Preserved} \in SUBSET Items /\ TypeOK
    BY StagedFacts, TokenFacts DEF Shape, TypeOK
  <2>3. (Foreign \in Committable \cup {Preserved} => Foreign \in tree) /\ (Foreign \in Staged => Foreign \in tree)
    BY <2>2, StagedFacts, TokenFacts DEF TypeOK, Committable
  <2>4. UNCHANGED <<identity, torn, op, origin>>
    BY <1>2 DEF CommitUnabortable
  <2>5. CASE CommitOnHead(Committable \cup {Preserved}) /\ tree' = Staged \cap {Artifact}
    <3>1. ForeignHere' => ForeignHere
      BY <2>1, <2>2, <2>3, <2>4, <2>5, CommittedFrom, TokenFacts DEF ForeignHere
    <3> QED BY <2>4, <3>1 DEF ForeignTells, ForeignExcused
  <2>6. CASE tree' \in {tree, Staged} /\ UNCHANGED <<at, branch>>
    BY <2>3, <2>4, <2>6 DEF ForeignTells, ForeignExcused, ForeignHere, Exists
  <2> QED BY <1>2, <2>5, <2>6 DEF CommitUnabortable
<1>3. CASE CheckoutLocal
  <2>1. TypeOK /\ origin' \in {origin, Pushed}
    BY <1>3 DEF CheckoutLocal, Shape
  <2>2. /\ UNCHANGED <<identity, torn, tree, branch>> /\ op' \in {op, NoOp} /\ at' \in {at, {}}
    BY <1>3 DEF CheckoutLocal, ForgetMerge
  <2>3. ForeignHere' => ForeignHere
    BY <2>2 DEF ForeignHere, NoOp, Exists
  <2>4. origin # Absent => origin' # Absent /\ origin \subseteq origin'
    BY <2>1, NameFacts, PushKeeps DEF Pushed, TypeOK
  <2> QED BY <2>2, <2>3, <2>4 DEF ForeignTells, ForeignExcused
<1>4. CASE reconcileWithBase
  <2>1. TypeOK /\ Exists(Task) /\ base \in SUBSET Items /\ Foreign \notin base
    BY <1>4, TokenFacts DEF reconcileWithBase, Shape, StageTask, TypeOK, CheckedOut, FetchOrder
  <2>2. UNCHANGED <<identity, torn, at, origin>>
    BY <1>4 DEF reconcileWithBase
  <2>3. CASE UNCHANGED <<branch, op, tree>>
    BY <2>2, <2>3 DEF ForeignTells, ForeignHere, ForeignExcused, Exists
  <2>4. CASE Merges(base, "mergeBase")
    <3>1. \A n \in Names : Exists(n)' /\ Foreign \in branch'[n]
                          => Exists(n) /\ Foreign \in branch[n]
      BY <2>1, <2>4, MergeEffects
    <3>2. \/ op' = op /\ tree' = tree
          \/ op' = [kind |-> "merge", orig |-> {}] /\ tree' = tree \cup {Conflict}
      BY <2>1, <2>4, MergeEffects
    <3>3. ForeignHere' => ForeignHere
      BY <2>2, <3>1, <3>2, TokenFacts DEF ForeignHere
    <3> QED BY <2>2, <3>3 DEF ForeignTells, ForeignExcused
  <2> QED BY <1>4, <2>3, <2>4 DEF reconcileWithBase
<1>5. CASE AgentCommit \/ CommitAndPush
  <2>1. /\ TypeOK /\ (head \in Names => Exists(head)) /\ UNCHANGED <<identity, torn, head>>
        /\ op' \in {op, NoOp} /\ origin' \in {origin, PushOf(branch'[Task])}
    BY <1>5, ServedCommit DEF ForgetMerge
  <2>2. branch'[Task] \in (SUBSET Items) \cup {Absent}
    BY <1>5, ServedCommitted, NameFacts
  <2>3. origin # Absent => origin' # Absent /\ origin \subseteq origin'
    BY <2>1, <2>2, PushKeeps
  <2>4. ForeignHere' => ForeignHere
    <3>1. CASE /\ \E changes \in {tree \cap (Work \cup {Foreign}), Committable} :
                    CommitOnHead(changes)
               /\ tree' \subseteq tree \cap {Artifact}
      <4>1. PICK changes \in {tree \cap (Work \cup {Foreign}), Committable} : CommitOnHead(changes)
        BY <3>1
      <4>2. changes \in SUBSET Items /\ (Foreign \in changes => Foreign \in tree)
        BY <2>1, <4>1, StagedFacts DEF TypeOK, Committable
      <4>3. /\ Foreign \in at' => Foreign \in at \cup changes
            /\ \A n \in Names : Exists(n)' /\ Foreign \in branch'[n]
                                  => Foreign \in changes \/ (Exists(n) /\ Foreign \in branch[n])
        BY <2>1, <4>1, <4>2, CommittedFrom
      <4> QED BY <2>1, <3>1, <4>2, <4>3 DEF ForeignHere, NoOp
    <3>2. CASE tree' \in {tree, Staged} /\ UNCHANGED <<at, branch>>
      <4>1. Foreign \in tree' => Foreign \in tree
        BY <2>1, <3>2, StagedFacts DEF TypeOK
      <4> QED BY <2>1, <3>2, <4>1 DEF ForeignHere, NoOp, Exists
    <3> QED BY <1>5, <3>1, <3>2, ServedCommit
  <2> QED BY <2>1, <2>3, <2>4 DEF ForeignTells, ForeignExcused
<1>6. CASE AgentDetach
  <2>1. head \in Names /\ Exists(head) /\ at' = branch[head]
    BY <1>6 DEF AgentDetach, Shape, TypeOK, StageRepo
  <2>2. UNCHANGED <<identity, torn, origin, tree, op, branch>>
    BY <1>6 DEF AgentDetach
  <2> QED BY <2>1, <2>2 DEF ForeignTells, ForeignHere, ForeignExcused, Exists
<1>7. CASE AgentRebase
  <2>1. /\ Exists(Task) /\ Exists(Main) /\ op'.orig = branch[Task] /\ at' = branch[Main]
        /\ Foreign \notin tree' /\ UNCHANGED <<identity, torn, origin, branch>>
    BY <1>7, TokenFacts DEF AgentRebase, Shape, StageTask, StageRepo, Cloned
  <2> QED BY <2>1, NameFacts DEF ForeignTells, ForeignHere, ForeignExcused, Exists
<1>8. CASE OriginMoves
  <2>1. UNCHANGED <<identity, torn, tree, at, op, branch>> /\ TypeOK
    BY <1>8 DEF OriginMoves, volVars, Shape
  <2> QED BY <1>8, <2>1, OthersKeep DEF ForeignTells, ForeignHere, ForeignExcused, Exists
<1> USE DEF Shape, TypeOK, FetchOrder, OtherTask, ForeignTells, ForeignHere, ForeignExcused,
        Exists, NoOp, Goto, NoVolume, volVars, bootVars, WrongTask, Removed, Fault, PodEnds,
        isUsableRepo, LockAfterSweep, GitWorks, Aborted, GitFails, Escalated, dirty, ForgetMerge,
        NoGit, gitVars, Staged, Committable, FirstFree, Claims, NewBranch, HeadHistory,
        localExists, ProbesRemote, Switches, Merges, MergeStops, resumeDirective, HalfRemoved,
        CutOff, InRebase, Pushed
<1>9. CASE BootStart  BY <1>9, NameFacts, TokenFacts, Histories DEF BootStart
<1>10. CASE ClaimWorkspace  BY <1>10, NameFacts, TokenFacts, Histories DEF ClaimWorkspace
<1>11. CASE WipeWorkspace  BY <1>11, NameFacts, TokenFacts, Histories DEF WipeWorkspace
<1>12. CASE PrepareWorkspace  BY <1>12, NameFacts, TokenFacts, Histories DEF PrepareWorkspace
<1>13. CASE WipeCheckout  BY <1>13, NameFacts, TokenFacts, Histories DEF WipeCheckout
<1>14. CASE clearStaleLocks  BY <1>14, NameFacts, TokenFacts, Histories DEF clearStaleLocks
<1>15. CASE abortInProgress  BY <1>15, NameFacts, TokenFacts, Histories DEF abortInProgress
<1>16. CASE ResetAfterAbort  BY <1>16, NameFacts, TokenFacts, Histories DEF ResetAfterAbort
<1>17. CASE CleanTree  BY <1>17, NameFacts, TokenFacts, Histories DEF CleanTree
<1>18. CASE RescueLeavesTree  BY <1>18, NameFacts, TokenFacts, Histories DEF RescueLeavesTree
<1>19. CASE nameRescueBranch  BY <1>19, NameFacts, TokenFacts, Histories DEF nameRescueBranch
<1>20. CASE claimRescueBranch  BY <1>20, NameFacts, TokenFacts, Histories DEF claimRescueBranch
<1>21. CASE CheckoutBack  BY <1>21, NameFacts, TokenFacts, Histories DEF CheckoutBack
<1>22. CASE Clone  BY <1>22, NameFacts, TokenFacts, Histories DEF Clone
<1>23. CASE CheckoutNew  BY <1>23, NameFacts, TokenFacts, Histories DEF CheckoutNew
<1>24. CASE UnshallowForResume  BY <1>24, NameFacts, TokenFacts, Histories DEF UnshallowForResume
<1>25. CASE FetchTaskBranch  BY <1>25, NameFacts, TokenFacts, Histories DEF FetchTaskBranch
<1>26. CASE ResumeRemote  BY <1>26, NameFacts, TokenFacts, Histories DEF ResumeRemote
<1>27. CASE mergeRemoteTaskBranch
  BY <1>27, NameFacts, TokenFacts, Histories DEF mergeRemoteTaskBranch
<1>28. CASE RenderConfig  BY <1>28, NameFacts, TokenFacts, Histories DEF RenderConfig
<1>29. CASE writeWorkspaceIdentity
  BY <1>29, NameFacts, TokenFacts, Histories DEF writeWorkspaceIdentity
<1>30. CASE Kill  BY <1>30, NameFacts, TokenFacts, Histories DEF Kill
<1>31. CASE AgentEdit  BY <1>31, NameFacts, TokenFacts, Histories DEF AgentEdit
<1>32. CASE AgentMerge  BY <1>32, NameFacts, TokenFacts, Histories DEF AgentMerge
<1>33. CASE AgentFinishesRebase
  BY <1>33, NameFacts, TokenFacts, Histories DEF AgentFinishesRebase
<1>34. CASE PushTaskBranch
  <2>1. branch[Task] \in (SUBSET Items) \cup {Absent} /\ origin' = PushOf(branch[Task])
    BY <1>34, NameFacts DEF PushTaskBranch
  <2>2. origin # Absent => origin' # Absent /\ origin \subseteq origin'
    BY <2>1, PushKeeps DEF Shape
  <2> QED BY <1>34, <2>2 DEF PushTaskBranch
<1> QED BY <1>1, <1>2, <1>3, <1>4, <1>5, <1>6, <1>7, <1>8, <1>9, <1>10, <1>11, <1>12, <1>13,
          <1>14, <1>15, <1>16, <1>17, <1>18, <1>19, <1>20, <1>21, <1>22, <1>23, <1>24, <1>25,
          <1>26, <1>27, <1>28, <1>29, <1>30, <1>31, <1>32, <1>33, <1>34 DEF Next, Boot, Agent

LEMMA ProvenanceInit == Init => Provenance
<1> SUFFICES ASSUME Init PROVE Provenance
  OBVIOUS
<1>1. FetchOrder /\ Noted
  BY DEF Init, FetchOrder, Noted
<1>2. OtherTask /\ ForeignTells
  BY NameFacts, TokenFacts DEF Init, Fresh, Rebound, Used, OtherTask, ForeignTells, ForeignHere,
     ForeignExcused, Exists, NoOp
<1> QED BY <1>1, <1>2, ShapeInit DEF Provenance

LEMMA ProvenanceStep == Provenance /\ [Next]_vars => Provenance'
<1> SUFFICES ASSUME Provenance, [Next]_vars PROVE Provenance'
  OBVIOUS
<1>1. CASE Next
  BY <1>1, ShapeStep, FetchOrderSteps, NotedSteps, OtherTaskSteps, ForeignTellsSteps
     DEF Provenance
<1>2. CASE UNCHANGED vars
  <2>1. Shape'
    BY ShapeStep DEF Provenance
  <2>2. FetchOrder' /\ Noted'
    BY <1>2 DEF Provenance, FetchOrder, Noted, vars, volVars, bootVars, CheckedOut
  <2>3. OtherTask' /\ ForeignTells'
    BY <1>2 DEF Provenance, OtherTask, ForeignTells, ForeignHere, ForeignExcused, Exists, vars,
       volVars
  <2> QED BY <2>1, <2>2, <2>3 DEF Provenance
<1> QED BY <1>1, <1>2

\* An agent that is served has on its branch what bootstrap fetched for it from
\* origin and the base branch, or is told to merge it (checkoutTaskBranch,
\* reconcileWithBase, resumeDirective).
THEOREM ReconciledOrToldHolds == Spec => []ReconciledOrTold
<1>1. Provenance => ReconciledOrTold
  <2> SUFFICES ASSUME Provenance, pod = "serving"
               PROVE  /\ seen \subseteq Held
                      /\ seen \subseteq branch[Task] \/ "mergeLocal" \in told
                      /\ seenBase \subseteq branch[Task] \/ "mergeBase" \in told
    BY DEF ReconciledOrTold
  <2>1. seen \subseteq Held
    BY HeldMember DEF Provenance, FetchOrder
  <2> QED BY <2>1 DEF Provenance, Noted
<1> QED BY <1>1, ProvenanceInit, ProvenanceStep, PTL DEF Spec

\* No agent is served another Task's tree unless the removal of that tree was
\* cut off or it was published (claimWorkspace, writeWorkspaceIdentity).
THEOREM OwnWorkspaceHolds == Spec => []OwnWorkspace
<1>1. Provenance => OwnWorkspace
  <2> SUFFICES ASSUME Provenance, pod = "serving", Foreign \in Held \cup tree
               PROVE  torn \/ (origin # Absent /\ Foreign \in origin)
    BY DEF OwnWorkspace
  <2>1. identity # "other"
    BY DEF Provenance, OtherTask
  <2>2. ForeignHere \/ (origin # Absent /\ Foreign \in origin)
    BY HeldMember DEF ForeignHere
  <2> QED BY <2>1, <2>2 DEF Provenance, ForeignTells, ForeignExcused
<1> QED BY <1>1, ProvenanceInit, ProvenanceStep, PTL DEF Spec

----------------------------------------------------------------------------
(* Conflict markers *)

\* HEAD is never moved to a branch nameRescueBranch made.
HeadPlace == {head, prev} \subseteq {Task, Main, Detached} \cup abortRescueBranchNames

\* Nothing is rescued on the base branch, and an abort takes the task branch
\* back to what it still has.
MainClean == Exists(Main) => Markers \notin branch[Main] /\ Preserved \notin branch[Main]
OpKept == op # NoOp => Exists(Task) /\ op.orig \subseteq branch[Task]

\* The rescue commit of an operation that could not be aborted is on the branch
\* claimed for it and on none HEAD or the task branch is made from.
PreservedPlace ==
  /\ Preserved \notin tree /\ Preserved \notin at
  /\ Exists(Task) => Preserved \notin branch[Task]
  /\ origin # Absent => Preserved \notin origin

\* Where a conflicted tree can be met: an operation goes with it, a rescue branch
\* was claimed for it and not used, or this boot's own merge left it, and a note.
MergeTold(orders) == orders \cap {"mergeLocal", "mergeBase"} # {}
ConflictPlace ==
  Conflicted =>
    /\ op = NoOp \/ pod \in {"name", "checkout", "fetch", "merge"} => ClaimUnused
    /\ pod \in {"reconcile", "render"} => ClaimUnused \/ MergeTold(notes)
    /\ pod = "stamp" => ClaimUnused \/ MergeTold(told)
    /\ pod # "back"
    /\ head \in abortRescueBranchNames => Preserved \notin branch[head]

MarkersTell == HeadPlace /\ MainClean /\ OpKept /\ PreservedPlace /\ ConflictPlace

\* Staging does not make a conflict appear or disappear.
LEMMA StagedConflict ==
  ASSUME tree' = Staged
  PROVE  Conflicted' <=> Conflicted
BY TokenFacts DEF Conflicted, Staged

\* A tree that holds only an artifact has no conflict.
LEMMA CleanTreeNext ==
  ASSUME tree' \subseteq {Artifact}
  PROVE  ~Conflicted'
BY TokenFacts DEF Conflicted

\* A claimed branch that is not written to stays unused.
LEMMA ClaimStays ==
  ASSUME ClaimUnused,
         \A n \in abortRescueBranchNames : Exists(n) => branch'[n] = branch[n]
  PROVE  ClaimUnused'
BY DEF ClaimUnused, Exists

\* HEAD is moved to the task branch, to a claimed one, or back.
LEMMA HeadPlaceSteps ==
  ASSUME Shape, HeadPlace, Next
  PROVE  HeadPlace'
<1> USE DEF HeadPlace, Shape, StageTask, Goto, NoVolume, volVars, bootVars, WrongTask, Removed,
        Fault, PodEnds, isUsableRepo, LockAfterSweep, GitWorks, Aborted, GitFails, Escalated,
        dirty, ForgetMerge, NoGit, gitVars, Committable, Staged, CommitOnHead, FirstFree, Claims,
        NewBranch, HeadHistory, localExists, ProbesRemote, Switches, Pushed, PushOf, Merges,
        MergeStops, resumeDirective, HalfRemoved, CutOff, InRebase
<1>1. CASE BootStart  BY <1>1, NameFacts DEF BootStart
<1>2. CASE ClaimWorkspace  BY <1>2, NameFacts DEF ClaimWorkspace
<1>3. CASE WipeWorkspace  BY <1>3, NameFacts DEF WipeWorkspace
<1>4. CASE PrepareWorkspace  BY <1>4, NameFacts DEF PrepareWorkspace
<1>5. CASE WipeCheckout  BY <1>5, NameFacts DEF WipeCheckout
<1>6. CASE clearStaleLocks  BY <1>6, NameFacts DEF clearStaleLocks
<1>7. CASE abortInProgress  BY <1>7, NameFacts DEF abortInProgress
<1>8. CASE ResetAfterAbort  BY <1>8, NameFacts DEF ResetAfterAbort
<1>9. CASE CleanTree  BY <1>9, NameFacts DEF CleanTree
<1>10. CASE RescueCommit  BY <1>10, NameFacts DEF RescueCommit
<1>11. CASE RescueLeavesTree  BY <1>11, NameFacts DEF RescueLeavesTree
<1>12. CASE nameRescueBranch  BY <1>12, NameFacts DEF nameRescueBranch
<1>13. CASE claimRescueBranch  BY <1>13, NameFacts DEF claimRescueBranch
<1>14. CASE CommitUnabortable  BY <1>14, NameFacts DEF CommitUnabortable
<1>15. CASE CheckoutBack  BY <1>15, NameFacts DEF CheckoutBack
<1>16. CASE Clone  BY <1>16, NameFacts DEF Clone
<1>17. CASE CheckoutNew  BY <1>17, NameFacts DEF CheckoutNew
<1>18. CASE CheckoutLocal  BY <1>18, NameFacts DEF CheckoutLocal
<1>19. CASE UnshallowForResume  BY <1>19, NameFacts DEF UnshallowForResume
<1>20. CASE FetchTaskBranch  BY <1>20, NameFacts DEF FetchTaskBranch
<1>21. CASE ResumeRemote  BY <1>21, NameFacts DEF ResumeRemote
<1>22. CASE mergeRemoteTaskBranch  BY <1>22, NameFacts DEF mergeRemoteTaskBranch
<1>23. CASE reconcileWithBase  BY <1>23, NameFacts DEF reconcileWithBase
<1>24. CASE RenderConfig  BY <1>24, NameFacts DEF RenderConfig
<1>25. CASE writeWorkspaceIdentity  BY <1>25, NameFacts DEF writeWorkspaceIdentity
<1>26. CASE Kill  BY <1>26, NameFacts DEF Kill
<1>27. CASE AgentEdit  BY <1>27, NameFacts DEF AgentEdit
<1>28. CASE AgentCommit  BY <1>28, NameFacts DEF AgentCommit
<1>29. CASE AgentDetach  BY <1>29, NameFacts DEF AgentDetach
<1>30. CASE AgentMerge  BY <1>30, NameFacts DEF AgentMerge
<1>31. CASE AgentRebase  BY <1>31, NameFacts DEF AgentRebase
<1>32. CASE AgentFinishesRebase  BY <1>32, NameFacts DEF AgentFinishesRebase
<1>33. CASE PushTaskBranch  BY <1>33, NameFacts DEF PushTaskBranch
<1>34. CASE OriginMoves  BY <1>34, NameFacts DEF OriginMoves
<1>35. CASE CommitAndPush  BY <1>35, NameFacts DEF CommitAndPush
<1> QED BY <1>1, <1>2, <1>3, <1>4, <1>5, <1>6, <1>7, <1>8, <1>9, <1>10, <1>11, <1>12, <1>13,
          <1>14, <1>15, <1>16, <1>17, <1>18, <1>19, <1>20, <1>21, <1>22, <1>23, <1>24, <1>25,
          <1>26, <1>27, <1>28, <1>29, <1>30, <1>31, <1>32, <1>33, <1>34, <1>35
          DEF Next, Boot, Agent

\* Nothing is committed on the base branch but an unserved tree.
LEMMA MainCleanSteps ==
  ASSUME Shape, FetchOrder, MarkersTell, Next
  PROVE  MainClean'
<1>1. CASE LeavesRepo
  BY <1>1, RepoLeft DEF MarkersTell, MainClean, Exists
<1>2. CASE RescueCommit
  <2>1. head \in Names => Exists(head)
    BY <1>2 DEF RescueCommit, Shape, TypeOK, StageRepo, Rescuing
  <2>2. Committable \in SUBSET Items /\ TypeOK
    BY StagedFacts DEF Shape, TypeOK
  <2>3. CommitOnHead(Committable)
    BY <1>2 DEF RescueCommit
  <2>4. head = Main => Markers \notin Committable /\ Preserved \notin Committable
    BY <2>2, StagedFacts
       DEF Shape, Unserved, TypeOK, Committable, MarkersTell, PreservedPlace
  <2>5. CASE head = Main
    BY <2>1, <2>2, <2>3, <2>4, <2>5, NameFacts, CommittedFrom DEF MarkersTell, MainClean
  <2>6. CASE head # Main
    BY <2>1, <2>2, <2>3, <2>6, NameFacts, Commits DEF MarkersTell, MainClean
  <2> QED BY <2>5, <2>6
<1>3. CASE AgentCommit \/ CommitAndPush
  BY <1>3, ServedCommit, ServedCommitted, NameFacts DEF MarkersTell, MainClean
<1> USE DEF Shape, TypeOK, Exists, MainClean, FetchOrder, StageTask, StageRepo, StageRescue,
        MarkersTell, Goto, NoVolume, volVars, bootVars, WrongTask, Removed, Fault, PodEnds,
        isUsableRepo, LockAfterSweep, GitWorks, Aborted, GitFails, Escalated, dirty, ForgetMerge,
        NoGit, gitVars, Staged, Committable, FirstFree, Claims, NewBranch, HeadHistory,
        localExists, ProbesRemote, Switches, Merges, MergeStops, resumeDirective, HalfRemoved,
        CutOff, InRebase, CommitOnHead, Pushed, PushOf
<1>4. CASE WipeWorkspace  BY <1>4, NameFacts, TokenFacts DEF WipeWorkspace
<1>5. CASE WipeCheckout  BY <1>5, NameFacts, TokenFacts DEF WipeCheckout
<1>6. CASE abortInProgress  BY <1>6, NameFacts, TokenFacts DEF abortInProgress
<1>7. CASE ResetAfterAbort  BY <1>7, NameFacts, TokenFacts DEF ResetAfterAbort
<1>8. CASE RescueLeavesTree  BY <1>8, NameFacts, TokenFacts DEF RescueLeavesTree
<1>9. CASE nameRescueBranch  BY <1>9, NameFacts, TokenFacts DEF nameRescueBranch
<1>10. CASE claimRescueBranch  BY <1>10, NameFacts, TokenFacts DEF claimRescueBranch
<1>11. CASE CommitUnabortable  BY <1>11, NameFacts, TokenFacts DEF CommitUnabortable
<1>12. CASE CheckoutBack  BY <1>12, NameFacts, TokenFacts DEF CheckoutBack
<1>13. CASE Clone  BY <1>13, NameFacts, TokenFacts DEF Clone
<1>14. CASE CheckoutNew  BY <1>14, NameFacts, TokenFacts DEF CheckoutNew
<1>15. CASE CheckoutLocal  BY <1>15, NameFacts, TokenFacts DEF CheckoutLocal
<1>16. CASE ResumeRemote  BY <1>16, NameFacts, TokenFacts DEF ResumeRemote
<1>17. CASE mergeRemoteTaskBranch  BY <1>17, NameFacts, TokenFacts DEF mergeRemoteTaskBranch
<1>18. CASE reconcileWithBase  BY <1>18, NameFacts, TokenFacts DEF reconcileWithBase
<1>19. CASE Kill  BY <1>19, NameFacts, TokenFacts DEF Kill
<1>20. CASE AgentEdit  BY <1>20, NameFacts, TokenFacts DEF AgentEdit
<1>21. CASE AgentDetach  BY <1>21, NameFacts, TokenFacts DEF AgentDetach
<1>22. CASE AgentMerge  BY <1>22, NameFacts, TokenFacts DEF AgentMerge
<1>23. CASE AgentRebase  BY <1>23, NameFacts, TokenFacts DEF AgentRebase
<1>24. CASE AgentFinishesRebase  BY <1>24, NameFacts, TokenFacts DEF AgentFinishesRebase
<1> QED BY <1>1, <1>2, <1>3, <1>4, <1>5, <1>6, <1>7, <1>8, <1>9, <1>10, <1>11, <1>12, <1>13,
          <1>14, <1>15, <1>16, <1>17, <1>18, <1>19, <1>20, <1>21, <1>22, <1>23, <1>24
          DEF Next, Boot, Agent, LeavesRepo

\* The task branch only grows under an operation.
LEMMA OpKeptSteps ==
  ASSUME Shape, MarkersTell, Next
  PROVE  OpKept'
<1>1. CASE LeavesRepo
  BY <1>1, RepoLeft DEF MarkersTell, OpKept, Exists
<1>2. CASE reconcileWithBase
  <2>1. TypeOK /\ Exists(Task) /\ base \in SUBSET Items
    BY <1>2 DEF reconcileWithBase, Shape, StageTask, TypeOK, CheckedOut
  <2>2. CASE UNCHANGED <<branch, op>>
    BY <2>2 DEF MarkersTell, OpKept, Exists
  <2>3. CASE Merges(base, "mergeBase")
    <3>1. /\ Exists(Task)' /\ branch'[Task] \in {branch[Task], branch[Task] \cup base}
          /\ op' \in {op, [kind |-> "merge", orig |-> {}]}
      BY <2>1, <2>3, MergeEffects, NameFacts
    <3> QED BY <3>1 DEF MarkersTell, OpKept
  <2> QED BY <1>2, <2>2, <2>3 DEF reconcileWithBase
<1>3. CASE AgentCommit \/ CommitAndPush
  BY <1>3, ServedCommit, ServedCommitted, NameFacts DEF MarkersTell, OpKept, ForgetMerge
<1>4. CASE AgentFinishesRebase
  BY <1>4 DEF AgentFinishesRebase, OpKept
<1>5. CASE CommitUnabortable
  <2>1. head \in Names => Exists(head)
    BY <1>5 DEF CommitUnabortable, Shape, TypeOK, StageRepo, Rescuing
  <2>2. Committable \cup {Preserved} \in SUBSET Items /\ TypeOK
    BY StagedFacts, TokenFacts DEF Shape, TypeOK
  <2>3. /\ \A n \in Names : Exists(n)' <=> Exists(n)
        /\ \A n \in Names : Exists(n) => branch[n] \subseteq branch'[n]
    BY <1>5, <2>1, <2>2, Commits DEF CommitUnabortable, Exists
  <2> QED BY <1>5, <2>3, NameFacts DEF CommitUnabortable, MarkersTell, OpKept
<1> USE DEF Shape, TypeOK, Exists, OpKept, NoOp, Cloned, Unserved, StageTask, StageRepo,
        StageRescue, MarkersTell, Goto, NoVolume, volVars, bootVars, WrongTask, Removed, Fault,
        PodEnds, isUsableRepo, LockAfterSweep, GitWorks, Aborted, GitFails, Escalated, dirty,
        ForgetMerge, NoGit, gitVars, Staged, Committable, FirstFree, Claims, NewBranch,
        HeadHistory, localExists, ProbesRemote, Switches, Merges, MergeStops, resumeDirective,
        HalfRemoved, CutOff, InRebase, CommitOnHead, Pushed, PushOf
<1>6. CASE WipeWorkspace  BY <1>6, NameFacts, TokenFacts DEF WipeWorkspace
<1>7. CASE WipeCheckout  BY <1>7, NameFacts, TokenFacts DEF WipeCheckout
<1>8. CASE abortInProgress  BY <1>8, NameFacts, TokenFacts DEF abortInProgress
<1>9. CASE ResetAfterAbort  BY <1>9, NameFacts, TokenFacts DEF ResetAfterAbort
<1>10. CASE RescueCommit  BY <1>10, NameFacts, TokenFacts DEF RescueCommit
<1>11. CASE RescueLeavesTree  BY <1>11, NameFacts, TokenFacts DEF RescueLeavesTree
<1>12. CASE nameRescueBranch  BY <1>12, NameFacts, TokenFacts DEF nameRescueBranch
<1>13. CASE claimRescueBranch  BY <1>13, NameFacts, TokenFacts DEF claimRescueBranch
<1>14. CASE CheckoutBack  BY <1>14, NameFacts, TokenFacts DEF CheckoutBack
<1>15. CASE Clone  BY <1>15, NameFacts, TokenFacts DEF Clone
<1>16. CASE CheckoutNew  BY <1>16, NameFacts, TokenFacts DEF CheckoutNew
<1>17. CASE CheckoutLocal  BY <1>17, NameFacts, TokenFacts DEF CheckoutLocal
<1>18. CASE ResumeRemote  BY <1>18, NameFacts, TokenFacts DEF ResumeRemote
<1>19. CASE mergeRemoteTaskBranch  BY <1>19, NameFacts, TokenFacts DEF mergeRemoteTaskBranch
<1>20. CASE Kill  BY <1>20, NameFacts, TokenFacts DEF Kill
<1>21. CASE AgentEdit  BY <1>21, NameFacts, TokenFacts DEF AgentEdit
<1>22. CASE AgentDetach  BY <1>22, NameFacts, TokenFacts DEF AgentDetach
<1>23. CASE AgentMerge  BY <1>23, NameFacts, TokenFacts DEF AgentMerge
<1>24. CASE AgentRebase  BY <1>24, NameFacts, TokenFacts DEF AgentRebase
<1> QED BY <1>1, <1>2, <1>3, <1>4, <1>5, <1>6, <1>7, <1>8, <1>9, <1>10, <1>11, <1>12, <1>13,
          <1>14, <1>15, <1>16, <1>17, <1>18, <1>19, <1>20, <1>21, <1>22, <1>23, <1>24
          DEF Next, Boot, Agent, LeavesRepo

\* The mark of a rescue commit goes to the claimed branch only.
LEMMA PreservedSteps ==
  ASSUME Shape, FetchOrder, MarkersTell, Next
  PROVE  PreservedPlace'
<1>1. CASE RescueCommit
  <2>1. head \in Names => Exists(head)
    BY <1>1 DEF RescueCommit, Shape, TypeOK, StageRepo, Rescuing
  <2>2. Committable \in SUBSET Items /\ TypeOK /\ Preserved \notin Committable
    BY StagedFacts DEF Shape, TypeOK, Committable, MarkersTell, PreservedPlace
  <2>3. CommitOnHead(Committable) /\ UNCHANGED origin /\ Preserved \notin tree'
    BY <1>1, TokenFacts DEF RescueCommit
  <2> QED BY <2>1, <2>2, <2>3, NameFacts, CommittedFrom DEF MarkersTell, PreservedPlace
<1>2. CASE CommitUnabortable
  <2>1. head \in abortRescueBranchNames /\ head # Detached /\ UNCHANGED origin
    BY <1>2, NameFacts DEF CommitUnabortable, Shape, StageRescue
  <2>2. branch'[Task] = branch[Task] /\ at' = at
    BY <1>2, <2>1, NameFacts DEF CommitUnabortable, CommitOnHead, Shape, TypeOK
  <2>3. Preserved \notin tree'
    BY <1>2, StagedFacts, TokenFacts
       DEF CommitUnabortable, Shape, TypeOK, MarkersTell, PreservedPlace
  <2> QED BY <2>1, <2>2, <2>3 DEF MarkersTell, PreservedPlace, Exists
<1>3. CASE CheckoutNew
  <2>1. UNCHANGED <<origin, tree>> /\ at' \in {at, {}}
    BY <1>3 DEF CheckoutNew
  <2>2. CASE UNCHANGED branch
    BY <2>1, <2>2 DEF MarkersTell, PreservedPlace, Exists
  <2>3. CASE ~Exists(Task) /\ branch' = NewBranch(Task, HeadHistory)
    <3>1. head = Main /\ HeadHistory = branch[Main]
      BY <2>3, NameFacts DEF Shape, Unserved, HeadHistory
    <3>2. branch[Main] \in SUBSET Items /\ Preserved \notin branch[Main]
      BY <1>3, NameFacts, Histories
         DEF CheckoutNew, Shape, StageRepo, Cloned, MarkersTell, MainClean
    <3>3. Preserved \notin branch'[Task]
      BY <2>3, <3>1, <3>2, NameFacts DEF NewBranch, Shape, TypeOK
    <3> QED BY <2>1, <3>3 DEF MarkersTell, PreservedPlace
  <2> QED BY <1>3, <2>2, <2>3 DEF CheckoutNew
<1>4. CASE CheckoutLocal
  <2>1. UNCHANGED <<tree, branch>> /\ at' \in {at, {}} /\ origin' \in {origin, Pushed} /\ TypeOK
    BY <1>4 DEF CheckoutLocal, Shape
  <2>2. \A c : origin' # Absent /\ c \in origin' =>
          (origin # Absent /\ c \in origin) \/ (branch[Task] # Absent /\ c \in branch[Task])
    BY <2>1, NameFacts, PushKeeps DEF Pushed, TypeOK
  <2> QED BY <2>1, <2>2 DEF MarkersTell, PreservedPlace, Exists
<1>5. CASE ResumeRemote
  <2>1. UNCHANGED <<origin, tree>> /\ at' \in {at, {}}
    BY <1>5 DEF ResumeRemote
  <2>2. CASE UNCHANGED branch
    BY <2>1, <2>2 DEF MarkersTell, PreservedPlace, Exists
  <2>3. CASE branch' = [branch EXCEPT ![Task] = seen]
    <3>1. branch'[Task] = seen
      BY <2>3, NameFacts DEF Shape, TypeOK
    <3> QED BY <2>1, <3>1 DEF MarkersTell, PreservedPlace, FetchOrder
  <2> QED BY <1>5, <2>2, <2>3 DEF ResumeRemote
<1>6. CASE mergeRemoteTaskBranch
  <2>1. TypeOK /\ Exists(Task) /\ seen \in SUBSET Items /\ Merges(seen, "mergeLocal")
    BY <1>6 DEF mergeRemoteTaskBranch, localExists, Shape, TypeOK
  <2>2. Preserved \notin seen /\ UNCHANGED <<origin, at>>
    BY <1>6 DEF mergeRemoteTaskBranch, MarkersTell, PreservedPlace, FetchOrder
  <2>3. branch'[Task] \in {branch[Task], branch[Task] \cup seen} /\ tree' \subseteq tree \cup {Conflict}
    BY <2>1, MergeEffects
  <2> QED BY <2>1, <2>2, <2>3, TokenFacts DEF MarkersTell, PreservedPlace
<1>7. CASE reconcileWithBase
  <2>1. TypeOK /\ Exists(Task) /\ base \in SUBSET Items /\ Preserved \notin base
    BY <1>7, TokenFacts DEF reconcileWithBase, Shape, StageTask, TypeOK, CheckedOut, FetchOrder
  <2>2. UNCHANGED <<origin, at>>
    BY <1>7 DEF reconcileWithBase
  <2>3. CASE UNCHANGED <<branch, tree>>
    BY <2>2, <2>3 DEF MarkersTell, PreservedPlace, Exists
  <2>4. CASE Merges(base, "mergeBase")
    <3>1. branch'[Task] \in {branch[Task], branch[Task] \cup base} /\ tree' \subseteq tree \cup {Conflict}
      BY <2>1, <2>4, MergeEffects
    <3> QED BY <2>1, <2>2, <3>1, TokenFacts DEF MarkersTell, PreservedPlace
  <2> QED BY <1>7, <2>3, <2>4 DEF reconcileWithBase
<1>8. CASE AgentCommit \/ CommitAndPush
  <2>1. /\ TypeOK /\ (head \in Names => Exists(head)) /\ Exists(Task)
        /\ origin' \in {origin, PushOf(branch'[Task])}
    BY <1>8, ServedCommit
  <2>2. /\ Preserved \notin tree' /\ Preserved \notin at'
        /\ Exists(Task)' => Preserved \notin branch'[Task]
    <3>1. CASE /\ \E changes \in {tree \cap (Work \cup {Foreign}), Committable} :
                    CommitOnHead(changes)
               /\ tree' \subseteq tree \cap {Artifact}
      <4>1. PICK changes \in {tree \cap (Work \cup {Foreign}), Committable} : CommitOnHead(changes)
        BY <3>1
      <4>2. changes \in SUBSET Items /\ Preserved \notin changes
        BY <2>1, <4>1, StagedFacts DEF TypeOK, Committable, MarkersTell, PreservedPlace
      <4>3. /\ Preserved \in at' => Preserved \in at \cup changes
            /\ \A n \in Names : Exists(n)' /\ Preserved \in branch'[n]
                                  => Preserved \in changes \/ (Exists(n) /\ Preserved \in branch[n])
        BY <2>1, <4>1, <4>2, CommittedFrom
      <4> QED BY <3>1, <4>2, <4>3, NameFacts DEF MarkersTell, PreservedPlace
    <3>2. CASE tree' \in {tree, Staged} /\ UNCHANGED <<at, branch>>
      <4>1. Preserved \notin tree'
        BY <2>1, <3>2, StagedFacts DEF TypeOK, MarkersTell, PreservedPlace
      <4> QED BY <3>2, <4>1 DEF MarkersTell, PreservedPlace, Exists
    <3> QED BY <1>8, <3>1, <3>2, ServedCommit
  <2>3. branch'[Task] \in (SUBSET Items) \cup {Absent}
    BY <1>8, ServedCommitted, NameFacts
  <2>4. \A c : origin' # Absent /\ c \in origin' =>
          (origin # Absent /\ c \in origin) \/ (branch'[Task] # Absent /\ c \in branch'[Task])
    BY <2>1, <2>3, PushKeeps
  <2> QED BY <2>2, <2>4 DEF MarkersTell, PreservedPlace, Exists
<1>9. CASE AgentDetach
  <2>1. head = Task /\ Exists(Task) /\ at' = branch[head] /\ UNCHANGED <<tree, branch, origin>>
    BY <1>9 DEF AgentDetach, Shape, StageTask
  <2> QED BY <2>1 DEF MarkersTell, PreservedPlace, Exists
<1>10. CASE AgentRebase
  <2>1. Exists(Main) /\ at' = branch[Main] /\ UNCHANGED <<branch, origin>>
    BY <1>10 DEF AgentRebase, Shape, StageRepo, Cloned
  <2>2. Preserved \notin tree'
    BY <1>10, TokenFacts DEF AgentRebase
  <2> QED BY <2>1, <2>2 DEF MarkersTell, MainClean, PreservedPlace, Exists
<1>11. CASE AgentFinishesRebase
  <2>1. branch'[Task] = op.orig \cup at \cup (tree \cap Work) /\ UNCHANGED origin
    BY <1>11, RebaseFinished
  <2>2. op # NoOp /\ at' = {} /\ tree' \subseteq tree
    BY <1>11 DEF AgentFinishesRebase, InRebase, NoOp
  <2> QED BY <2>1, <2>2 DEF MarkersTell, PreservedPlace, OpKept
<1>12. CASE PushTaskBranch
  <2>1. /\ branch[Task] \in (SUBSET Items) \cup {Absent} /\ origin' = PushOf(branch[Task])
        /\ UNCHANGED <<tree, at, branch>> /\ TypeOK
    BY <1>12, NameFacts DEF PushTaskBranch, Pushed, volVars, Shape, TypeOK
  <2>2. \A c : origin' # Absent /\ c \in origin' =>
          (origin # Absent /\ c \in origin) \/ (branch[Task] # Absent /\ c \in branch[Task])
    BY <2>1, PushKeeps
  <2> QED BY <2>1, <2>2 DEF MarkersTell, PreservedPlace, Exists
<1>13. CASE OriginMoves
  <2>1. TypeOK /\ UNCHANGED <<tree, at, branch>>
    BY <1>13 DEF OriginMoves, volVars, Shape
  <2> QED BY <1>13, <2>1, OthersKeep, TokenFacts DEF MarkersTell, PreservedPlace, Exists
<1> USE DEF Shape, TypeOK, Exists, PreservedPlace, OpKept, NoOp, Cloned, StageRepo, StageRescue,
        MarkersTell, Goto, NoVolume, volVars, bootVars, WrongTask, Removed, Fault, PodEnds,
        isUsableRepo, LockAfterSweep, GitWorks, Aborted, GitFails, Escalated, dirty, ForgetMerge,
        NoGit, gitVars, Staged, Committable, FirstFree, Claims, NewBranch, HeadHistory,
        localExists, ProbesRemote, Switches, Merges, MergeStops, resumeDirective, HalfRemoved,
        CutOff, InRebase, CommitOnHead, Pushed, PushOf
<1>14. CASE BootStart  BY <1>14, NameFacts, TokenFacts DEF BootStart
<1>15. CASE ClaimWorkspace  BY <1>15, NameFacts, TokenFacts DEF ClaimWorkspace
<1>16. CASE WipeWorkspace  BY <1>16, NameFacts, TokenFacts DEF WipeWorkspace
<1>17. CASE PrepareWorkspace  BY <1>17, NameFacts, TokenFacts DEF PrepareWorkspace
<1>18. CASE WipeCheckout  BY <1>18, NameFacts, TokenFacts DEF WipeCheckout
<1>19. CASE clearStaleLocks  BY <1>19, NameFacts, TokenFacts DEF clearStaleLocks
<1>20. CASE abortInProgress  BY <1>20, NameFacts, TokenFacts DEF abortInProgress
<1>21. CASE ResetAfterAbort  BY <1>21, NameFacts, TokenFacts DEF ResetAfterAbort
<1>22. CASE CleanTree  BY <1>22, NameFacts, TokenFacts DEF CleanTree
<1>23. CASE RescueLeavesTree  BY <1>23, NameFacts, TokenFacts DEF RescueLeavesTree
<1>24. CASE nameRescueBranch  BY <1>24, NameFacts, TokenFacts DEF nameRescueBranch
<1>25. CASE claimRescueBranch  BY <1>25, NameFacts, TokenFacts DEF claimRescueBranch
<1>26. CASE CheckoutBack  BY <1>26, NameFacts, TokenFacts DEF CheckoutBack
<1>27. CASE Clone  BY <1>27, NameFacts, TokenFacts DEF Clone
<1>28. CASE UnshallowForResume  BY <1>28, NameFacts, TokenFacts DEF UnshallowForResume
<1>29. CASE FetchTaskBranch  BY <1>29, NameFacts, TokenFacts DEF FetchTaskBranch
<1>30. CASE RenderConfig  BY <1>30, NameFacts, TokenFacts DEF RenderConfig
<1>31. CASE writeWorkspaceIdentity  BY <1>31, NameFacts, TokenFacts DEF writeWorkspaceIdentity
<1>32. CASE Kill  BY <1>32, NameFacts, TokenFacts DEF Kill
<1>33. CASE AgentEdit  BY <1>33, NameFacts, TokenFacts DEF AgentEdit
<1>34. CASE AgentMerge  BY <1>34, NameFacts, TokenFacts DEF AgentMerge
<1> QED BY <1>1, <1>2, <1>3, <1>4, <1>5, <1>6, <1>7, <1>8, <1>9, <1>10, <1>11, <1>12, <1>13,
          <1>14, <1>15, <1>16, <1>17, <1>18, <1>19, <1>20, <1>21, <1>22, <1>23, <1>24, <1>25,
          <1>26, <1>27, <1>28, <1>29, <1>30, <1>31, <1>32, <1>33, <1>34 DEF Next, Boot, Agent

\* A conflict is left to a boot only with an operation, an unused claim or a note.
LEMMA ConflictSteps ==
  ASSUME Shape, FetchOrder, MarkersTell, Next
  PROVE  ConflictPlace'
<1>1. CASE RescueCommit
  <2>1. tree' \subseteq {Artifact}
    BY <1>1 DEF RescueCommit
  <2> QED BY <2>1, CleanTreeNext DEF ConflictPlace
<1>2. CASE RescueLeavesTree
  <2>1. /\ op = NoOp /\ pod' = "checkout" /\ UNCHANGED <<head, op, branch>>
        /\ tree' \in {tree, Staged}
    BY <1>2 DEF RescueLeavesTree, Goto, Escalated, Shape, StageRescue
  <2>2. Conflicted' <=> Conflicted
    BY <2>1, StagedConflict DEF Conflicted
  <2>3. ClaimUnused => ClaimUnused'
    BY <2>1, ClaimStays
  <2> QED BY <2>1, <2>2, <2>3 DEF MarkersTell, ConflictPlace
<1>3. CASE nameRescueBranch
  <2>1. pod = "name" /\ pod' = "checkout" /\ UNCHANGED <<head, op, tree>> /\ head = Detached
    BY <1>3 DEF nameRescueBranch, Goto, Shape, StageRescue
  <2>2. \A n \in Names : Exists(n) => branch'[n] = branch[n]
    BY <1>3 DEF nameRescueBranch, NewBranch, Claims, Shape, TypeOK, Exists
  <2>3. ClaimUnused => ClaimUnused'
    BY <2>2, NameFacts, ClaimStays
  <2> QED BY <2>1, <2>3, NameFacts DEF MarkersTell, ConflictPlace, Conflicted
<1>4. CASE claimRescueBranch
  <2>1. /\ UNCHANGED tree /\ TypeOK /\ pod' \in {"wipe", "commitRescue"}
    BY <1>4 DEF claimRescueBranch, Goto, Shape
  <2>2. CASE UNCHANGED <<op, head, branch>>
    <3>1. ClaimUnused => ClaimUnused'
      BY <2>2, ClaimStays
    <3> QED BY <2>1, <2>2, <3>1 DEF MarkersTell, ConflictPlace, Conflicted
  <2>3. CASE \E n \in abortRescueBranchNames :
               ~Exists(n) /\ branch' = NewBranch(n, HeadHistory) /\ head' = n
    <3>1. PICK n \in abortRescueBranchNames :
            ~Exists(n) /\ branch' = [branch EXCEPT ![n] = HeadHistory] /\ head' = n
      BY <2>3 DEF NewBranch
    <3>2. HeadHistory \in SUBSET Items
      BY <1>4, Histories DEF claimRescueBranch, HeadHistory, Shape, TypeOK, StageRepo, Rescuing
    <3>3. branch'[n] = HeadHistory /\ Exists(n)'
      BY <2>1, <3>1, <3>2, NameFacts, WriteBranch
    <3>4. Exists(Main) /\ Exists(Task)
      BY <1>4 DEF claimRescueBranch, Escalated, Shape, StageRescue, StageRepo, Rescuing, Cloned
    <3>5. Conflicted => Preserved \notin HeadHistory
      BY <3>4, NameFacts
         DEF HeadHistory, MarkersTell, HeadPlace, MainClean, PreservedPlace, ConflictPlace
    <3>6. Conflicted => ClaimUnused'
      BY <3>3, <3>5 DEF ClaimUnused
    <3> QED BY <2>1, <3>1, <3>3, <3>5, <3>6 DEF ConflictPlace, Conflicted
  <2> QED BY <1>4, <2>2, <2>3 DEF claimRescueBranch, Claims
<1>5. CASE CommitUnabortable
  <2>1. CASE tree' \subseteq {Artifact}
    BY <2>1, CleanTreeNext DEF ConflictPlace
  <2>2. CASE /\ pod' = "wipe" /\ UNCHANGED <<tree, branch, head, op>>
    <3>1. ClaimUnused => ClaimUnused'
      BY <2>2, ClaimStays
    <3> QED BY <2>2, <3>1 DEF MarkersTell, ConflictPlace, Conflicted
  <2>3. Committable = {} => Staged \subseteq {Artifact}
    BY DEF Committable
  <2> QED BY <1>5, <2>1, <2>2, <2>3 DEF CommitUnabortable, Goto
<1>6. CASE CheckoutBack
  <2>1. pod = "back" /\ UNCHANGED tree
    BY <1>6 DEF CheckoutBack
  <2> QED BY <2>1 DEF MarkersTell, ConflictPlace, Conflicted
<1>7. CASE CheckoutNew
  <2>1. UNCHANGED tree /\ TypeOK /\ op' \in {op, NoOp} /\ pod = "checkout"
    BY <1>7 DEF CheckoutNew, ForgetMerge, Shape
  <2>2. CASE Exists(Task)
    <3>1. UNCHANGED <<op, branch, head>> /\ pod' = "down"
      BY <1>7, <2>2 DEF CheckoutNew, PodEnds
    <3>2. ClaimUnused => ClaimUnused'
      BY <3>1, ClaimStays
    <3> QED BY <2>1, <3>1, <3>2 DEF MarkersTell, ConflictPlace, Conflicted
  <2>3. CASE ~Exists(Task)
    BY <2>1, <2>3 DEF Shape, Unserved, ConflictPlace, Conflicted
  <2> QED BY <2>2, <2>3
<1>8. CASE CheckoutLocal
  <2>1. /\ pod = "checkout" /\ UNCHANGED <<tree, branch>> /\ head' \in {head, Task}
        /\ pod' \in {"fetch", "reconcile", "down"}
    BY <1>8 DEF CheckoutLocal, Goto, PodEnds
  <2>2. ClaimUnused => ClaimUnused'
    BY <2>1, ClaimStays
  <2>3. Task \notin abortRescueBranchNames
    BY NameFacts
  <2> QED BY <2>1, <2>2, <2>3 DEF MarkersTell, ConflictPlace, Conflicted
<1>9. CASE ResumeRemote
  <2>1. /\ pod = "merge" /\ UNCHANGED tree /\ head' \in {head, Task}
        /\ pod' \in {"reconcile", "down"}
    BY <1>9 DEF ResumeRemote, Goto, PodEnds
  <2>2. \A n \in abortRescueBranchNames : branch'[n] = branch[n]
    BY <1>9, NameFacts DEF ResumeRemote, Shape, TypeOK
  <2>3. ClaimUnused => ClaimUnused'
    BY <2>2, ClaimStays
  <2>4. Task \notin abortRescueBranchNames
    BY NameFacts
  <2> QED BY <2>1, <2>2, <2>3, <2>4 DEF MarkersTell, ConflictPlace, Conflicted
<1>10. CASE mergeRemoteTaskBranch
  <2>1. /\ TypeOK /\ Exists(Task) /\ seen \in SUBSET Items /\ Merges(seen, "mergeLocal")
        /\ head = Task /\ UNCHANGED head /\ pod = "merge" /\ pod' = "reconcile"
    BY <1>10 DEF mergeRemoteTaskBranch, localExists, Goto, Shape, TypeOK, StageTask
  <2>2. \A n \in abortRescueBranchNames : branch'[n] = branch[n]
    BY <2>1, NameFacts, MergeEffects
  <2>3. ClaimUnused => ClaimUnused'
    BY <2>2, ClaimStays
  <2>4. \/ op' = op /\ tree' = tree
        \/ op' # NoOp /\ "mergeLocal" \in notes'
    BY <2>1 DEF Merges, MergeStops, NoOp
  <2>5. Task \notin abortRescueBranchNames
    BY NameFacts
  <2> QED BY <2>1, <2>3, <2>4, <2>5 DEF MarkersTell, ConflictPlace, Conflicted, MergeTold
<1>11. CASE reconcileWithBase
  <2>1. /\ TypeOK /\ Exists(Task) /\ base \in SUBSET Items
        /\ head = Task /\ UNCHANGED head /\ pod = "reconcile" /\ pod' \in {"render", "down"}
    BY <1>11 DEF reconcileWithBase, Goto, PodEnds, Shape, TypeOK, StageTask, CheckedOut
  <2>2. \A n \in abortRescueBranchNames : branch'[n] = branch[n]
    <3>1. CASE UNCHANGED branch
      BY <3>1
    <3>2. CASE Merges(base, "mergeBase")
      BY <2>1, <3>2, NameFacts, MergeEffects
    <3> QED BY <1>11, <3>1, <3>2 DEF reconcileWithBase
  <2>3. ClaimUnused => ClaimUnused'
    BY <2>2, ClaimStays
  <2>4. \/ op' = op /\ tree' = tree /\ notes \subseteq notes'
        \/ op' = op /\ tree' = tree /\ pod' = "down"
        \/ op' # NoOp /\ "mergeBase" \in notes'
    BY <1>11 DEF reconcileWithBase, PodEnds, Merges, MergeStops, NoOp
  <2>5. Task \notin abortRescueBranchNames
    BY NameFacts
  <2> QED BY <2>1, <2>3, <2>4, <2>5 DEF MarkersTell, ConflictPlace, Conflicted, MergeTold
<1>12. CASE RenderConfig
  <2>1. /\ UNCHANGED <<op, tree, head, branch>> /\ pod = "render"
        /\ (pod' = "stamp" /\ told' = notes) \/ pod' = "down"
    BY <1>12 DEF RenderConfig, Goto, resumeDirective, PodEnds, NoVolume, volVars
  <2>2. ClaimUnused => ClaimUnused'
    BY <2>1, ClaimStays
  <2> QED BY <2>1, <2>2 DEF MarkersTell, ConflictPlace, Conflicted, MergeTold
<1>13. CASE AgentCommit \/ CommitAndPush
  <2>1. CASE tree' \subseteq tree \cap {Artifact}
    BY <2>1, CleanTreeNext DEF ConflictPlace
  <2>2. CASE tree' \in {tree, Staged} /\ UNCHANGED <<op, branch>>
    <3>1. Conflicted' <=> Conflicted
      BY <2>2, StagedConflict DEF Conflicted
    <3>2. ClaimUnused => ClaimUnused'
      BY <2>2, ClaimStays
    <3>3. pod = "serving" /\ UNCHANGED <<head, pod>>
      BY <1>13, ServedCommit
    <3> QED BY <2>2, <3>1, <3>2, <3>3 DEF MarkersTell, ConflictPlace
  <2> QED BY <1>13, <2>1, <2>2, ServedCommit
<1>14. CASE AgentFinishesRebase
  <2>1. tree' \subseteq {Artifact}
    BY <1>14 DEF AgentFinishesRebase
  <2> QED BY <2>1, CleanTreeNext DEF ConflictPlace
<1>15. CASE abortInProgress
  <2>1. CASE UNCHANGED <<op, tree, head, branch>>
    <3>1. ClaimUnused => ClaimUnused'
      BY <2>1, ClaimStays
    <3>2. pod' = "rescue"
      BY <1>15 DEF abortInProgress, Goto
    <3> QED BY <2>1, <3>1, <3>2 DEF MarkersTell, ConflictPlace, Conflicted
  <2>2. CASE tree' = {}
    BY <2>2 DEF ConflictPlace, Conflicted
  <2> QED BY <1>15, <2>1, <2>2 DEF abortInProgress, Aborted
<1> USE DEF Shape, TypeOK, Exists, MarkersTell, ConflictPlace, MergeTold, Conflicted, NoOp,
        Cloned, StageRepo, StageTask, Goto, NoVolume, volVars, bootVars, WrongTask, Removed,
        Fault, PodEnds, isUsableRepo, LockAfterSweep, GitWorks, Aborted, GitFails, Escalated,
        dirty, ForgetMerge, NoGit, gitVars, Staged, Committable, FirstFree, Claims, NewBranch,
        HeadHistory, localExists, ProbesRemote, Switches, resumeDirective, HalfRemoved, CutOff,
        InRebase, CommitOnHead, Pushed, PushOf
<1>16. CASE BootStart  BY <1>16, NameFacts, TokenFacts, ClaimStays DEF BootStart
<1>17. CASE ClaimWorkspace  BY <1>17, NameFacts, TokenFacts, ClaimStays DEF ClaimWorkspace
<1>18. CASE WipeWorkspace  BY <1>18, NameFacts, TokenFacts, ClaimStays DEF WipeWorkspace
<1>19. CASE PrepareWorkspace  BY <1>19, NameFacts, TokenFacts, ClaimStays DEF PrepareWorkspace
<1>20. CASE WipeCheckout  BY <1>20, NameFacts, TokenFacts, ClaimStays DEF WipeCheckout
<1>21. CASE clearStaleLocks  BY <1>21, NameFacts, TokenFacts, ClaimStays DEF clearStaleLocks
<1>22. CASE ResetAfterAbort  BY <1>22, NameFacts, TokenFacts, ClaimStays DEF ResetAfterAbort
<1>23. CASE CleanTree  BY <1>23, NameFacts, TokenFacts, ClaimStays DEF CleanTree
<1>24. CASE Clone  BY <1>24, NameFacts, TokenFacts, ClaimStays DEF Clone
<1>25. CASE UnshallowForResume  BY <1>25, NameFacts, TokenFacts, ClaimStays DEF UnshallowForResume
<1>26. CASE FetchTaskBranch  BY <1>26, NameFacts, TokenFacts, ClaimStays DEF FetchTaskBranch
<1>27. CASE writeWorkspaceIdentity
  BY <1>27, NameFacts, TokenFacts, ClaimStays DEF writeWorkspaceIdentity
<1>28. CASE Kill  BY <1>28, NameFacts, TokenFacts, ClaimStays DEF Kill
<1>29. CASE AgentEdit  BY <1>29, NameFacts, TokenFacts, ClaimStays DEF AgentEdit
<1>30. CASE AgentDetach  BY <1>30, NameFacts, TokenFacts, ClaimStays DEF AgentDetach
<1>31. CASE AgentMerge  BY <1>31, NameFacts, TokenFacts, ClaimStays DEF AgentMerge
<1>32. CASE AgentRebase  BY <1>32, NameFacts, TokenFacts, ClaimStays DEF AgentRebase
<1>33. CASE PushTaskBranch  BY <1>33, NameFacts, TokenFacts, ClaimStays DEF PushTaskBranch
<1>34. CASE OriginMoves  BY <1>34, NameFacts, TokenFacts, ClaimStays DEF OriginMoves
<1> QED BY <1>1, <1>2, <1>3, <1>4, <1>5, <1>6, <1>7, <1>8, <1>9, <1>10, <1>11, <1>12, <1>13,
          <1>14, <1>15, <1>16, <1>17, <1>18, <1>19, <1>20, <1>21, <1>22, <1>23, <1>24, <1>25,
          <1>26, <1>27, <1>28, <1>29, <1>30, <1>31, <1>32, <1>33, <1>34 DEF Next, Boot, Agent

\* What puts markers on the task branch or on origin while nobody is served.
LEMMA MarkersStep ==
  ASSUME Shape, FetchOrder, MarkersTell, Next
  PROVE  pod # "serving" /\ MarkersOut' => MarkersOut \/ ClaimUnused
<1>1. CASE RescueCommit
  <2>1. head \in Names => Exists(head)
    BY <1>1 DEF RescueCommit, Shape, TypeOK, StageRepo, Rescuing
  <2>2. Committable \in SUBSET Items /\ TypeOK
    BY StagedFacts DEF Shape, TypeOK
  <2>3. CommitOnHead(Committable) /\ UNCHANGED origin /\ op = NoOp
    BY <1>1 DEF RescueCommit, Shape, StageRescue, Escalated
  <2>4. Markers \in Committable => Conflicted
    BY <2>2, StagedFacts DEF TypeOK, Committable, Conflicted
  <2>5. Exists(Task)' /\ Markers \in branch'[Task]
          => Conflicted \/ (Exists(Task) /\ Markers \in branch[Task])
    BY <2>1, <2>2, <2>3, <2>4, NameFacts, CommittedFrom
  <2> QED BY <2>3, <2>5 DEF MarkersOut, MarkersTell, ConflictPlace
<1>2. CASE CheckoutNew
  <2>1. UNCHANGED origin
    BY <1>2 DEF CheckoutNew
  <2>2. CASE UNCHANGED branch
    BY <2>1, <2>2 DEF MarkersOut, Exists
  <2>3. CASE ~Exists(Task) /\ branch' = NewBranch(Task, HeadHistory)
    <3>1. head = Main /\ HeadHistory = branch[Main]
      BY <2>3, NameFacts DEF Shape, Unserved, HeadHistory
    <3>2. branch[Main] \in SUBSET Items /\ Markers \notin branch[Main]
      BY <1>2, NameFacts, Histories
         DEF CheckoutNew, Shape, StageRepo, Cloned, MarkersTell, MainClean
    <3>3. Markers \notin branch'[Task]
      BY <2>3, <3>1, <3>2, NameFacts DEF NewBranch, Shape, TypeOK
    <3> QED BY <2>1, <3>3 DEF MarkersOut
  <2> QED BY <1>2, <2>2, <2>3 DEF CheckoutNew
<1>3. CASE reconcileWithBase
  <2>1. TypeOK /\ Exists(Task) /\ base \in SUBSET Items /\ Markers \notin base
    BY <1>3, TokenFacts DEF reconcileWithBase, Shape, StageTask, TypeOK, CheckedOut, FetchOrder
  <2>2. UNCHANGED origin
    BY <1>3 DEF reconcileWithBase
  <2>3. CASE UNCHANGED branch
    BY <2>2, <2>3 DEF MarkersOut, Exists
  <2>4. CASE Merges(base, "mergeBase")
    <3>1. branch'[Task] \in {branch[Task], branch[Task] \cup base}
      BY <2>1, <2>4, MergeEffects
    <3> QED BY <2>1, <2>2, <3>1 DEF MarkersOut
  <2> QED BY <1>3, <2>3, <2>4 DEF reconcileWithBase
<1> USE DEF Shape, TypeOK, Exists, MarkersOut, MarkersTell, MainClean, OpKept, StageTask,
        StageRepo, StageRescue, Cloned, FetchOrder, Goto, NoVolume, volVars, bootVars, WrongTask,
        Removed, Fault, PodEnds, isUsableRepo, LockAfterSweep, GitWorks, Aborted, GitFails,
        Escalated, dirty, ForgetMerge, NoGit, gitVars, Staged, Committable, FirstFree, Claims,
        NewBranch, HeadHistory, localExists, ProbesRemote, Switches, Merges, MergeStops,
        resumeDirective, HalfRemoved, CutOff, InRebase, CommitOnHead, Pushed, PushOf
<1>4. CASE BootStart  BY <1>4, NameFacts, TokenFacts DEF BootStart
<1>5. CASE ClaimWorkspace  BY <1>5, NameFacts, TokenFacts DEF ClaimWorkspace
<1>6. CASE WipeWorkspace  BY <1>6, NameFacts, TokenFacts DEF WipeWorkspace
<1>7. CASE PrepareWorkspace  BY <1>7, NameFacts, TokenFacts DEF PrepareWorkspace
<1>8. CASE WipeCheckout  BY <1>8, NameFacts, TokenFacts DEF WipeCheckout
<1>9. CASE clearStaleLocks  BY <1>9, NameFacts, TokenFacts DEF clearStaleLocks
<1>10. CASE abortInProgress  BY <1>10, NameFacts, TokenFacts DEF abortInProgress
<1>11. CASE ResetAfterAbort  BY <1>11, NameFacts, TokenFacts DEF ResetAfterAbort
<1>12. CASE CleanTree  BY <1>12, NameFacts, TokenFacts DEF CleanTree
<1>13. CASE RescueLeavesTree  BY <1>13, NameFacts, TokenFacts DEF RescueLeavesTree
<1>14. CASE nameRescueBranch  BY <1>14, NameFacts, TokenFacts DEF nameRescueBranch
<1>15. CASE claimRescueBranch  BY <1>15, NameFacts, TokenFacts DEF claimRescueBranch
<1>16. CASE CommitUnabortable  BY <1>16, NameFacts, TokenFacts DEF CommitUnabortable
<1>17. CASE CheckoutBack  BY <1>17, NameFacts, TokenFacts DEF CheckoutBack
<1>18. CASE Clone  BY <1>18, NameFacts, TokenFacts DEF Clone
<1>19. CASE CheckoutLocal  BY <1>19, NameFacts, TokenFacts DEF CheckoutLocal
<1>20. CASE UnshallowForResume  BY <1>20, NameFacts, TokenFacts DEF UnshallowForResume
<1>21. CASE FetchTaskBranch  BY <1>21, NameFacts, TokenFacts DEF FetchTaskBranch
<1>22. CASE ResumeRemote  BY <1>22, NameFacts, TokenFacts DEF ResumeRemote
<1>23. CASE mergeRemoteTaskBranch  BY <1>23, NameFacts, TokenFacts DEF mergeRemoteTaskBranch
<1>24. CASE RenderConfig  BY <1>24, NameFacts, TokenFacts DEF RenderConfig
<1>25. CASE writeWorkspaceIdentity  BY <1>25, NameFacts, TokenFacts DEF writeWorkspaceIdentity
<1>26. CASE Kill  BY <1>26, NameFacts, TokenFacts DEF Kill
<1>27. CASE AgentEdit  BY <1>27, NameFacts, TokenFacts DEF AgentEdit
<1>28. CASE AgentCommit  BY <1>28, NameFacts, TokenFacts DEF AgentCommit
<1>29. CASE AgentDetach  BY <1>29, NameFacts, TokenFacts DEF AgentDetach
<1>30. CASE AgentMerge  BY <1>30, NameFacts, TokenFacts DEF AgentMerge
<1>31. CASE AgentRebase  BY <1>31, NameFacts, TokenFacts DEF AgentRebase
<1>32. CASE AgentFinishesRebase  BY <1>32, NameFacts, TokenFacts DEF AgentFinishesRebase
<1>33. CASE CommitAndPush  BY <1>33, NameFacts, TokenFacts DEF CommitAndPush
<1>34. CASE PushTaskBranch  BY <1>34, NameFacts, TokenFacts DEF PushTaskBranch
<1>35. CASE OriginMoves  BY <1>35, NameFacts, TokenFacts DEF OriginMoves
<1> QED BY <1>1, <1>2, <1>3, <1>4, <1>5, <1>6, <1>7, <1>8, <1>9, <1>10, <1>11, <1>12, <1>13,
          <1>14, <1>15, <1>16, <1>17, <1>18, <1>19, <1>20, <1>21, <1>22, <1>23, <1>24, <1>25,
          <1>26, <1>27, <1>28, <1>29, <1>30, <1>31, <1>32, <1>33, <1>34, <1>35
          DEF Next, Boot, Agent

LEMMA MarkersInit == Init => MarkersTell
<1> SUFFICES ASSUME Init PROVE MarkersTell
  OBVIOUS
<1>1. HeadPlace /\ OpKept
  BY NameFacts DEF Init, Fresh, Rebound, Used, HeadPlace, OpKept
<1>2. MainClean /\ ConflictPlace
  BY NameFacts, TokenFacts DEF Init, Fresh, Rebound, Used, MainClean, ConflictPlace, Conflicted, Exists
<1>3. PreservedPlace
  BY NameFacts, TokenFacts DEF Init, Fresh, Rebound, Used, PreservedPlace, Exists
<1> QED BY <1>1, <1>2, <1>3 DEF MarkersTell

LEMMA MarkersTellStep ==
  ASSUME Shape, FetchOrder, MarkersTell, [Next]_vars
  PROVE  MarkersTell'
<1>1. CASE Next
  BY <1>1, HeadPlaceSteps, MainCleanSteps, OpKeptSteps, PreservedSteps, ConflictSteps
     DEF MarkersTell
<1>2. CASE UNCHANGED vars
  BY <1>2 DEF vars, volVars, bootVars, MarkersTell, HeadPlace, MainClean, OpKept,
     PreservedPlace, ConflictPlace, Conflicted, MergeTold, ClaimUnused, Exists
<1> QED BY <1>1, <1>2

\* No step of a boot brings conflict markers to the task branch or to origin, and
\* a conflicted tree is served only with the order to finish the merge, unless a
\* boot died between claiming a rescue branch and committing on it
\* (rescueUnabortable), whose unused branch still tells.
THEOREM MarkersAreContained == Spec => MarkersContained
<1> DEFINE Inv == Provenance /\ MarkersTell
           Contained ==
             /\ pod # "serving" /\ MarkersOut' /\ ~MarkersOut => ClaimUnused
             /\ pod = "stamp" /\ pod' = "serving" /\ Conflicted
                  => ClaimUnused \/ told \cap {"mergeLocal", "mergeBase"} # {}
<1>1. Init => Inv
  BY ProvenanceInit, MarkersInit
<1>2. Inv /\ [Next]_vars => Inv'
  BY ProvenanceStep, MarkersTellStep DEF Provenance
<1>3. Inv /\ [Next]_vars => [Contained]_vars
  BY MarkersStep DEF Provenance, MarkersTell, ConflictPlace, MergeTold
<1> HIDE DEF Inv
<1> QED BY <1>1, <1>2, <1>3, PTL DEF Spec, MarkersContained
=============================================================================
