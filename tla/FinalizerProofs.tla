-------------------------- MODULE FinalizerProofs --------------------------
(***************************************************************************)
(* Theorems about Finalizer, for any number of turns, repositories,        *)
(* re-prompts and retries: the push report of a turn never contradicts     *)
(* itself and names all work that was left behind, the re-prompt budget is *)
(* spent exactly, and the order in which shutdown stops things loses no    *)
(* callback it need not lose.                                              *)
(***************************************************************************)
EXTENDS Finalizer, FiniteSetTheorems, TLAPS

----------------------------------------------------------------------------
(* The push report *)

\* The part of the types the push report depends on.
PushTypes ==
  /\ begun \in 0..MaxTurns /\ slot \in 0..MaxTurns
  /\ dirty \in [Repos -> 0..MaxTurns]
  /\ fin \in [Turns -> FinPC]
  /\ todo \in [Turns -> SUBSET Repos]
  /\ pushed \in [Turns -> SUBSET Repos] /\ failed \in [Turns -> SUBSET Repos]
  /\ heldPushed \subseteq Repos /\ heldFailed \subseteq Repos

\* The turn in the slot and those still to come have no finaliser.
NoFinaliserYet ==
  /\ slot <= begun
  /\ \A t \in Turns : t > begun \/ t = slot => fin[t] = "off"

\* A report is empty before the finaliser runs, and what is still to be
\* pushed is in no list.
ReportsGrow ==
  \A t \in Turns :
    /\ fin[t] \in {"off", "ended"} => pushed[t] = {} /\ failed[t] = {}
    /\ fin[t] # "push" => todo[t] = {}
    /\ todo[t] \cap pushed[t] = {} /\ todo[t] \cap failed[t] = {}

\* NoWorkSkipped, while the finaliser is still in its loop.
WorkAccounted ==
  \A t \in Turns, r \in Repos :
    fin[t] \notin {"off", "ended", "done"} /\ dirty[r] = t
      => r \in todo[t] \/ r \in failed[t]

\* The inductive invariant.  Neither ListsDisjoint nor NoWorkSkipped is
\* inductive: both depend on a repository being tried exactly once by a
\* finaliser that started with an empty report.
PushInv ==
  PushTypes /\ NoFinaliserYet /\ ReportsGrow /\ WorkAccounted /\ ListsDisjoint

pushVars == <<begun, slot, dirty, fin, todo, pushed, failed, heldPushed,
              heldFailed>>

\* mergeRepoLists keeps the lists apart whatever it is given.
LEMMA MergedDisjoint ==
  ASSUME PushTypes, NEW t \in Turns,
         NEW P, P = mergePushed(heldPushed, heldFailed, pushed[t], failed[t]),
         NEW F, F = mergeFailed(heldPushed, heldFailed, pushed[t], failed[t])
  PROVE  /\ P \in SUBSET Repos /\ F \in SUBSET Repos
         /\ P \cap F = {}
         /\ failed[t] \subseteq F
<1>1. /\ pushed[t] \in SUBSET Repos /\ failed[t] \in SUBSET Repos
      /\ heldPushed \in SUBSET Repos /\ heldFailed \in SUBSET Repos
  BY DEF PushTypes
<1> QED BY <1>1 DEF mergePushed, mergeFailed

\* A finaliser that moves on after its loop changes nothing in its report.
LEMMA FinMoves ==
  ASSUME PushInv, NEW t \in Turns, NEW pc \in FinPC \ {"off", "ended", "push"},
         fin[t] \notin {"off", "ended", "push", "done"}, FinGoto(t, pc),
         UNCHANGED <<begun, slot, dirty, todo, pushed, failed, heldPushed,
                     heldFailed>>
  PROVE  PushInv'
<1>1. fin' \in [Turns -> FinPC]
  BY DEF PushInv, PushTypes, FinGoto
<1>2. \A u \in Turns : fin'[u] = IF u = t THEN pc ELSE fin[u]
  BY DEF PushInv, PushTypes, FinGoto
<1>3. PushTypes' /\ ListsDisjoint'
  BY <1>1 DEF PushInv, PushTypes, ListsDisjoint
<1>4. NoFinaliserYet'
  BY <1>2 DEF PushInv, NoFinaliserYet
<1>5. ReportsGrow' /\ WorkAccounted'
  BY <1>2 DEF PushInv, ReportsGrow, WorkAccounted
<1> QED BY <1>3, <1>4, <1>5 DEF PushInv

\* A finaliser that is done leaves lists behind that agree, or none.
LEMMA DoneKeeps ==
  ASSUME PushInv, NEW t \in Turns, fin[t] \notin {"off", "ended", "push"},
         FinGoto(t, "done"), Discarded(t),
         heldPushed' \in SUBSET Repos, heldFailed' \in SUBSET Repos,
         heldPushed' \cap heldFailed' = {},
         UNCHANGED <<begun, slot, dirty, todo>>
  PROVE  PushInv'
<1>1. \A u \in Turns :
        /\ fin'[u] = IF u = t THEN "done" ELSE fin[u]
        /\ pushed'[u] = IF u = t THEN {} ELSE pushed[u]
        /\ failed'[u] = IF u = t THEN {} ELSE failed[u]
  BY DEF PushInv, PushTypes, FinGoto, Discarded
<1>2. PushTypes'
  BY DEF PushInv, PushTypes, FinGoto, Discarded, FinPC
<1>3. NoFinaliserYet'
  BY <1>1 DEF PushInv, NoFinaliserYet
<1>4. ReportsGrow' /\ WorkAccounted' /\ ListsDisjoint'
  BY <1>1 DEF PushInv, ReportsGrow, WorkAccounted, ListsDisjoint
<1> QED BY <1>2, <1>3, <1>4 DEF PushInv

\* Nothing the invariant looks at changes.
LEMMA PushFrame == ASSUME PushInv, UNCHANGED pushVars PROVE PushInv'
BY DEF PushInv, PushTypes, NoFinaliserYet, ReportsGrow, WorkAccounted,
       ListsDisjoint, pushVars

\* A turn is accepted: its number is the next one, which has no finaliser.
LEMMA AcceptKeeps ==
  ASSUME PushInv, Accept,
         UNCHANGED <<dirty, fin, todo, pushed, failed, heldPushed, heldFailed>>
  PROVE  PushInv'
<1>1. begun' \in 0..MaxTurns /\ slot' \in 0..MaxTurns
  BY FinalizerAssumption DEF FinalizerAssumption, PushInv, PushTypes, Accept
<1>2. NoFinaliserYet'
  BY FinalizerAssumption
  DEF FinalizerAssumption, PushInv, PushTypes, NoFinaliserYet, Accept, Turns
<1> QED BY <1>1, <1>2 DEF PushInv, PushTypes, ReportsGrow, WorkAccounted,
           ListsDisjoint

\* Nothing was pushed when the wrapper starts.
LEMMA PushInit == ASSUME Init PROVE PushInv
<1>1. PushTypes
  BY FinalizerAssumption DEF FinalizerAssumption, Init, PushTypes, FinPC
<1> QED BY <1>1, FinalizerAssumption
        DEF FinalizerAssumption, Init, PushInv, NoFinaliserYet, ReportsGrow,
            WorkAccounted, ListsDisjoint, Turns

\* The actions that change nothing the push report depends on.
PushIdle ==
  \/ AgentReport \/ AgentOutcome \/ SafetyTick
  \/ \E r \in Repos : AgentBuild(r) \/ SafetyPush(r)
  \/ \E t \in Turns : PostStep(t)
  \/ ShutdownBegin \/ ShutdownStep

\* They leave it alone.
LEMMA PushIdleFrame == ASSUME PushIdle PROVE UNCHANGED pushVars
<1>1. CASE AgentReport \/ AgentOutcome \/ SafetyTick
  BY <1>1 DEF AgentReport, AgentOutcome, SafetyTick, pushVars, sessionVars,
       gitVars, recVars, heldVars
<1>2. ASSUME NEW r \in Repos, AgentBuild(r) \/ SafetyPush(r)
      PROVE  UNCHANGED pushVars
  BY <1>2 DEF AgentBuild, SafetyPush, pushVars, sessionVars, recVars, heldVars
<1>3. ASSUME NEW t \in Turns, PostStep(t) PROVE UNCHANGED pushVars
  BY <1>3 DEF PostStep, PostOK, PostDropped, PostRetry, Settle, pushVars,
       sessionVars, gitVars, recVars, heldVars
<1>4. CASE ShutdownBegin \/ ShutdownStep
  BY <1>4 DEF ShutdownBegin, ShutdownStep, ShutdownSafety, ShutdownSession,
       ShutdownDrain, SenderClose, SenderCancel, SenderDone, ShutVars,
       pushVars, sessionVars, gitVars, recVars, heldVars
<1> QED BY <1>1, <1>2, <1>3, <1>4 DEF PushIdle

\* Every step keeps the invariant of the push report.
LEMMA PushStep == ASSUME PushInv, [Next]_vars PROVE PushInv'
<1>1. CASE OperatorSubmit
  BY <1>1, AcceptKeeps DEF OperatorSubmit, gitVars, recVars, heldVars
<1>2. CASE PushIdle
  BY <1>2, PushIdleFrame, PushFrame
<1>3. ASSUME NEW r \in Repos, AgentEdit(r) PROVE PushInv'
  <2>1. /\ dirty' = [dirty EXCEPT ![r] = slot]
        /\ UNCHANGED <<begun, slot, fin, todo, pushed, failed, heldPushed,
                       heldFailed>>
    BY <1>3 DEF AgentEdit, sessionVars, recVars, heldVars
  <2>2. WorkAccounted'
    <3>1. SUFFICES ASSUME NEW t \in Turns, NEW q \in Repos,
                          fin[t] \notin {"off", "ended", "done"},
                          dirty'[q] = t
                   PROVE  q \in todo[t] \/ q \in failed[t]
      BY <2>1 DEF WorkAccounted
    <3>2. t # slot
      BY <3>1 DEF PushInv, NoFinaliserYet
    <3> QED BY <2>1, <3>1, <3>2 DEF PushInv, PushTypes, WorkAccounted
  <2> QED BY <2>1, <2>2 DEF PushInv, PushTypes, NoFinaliserYet, ReportsGrow,
             ListsDisjoint
<1>4. ASSUME NEW r \in Repos, AgentCommit(r) PROVE PushInv'
  <2>1. /\ dirty' = [dirty EXCEPT ![r] = 0]
        /\ UNCHANGED <<begun, slot, fin, todo, pushed, failed, heldPushed,
                       heldFailed>>
    BY <1>4 DEF AgentCommit, Committed, sessionVars, recVars, heldVars
  <2>2. WorkAccounted' /\ dirty' \in [Repos -> 0..MaxTurns]
    BY <2>1, FinalizerAssumption
    DEF FinalizerAssumption, PushInv, PushTypes, WorkAccounted, Turns
  <2> QED BY <2>1, <2>2 DEF PushInv, PushTypes, NoFinaliserYet, ReportsGrow,
             ListsDisjoint
<1>5. CASE TurnEnd
  <2>1. /\ slot \in Turns /\ slot' = 0
        /\ fin' = [fin EXCEPT ![slot] = "ended"]
        /\ UNCHANGED <<begun, dirty, todo, pushed, failed, heldPushed,
                       heldFailed>>
    BY <1>5, FinalizerAssumption
    DEF FinalizerAssumption, TurnEnd, Working, gitVars, recVars, heldVars,
        PushInv, PushTypes, Turns
  <2>2. fin[slot] = "off" /\ slot <= begun
    BY <2>1 DEF PushInv, NoFinaliserYet
  <2>3. \A u \in Turns : fin'[u] = IF u = slot THEN "ended" ELSE fin[u]
    BY <2>1 DEF PushInv, PushTypes
  <2>4. PushTypes' /\ ListsDisjoint'
    BY <2>1, FinalizerAssumption
    DEF FinalizerAssumption, PushInv, PushTypes, FinPC, ListsDisjoint
  <2>5. NoFinaliserYet'
    BY <2>1, <2>2, <2>3, FinalizerAssumption
    DEF FinalizerAssumption, PushInv, PushTypes, NoFinaliserYet, Turns
  <2>6. ReportsGrow' /\ WorkAccounted'
    BY <2>1, <2>2, <2>3 DEF PushInv, ReportsGrow, WorkAccounted
  <2> QED BY <2>4, <2>5, <2>6 DEF PushInv
<1>6. ASSUME NEW t \in Turns, OnTurnDone(t) PROVE PushInv'
  <2>1. /\ fin[t] = "ended" /\ fin' = [fin EXCEPT ![t] = "push"]
        /\ todo' = [todo EXCEPT ![t] = Repos]
        /\ UNCHANGED <<begun, slot, dirty, pushed, failed, heldPushed,
                       heldFailed>>
    BY <1>6 DEF OnTurnDone, sessionVars, gitVars, recVars, heldVars
  <2>2. \A u \in Turns : /\ fin'[u] = IF u = t THEN "push" ELSE fin[u]
                         /\ todo'[u] = IF u = t THEN Repos ELSE todo[u]
    BY <2>1 DEF PushInv, PushTypes
  <2>3. PushTypes' /\ ListsDisjoint'
    BY <2>1 DEF PushInv, PushTypes, FinPC, ListsDisjoint
  <2>4. NoFinaliserYet'
    BY <2>1, <2>2 DEF PushInv, NoFinaliserYet
  <2>5. ReportsGrow' /\ WorkAccounted'
    BY <2>1, <2>2 DEF PushInv, ReportsGrow, WorkAccounted
  <2> QED BY <2>3, <2>4, <2>5 DEF PushInv
<1>7. ASSUME NEW t \in Turns, NEW r \in Repos, FinPush(t, r) PROVE PushInv'
  <2>1. /\ fin[t] = "push" /\ r \in todo[t]
        /\ todo' = [todo EXCEPT ![t] = @ \ {r}]
        /\ UNCHANGED <<begun, slot, fin, heldPushed, heldFailed>>
    BY <1>7 DEF FinPush, IsNext, sessionVars, heldVars, PushInv, PushTypes
  <2>2. /\ dirty' = dirty \/ dirty' = [dirty EXCEPT ![r] = 0]
        /\ \/ /\ failed' = [failed EXCEPT ![t] = @ \union {r}]
              /\ pushed' = pushed
           \/ /\ dirty'[r] = 0 /\ failed' = failed
              /\ \/ pushed' = pushed
                 \/ pushed' = [pushed EXCEPT ![t] = @ \union {r}]
    BY <1>7 DEF FinPush, PushNothing, PushFails, PushSucceeds, Committed, gitVars,
         PushInv, PushTypes
  <2>3. PushTypes'
    BY <2>1, <2>2, FinalizerAssumption
    DEF FinalizerAssumption, PushInv, PushTypes
  <2>4. NoFinaliserYet'
    BY <2>1 DEF PushInv, NoFinaliserYet
  <2>5. ReportsGrow' /\ ListsDisjoint'
    BY <2>1, <2>2 DEF PushInv, PushTypes, ReportsGrow, ListsDisjoint
  <2>6. WorkAccounted'
    BY <2>1, <2>2, FinalizerAssumption
    DEF FinalizerAssumption, PushInv, PushTypes, WorkAccounted, Turns
  <2> QED BY <2>3, <2>4, <2>5, <2>6 DEF PushInv
<1>8. ASSUME NEW t \in Turns, FinTakeIssues(t) PROVE PushInv'
  <2>1. /\ fin[t] = "push" /\ todo[t] = {}
        /\ fin' = [fin EXCEPT ![t] = "drain"]
        /\ UNCHANGED <<begun, slot, dirty, todo, pushed, failed, heldPushed,
                       heldFailed>>
    BY <1>8 DEF FinTakeIssues, FinGoto, sessionVars, gitVars
  <2>2. \A u \in Turns : fin'[u] = IF u = t THEN "drain" ELSE fin[u]
    BY <2>1 DEF PushInv, PushTypes
  <2>3. PushTypes' /\ ListsDisjoint'
    BY <2>1 DEF PushInv, PushTypes, FinPC, ListsDisjoint
  <2>4. NoFinaliserYet'
    BY <2>1, <2>2 DEF PushInv, NoFinaliserYet
  <2>5. ReportsGrow' /\ WorkAccounted'
    BY <2>1, <2>2 DEF PushInv, ReportsGrow, WorkAccounted
  <2> QED BY <2>3, <2>4, <2>5 DEF PushInv
<1>9. ASSUME NEW t \in Turns, FinTakeRepos(t) PROVE PushInv'
  <2> DEFINE P == mergePushed(heldPushed, heldFailed, pushed[t], failed[t])
             F == mergeFailed(heldPushed, heldFailed, pushed[t], failed[t])
  <2>1. /\ fin[t] = "repos" /\ fin' = [fin EXCEPT ![t] = "scan"]
        /\ pushed' = [pushed EXCEPT ![t] = P]
        /\ failed' = [failed EXCEPT ![t] = F]
        /\ heldPushed' = {} /\ heldFailed' = {}
        /\ UNCHANGED <<begun, slot, dirty, todo>>
    BY <1>9 DEF FinTakeRepos, FinGoto, sessionVars, gitVars
  <2>2. P \in SUBSET Repos /\ F \in SUBSET Repos /\ P \cap F = {}
        /\ failed[t] \subseteq F
    BY MergedDisjoint DEF PushInv
  <2> HIDE DEF P, F
  <2>3. \A u \in Turns : /\ fin'[u] = IF u = t THEN "scan" ELSE fin[u]
                         /\ pushed'[u] = IF u = t THEN P ELSE pushed[u]
                         /\ failed'[u] = IF u = t THEN F ELSE failed[u]
    BY <2>1 DEF PushInv, PushTypes
  <2>4. PushTypes'
    BY <2>1, <2>2 DEF PushInv, PushTypes, FinPC
  <2>5. NoFinaliserYet'
    BY <2>1, <2>3 DEF PushInv, NoFinaliserYet
  <2>6. ReportsGrow' /\ ListsDisjoint'
    BY <2>1, <2>2, <2>3 DEF PushInv, ReportsGrow, ListsDisjoint
  <2>7. WorkAccounted'
    BY <2>1, <2>2, <2>3 DEF PushInv, WorkAccounted
  <2> QED BY <2>4, <2>5, <2>6, <2>7 DEF PushInv
<1>10. ASSUME NEW t \in Turns, FinHoldRepos(t) PROVE PushInv'
  <2> DEFINE P == mergePushed(heldPushed, heldFailed, pushed[t], failed[t])
             F == mergeFailed(heldPushed, heldFailed, pushed[t], failed[t])
  <2>1. /\ fin[t] = "holdRepos" /\ FinGoto(t, "done") /\ Discarded(t)
        /\ heldPushed' = P /\ heldFailed' = F
        /\ UNCHANGED <<begun, slot, dirty, todo>>
    BY <1>10 DEF FinHoldRepos, sessionVars, gitVars
  <2>2. P \in SUBSET Repos /\ F \in SUBSET Repos /\ P \cap F = {}
    BY MergedDisjoint DEF PushInv
  <2> HIDE DEF P, F
  <2> QED BY <2>1, <2>2, DoneKeeps
<1>11. ASSUME NEW t \in Turns, FinSubmit(t) PROVE PushInv'
  <2>1. /\ fin[t] = "submit"
        /\ \E q \in {"holdIssues", "deliver"} : FinGoto(t, q)
        /\ Accept \/ UNCHANGED <<begun, slot>>
        /\ UNCHANGED <<dirty, todo, pushed, failed, heldPushed, heldFailed>>
    BY <1>11 DEF FinSubmit, sessionVars, gitVars, recVars, heldVars
  <2>2. PICK q \in {"holdIssues", "deliver"} : FinGoto(t, q)
    BY <2>1
  <2>3. \A u \in Turns : fin'[u] = IF u = t THEN q ELSE fin[u]
    BY <2>2 DEF PushInv, PushTypes, FinGoto
  <2>4. PushTypes' /\ ListsDisjoint'
    BY <2>1, <2>2, FinalizerAssumption
    DEF FinalizerAssumption, PushInv, PushTypes, FinPC, ListsDisjoint,
        FinGoto, Accept
  <2>5. NoFinaliserYet'
    BY <2>1, <2>3, FinalizerAssumption
    DEF FinalizerAssumption, PushInv, PushTypes, NoFinaliserYet, Accept, Turns
  <2>6. ReportsGrow' /\ WorkAccounted'
    BY <2>1, <2>3 DEF PushInv, ReportsGrow, WorkAccounted
  <2> QED BY <2>4, <2>5, <2>6 DEF PushInv
<1>12. ASSUME NEW t \in Turns,
              FinDrainIssues(t) \/ FinScan(t) \/ FinReprompt(t)
              \/ FinHoldIssues(t)
       PROVE  PushInv'
  <2>1. /\ fin[t] \notin {"off", "ended", "push", "done"}
        /\ \E pc \in FinPC \ {"off", "ended", "push"} : FinGoto(t, pc)
    BY <1>12 DEF FinDrainIssues, FinScan, FinReprompt, FinHoldIssues, FinPC
  <2>2. UNCHANGED <<begun, slot, dirty, todo, pushed, failed, heldPushed,
                    heldFailed>>
    BY <1>12 DEF FinDrainIssues, FinScan, FinReprompt, FinHoldIssues,
         sessionVars, gitVars, recVars, heldVars
  <2> QED BY <2>1, <2>2, FinMoves
<1>13. ASSUME NEW t \in Turns, FinDeliver(t) PROVE PushInv'
  <2>1. /\ fin[t] = "deliver" /\ FinGoto(t, "done") /\ Discarded(t)
        /\ UNCHANGED <<begun, slot, dirty, todo, heldPushed, heldFailed>>
    BY <1>13 DEF FinDeliver, sessionVars, gitVars, heldVars
  <2>2. /\ heldPushed' \in SUBSET Repos /\ heldFailed' \in SUBSET Repos
        /\ heldPushed' \cap heldFailed' = {}
    BY <2>1 DEF PushInv, PushTypes, ListsDisjoint
  <2> QED BY <2>1, <2>2, DoneKeeps
<1>14. CASE UNCHANGED vars
  BY <1>14, PushFrame DEF vars, pushVars, sessionVars, gitVars, recVars,
       heldVars
<1> QED BY <1>1, <1>2, <1>3, <1>4, <1>5, <1>6, <1>7, <1>8, <1>9, <1>10,
           <1>11, <1>12, <1>13, <1>14 DEF Next, FinStep, PushIdle

\* The invariant of the push report holds throughout every behaviour.
LEMMA PushInvariance == Spec => []PushInv
<1>1. Init => PushInv
  BY PushInit
<1>2. PushInv /\ [Next]_vars => PushInv'
  BY PushStep
<1> QED BY <1>1, <1>2, PTL DEF Spec

\* No callback, and nothing held for a later one, says of one repository both
\* that it was pushed and that it failed (mergeRepoLists' promise), however
\* finalisers overlap.
THEOREM ReportsConsistent == Spec => []ListsDisjoint
<1>1. PushInv => ListsDisjoint
  BY DEF PushInv
<1> QED BY <1>1, PushInvariance, PTL

\* CommitAndPushAll attempts every repository whatever fails, and the file
\* unstageOversizedBlobs takes out of a commit keeps nothing else out of it:
\* work a turn left uncommitted, such files apart, is named in its report.
THEOREM EveryRepoAttempted == Spec => []NoWorkSkipped
<1>1. PushInv => NoWorkSkipped
  BY DEF PushInv, ReportsGrow, WorkAccounted, NoWorkSkipped
<1> QED BY <1>1, PushInvariance, PTL

----------------------------------------------------------------------------
(* The re-prompt budget *)

Submitting == {t \in Turns : fin[t] = "submit"}

\* The inductive invariant of the budget: the re-prompts are turns that were
\* accepted, so that the next one is counted once.
BudgetInv ==
  /\ reprompts \in 0..MaxReprompts /\ reprompted \subseteq 1..begun
  /\ BudgetExact

\* The budget is counted over finite sets.
LEMMA BudgetSets ==
  ASSUME PushTypes, reprompted \subseteq 1..begun
  PROVE  /\ IsFiniteSet(reprompted) /\ Cardinality(reprompted) \in Nat
         /\ IsFiniteSet(Submitting) /\ Cardinality(Submitting) \in Nat
<1>1. IsFiniteSet(1..begun) /\ IsFiniteSet(Turns)
  BY FinalizerAssumption, FS_Interval DEF FinalizerAssumption, PushTypes, Turns
<1>2. IsFiniteSet(reprompted) /\ IsFiniteSet(Submitting)
  BY <1>1, FS_Subset DEF Submitting
<1> QED BY <1>2, FS_CardinalityType

\* No finaliser starts or stops trying to re-prompt.
LEMMA BudgetFrame ==
  ASSUME PushTypes, BudgetInv, begun' \in {begun, begun + 1}, UNCHANGED budgetVars,
         \A t \in Turns : fin'[t] = "submit" <=> fin[t] = "submit"
  PROVE  BudgetInv'
<1>1. Submitting' = Submitting
  BY DEF Submitting
<1>2. reprompted' \subseteq 1..begun'
  BY DEF PushTypes, BudgetInv, budgetVars
<1> QED BY <1>1, <1>2 DEF BudgetInv, BudgetExact, Submitting, budgetVars

\* A finaliser goes from one place to another, neither of them the re-prompt.
LEMMA BudgetMoves ==
  ASSUME PushTypes, BudgetInv, NEW t \in Turns, NEW pc, FinGoto(t, pc),
         fin[t] # "submit", pc # "submit", UNCHANGED <<begun, budgetVars>>
  PROVE  BudgetInv'
<1>1. \A u \in Turns : fin'[u] = IF u = t THEN pc ELSE fin[u]
  BY DEF PushTypes, FinGoto
<1> QED BY <1>1, BudgetFrame

\* Every step keeps the budget.
LEMMA BudgetStep ==
  ASSUME PushInv, BudgetInv, [Next]_vars
  PROVE  BudgetInv'
<1> USE DEF PushInv
<1>1. CASE PushIdle \/ UNCHANGED vars
  <2>1. UNCHANGED <<begun, fin>>
    BY <1>1, PushIdleFrame DEF pushVars, vars, sessionVars
  <2>2. UNCHANGED budgetVars
    BY <1>1 DEF PushIdle, AgentReport, AgentOutcome, SafetyTick, AgentBuild,
       SafetyPush, PostStep, PostOK, PostDropped, PostRetry, Settle, ShutdownBegin, ShutdownStep, ShutdownSafety,
       ShutdownSession, ShutdownDrain, SenderClose, SenderCancel, SenderDone, ShutVars, vars
  <2> QED BY <2>1, <2>2, BudgetFrame
<1>2. CASE OperatorSubmit
  BY <1>2, BudgetFrame DEF OperatorSubmit, Accept
<1>3. ASSUME NEW r \in Repos, AgentEdit(r) \/ AgentCommit(r) PROVE BudgetInv'
  BY <1>3, BudgetFrame DEF AgentEdit, AgentCommit, sessionVars
<1>4. CASE TurnEnd
  <2>1. /\ slot \in Turns /\ fin[slot] = "off" /\ FinGoto(slot, "ended")
        /\ UNCHANGED <<begun, budgetVars>>
    BY <1>4, FinalizerAssumption
    DEF FinalizerAssumption, TurnEnd, Working, PushTypes, NoFinaliserYet, Turns, FinGoto
  <2> QED BY <2>1, BudgetMoves
<1>5. ASSUME NEW t \in Turns, NEW r \in Repos, FinPush(t, r) PROVE BudgetInv'
  BY <1>5, BudgetFrame DEF FinPush, sessionVars
<1>6. ASSUME NEW t \in Turns,
             \/ OnTurnDone(t) \/ FinTakeIssues(t) \/ FinDrainIssues(t) \/ FinTakeRepos(t)
             \/ FinScan(t) \/ FinHoldIssues(t) \/ FinHoldRepos(t) \/ FinDeliver(t)
      PROVE  BudgetInv'
  <2>1. \E pc \in FinPC \ {"submit"} : FinGoto(t, pc)
    BY <1>6 DEF OnTurnDone, FinTakeIssues, FinDrainIssues, FinTakeRepos, FinScan, FinHoldIssues,
       FinHoldRepos, FinDeliver, FinGoto, FinPC
  <2>2. fin[t] # "submit" /\ UNCHANGED <<begun, budgetVars>>
    BY <1>6 DEF OnTurnDone, FinTakeIssues, FinDrainIssues, FinTakeRepos, FinScan, FinHoldIssues,
       FinHoldRepos, FinDeliver, sessionVars
  <2> QED BY <2>1, <2>2, BudgetMoves
<1>7. ASSUME NEW t \in Turns, FinReprompt(t) PROVE BudgetInv'
  <2>1. fin[t] = "reprompt" /\ UNCHANGED <<begun, reprompted>>
    BY <1>7 DEF FinReprompt, sessionVars
  <2>2. CASE FinGoto(t, "deliver") /\ UNCHANGED reprompts
    BY <2>1, <2>2, BudgetMoves DEF budgetVars
  <2>3. CASE ~BudgetSpent /\ reprompts' = reprompts + 1 /\ FinGoto(t, "submit")
    <3>1. Submitting' = Submitting \cup {t} /\ t \notin Submitting
      BY <2>1, <2>3 DEF Submitting, FinGoto, PushTypes
    <3>2. Cardinality(Submitting') = Cardinality(Submitting) + 1
      BY <3>1, BudgetSets, FS_AddElement DEF BudgetInv
    <3>3. reprompts' \in 0..MaxReprompts
      BY <2>3, FinalizerAssumption DEF FinalizerAssumption, BudgetSpent, BudgetInv
    <3>4. reprompts' = Cardinality(reprompted') + Cardinality(Submitting')
      BY <2>1, <2>3, <3>2, BudgetSets DEF BudgetInv, BudgetExact, Submitting
    <3> QED BY <2>1, <3>3, <3>4 DEF BudgetInv, BudgetExact, Submitting
  <2> QED BY <1>7, <2>2, <2>3 DEF FinReprompt
<1>8. ASSUME NEW t \in Turns, FinSubmit(t) PROVE BudgetInv'
  <2>1. \E pc \in {"holdIssues", "deliver"} : FinGoto(t, pc)
    BY <1>8 DEF FinSubmit
  <2>2. Submitting' = Submitting \ {t} /\ t \in Submitting
    BY <1>8, <2>1 DEF Submitting, FinGoto, PushTypes, FinSubmit
  <2>3. Cardinality(Submitting') = Cardinality(Submitting) - 1
    BY <2>2, BudgetSets, FS_RemoveElement DEF BudgetInv
  <2>4. Cardinality(Submitting) # 0
    BY <2>2, BudgetSets, FS_EmptySet DEF BudgetInv
  <2>5. CASE Accept /\ reprompted' = reprompted \union {begun + 1} /\ UNCHANGED reprompts
    <3>1. begun + 1 \notin reprompted /\ reprompted' \subseteq 1..begun'
      BY <2>5 DEF BudgetInv, PushTypes, Accept
    <3>2. Cardinality(reprompted') = Cardinality(reprompted) + 1
      BY <2>5, <3>1, BudgetSets, FS_AddElement DEF BudgetInv
    <3>3. reprompts' = Cardinality(reprompted') + Cardinality(Submitting')
      BY <2>3, <2>5, <3>2, BudgetSets DEF BudgetInv, BudgetExact, Submitting
    <3> QED BY <2>5, <3>1, <3>3 DEF BudgetInv, BudgetExact, Submitting
  <2>6. CASE reprompts' = RolledBack /\ UNCHANGED <<sessionVars, reprompted>>
    <3>1. reprompts' = Cardinality(reprompted') + Cardinality(Submitting')
      BY <2>3, <2>6, BudgetSets DEF BudgetInv, BudgetExact, Submitting, RolledBack
    <3>2. reprompts' \in 0..MaxReprompts
      BY <2>4, <2>6, BudgetSets, FinalizerAssumption
      DEF FinalizerAssumption, BudgetInv, BudgetExact, Submitting, RolledBack
    <3> QED BY <2>6, <3>1, <3>2 DEF BudgetInv, BudgetExact, Submitting, sessionVars
  <2> QED BY <1>8, <2>5, <2>6 DEF FinSubmit
<1> QED BY <1>1, <1>2, <1>3, <1>4, <1>5, <1>6, <1>7, <1>8 DEF Next, FinStep, PushIdle

\* The budget is exact throughout every behaviour.
LEMMA BudgetInvariance == Spec => []BudgetInv
<1>1. Init => BudgetInv
  <2> SUFFICES ASSUME Init PROVE BudgetInv
    OBVIOUS
  <2>1. {t \in Turns : fin[t] = "submit"} = {}
    BY DEF Init
  <2> QED BY <2>1, FS_EmptySet, FinalizerAssumption
          DEF FinalizerAssumption, Init, BudgetInv, BudgetExact
<1>2. PushInv /\ BudgetInv /\ [Next]_vars => BudgetInv'
  BY BudgetStep
<1> QED BY <1>1, <1>2, PushInvariance, PTL DEF Spec

\* The budget of outcome re-prompts (reprompt, app.go) counts those that were
\* issued and those being tried: one the session refused is given back, so it
\* never costs the pod a later one, and there are never more than
\* maxOutcomeReprompts.
THEOREM BudgetIsExact == Spec => [](BudgetExact /\ reprompts <= MaxReprompts)
<1>1. BudgetInv => BudgetExact /\ reprompts <= MaxReprompts
  BY FinalizerAssumption DEF FinalizerAssumption, BudgetInv
<1> QED BY <1>1, BudgetInvariance, PTL

----------------------------------------------------------------------------
(* Shutdown *)

Draining == {"drained", "closing", "down"}
Idle == {"off", "ended", "done"}

\* The part of the types shutdown depends on.
DrainTypes ==
  /\ fin \in [Turns -> FinPC]
  /\ delivery \in [Turns -> {"none", "posting", "ok", "dropped", "refused"}]
  /\ senderClosed \in BOOLEAN /\ timedOut \in BOOLEAN

\* The sender is closed by the last stage of shutdown only.
ClosedLast == senderClosed <=> app \in {"closing", "down"}

\* After a drain that was not given up only finalisers that started too late
\* for it are at work.
DrainHolds ==
  app \in Draining /\ ~timedOut =>
    \A t \in Turns : fin[t] \in Idle \/ t \in late

\* The inductive invariant of shutdown.
DrainInv ==
  DrainTypes /\ ClosedLast /\ DrainHolds /\ NoCallbackRefused
  /\ NothingLeftBehind

drainVars == <<fin, delivery, senderClosed, timedOut, late, app>>

\* Nothing the invariant looks at changes.
LEMMA DrainFrame == ASSUME DrainInv, UNCHANGED drainVars PROVE DrainInv'
BY DEF DrainInv, DrainTypes, ClosedLast, DrainHolds, NoCallbackRefused,
       NothingLeftBehind, drainVars

\* Nothing is shut down when the wrapper starts.
LEMMA DrainInit == ASSUME Init PROVE DrainInv
<1>1. senderClosed \in BOOLEAN /\ timedOut \in BOOLEAN
  BY DEF Init
<1>2. /\ fin \in [Turns -> FinPC]
      /\ delivery \in [Turns -> {"none", "posting", "ok", "dropped", "refused"}]
  BY DEF Init, FinPC
<1>3. ClosedLast /\ DrainHolds
  BY DEF Init, ClosedLast, DrainHolds, Draining
<1>4. NoCallbackRefused /\ NothingLeftBehind
  BY DEF Init, NoCallbackRefused, NothingLeftBehind
<1> QED BY <1>1, <1>2, <1>3, <1>4 DEF DrainInv, DrainTypes

\* A finaliser that is at work, or has not been started, moves on.
LEMMA FinaliserMoves ==
  ASSUME DrainInv, NEW t \in Turns, NEW pc \in FinPC, FinGoto(t, pc),
         fin[t] \notin Idle \/ app \notin Draining \/ pc \in Idle,
         UNCHANGED <<delivery, senderClosed, timedOut, late, app>>
  PROVE  DrainInv'
<1>1. /\ fin' \in [Turns -> FinPC]
      /\ \A u \in Turns : fin'[u] = IF u = t THEN pc ELSE fin[u]
  BY DEF DrainInv, DrainTypes, FinGoto
<1>2. DrainTypes'
  BY <1>1 DEF DrainInv, DrainTypes
<1>3. DrainHolds'
  BY <1>1 DEF DrainInv, DrainHolds
<1> QED BY <1>2, <1>3 DEF DrainInv, ClosedLast, NoCallbackRefused,
           NothingLeftBehind

\* Every step keeps the invariant of shutdown.
LEMMA DrainStep == ASSUME DrainInv, [Next]_vars PROVE DrainInv'
<1>1. CASE \/ OperatorSubmit \/ AgentReport \/ AgentOutcome \/ SafetyTick
           \/ UNCHANGED vars
  <2>1. UNCHANGED drainVars
    BY <1>1 DEF OperatorSubmit, AgentReport, AgentOutcome, SafetyTick, vars,
         drainVars, sendVars, appVars
  <2> QED BY <2>1, DrainFrame
<1>2. ASSUME NEW r \in Repos,
             AgentEdit(r) \/ AgentBuild(r) \/ AgentCommit(r) \/ SafetyPush(r)
      PROVE  DrainInv'
  <2>1. UNCHANGED drainVars
    BY <1>2 DEF AgentEdit, AgentBuild, AgentCommit, SafetyPush, drainVars, sendVars,
         appVars
  <2> QED BY <2>1, DrainFrame
<1>3. CASE TurnEnd
  <2>1. /\ fin' = [fin EXCEPT ![slot] = "ended"]
        /\ app \notin Draining
        /\ UNCHANGED <<delivery, senderClosed, timedOut, late, app>>
    BY <1>3 DEF TurnEnd, Working, SessionUp, Draining, sendVars, appVars
  <2>2. fin' \in [Turns -> FinPC]
    BY <2>1 DEF DrainInv, DrainTypes, FinPC
  <2> QED BY <2>1, <2>2 DEF DrainInv, DrainTypes, ClosedLast, DrainHolds,
             NoCallbackRefused, NothingLeftBehind
<1>4. ASSUME NEW t \in Turns, OnTurnDone(t) PROVE DrainInv'
  <2>1. /\ fin' = [fin EXCEPT ![t] = "push"]
        /\ late' = IF app \in Draining THEN late \union {t} ELSE late
        /\ UNCHANGED <<delivery, senderClosed, timedOut, app>>
    BY <1>4 DEF OnTurnDone, Draining, sendVars
  <2>2. /\ fin' \in [Turns -> FinPC]
        /\ \A u \in Turns : fin'[u] = IF u = t THEN "push" ELSE fin[u]
    BY <2>1 DEF DrainInv, DrainTypes, FinPC
  <2>3. DrainTypes' /\ ClosedLast'
    BY <2>1, <2>2 DEF DrainInv, DrainTypes, ClosedLast
  <2>4. DrainHolds'
    BY <2>1, <2>2 DEF DrainInv, DrainHolds
  <2>5. NoCallbackRefused' /\ NothingLeftBehind'
    BY <2>1 DEF DrainInv, NoCallbackRefused, NothingLeftBehind
  <2> QED BY <2>3, <2>4, <2>5 DEF DrainInv
<1>5. ASSUME NEW t \in Turns, NEW r \in Repos, FinPush(t, r) PROVE DrainInv'
  <2>1. UNCHANGED drainVars
    BY <1>5 DEF FinPush, drainVars, sendVars, appVars
  <2> QED BY <2>1, DrainFrame
<1>6. ASSUME NEW t \in Turns,
             \/ FinTakeIssues(t) \/ FinDrainIssues(t) \/ FinTakeRepos(t)
             \/ FinScan(t) \/ FinReprompt(t) \/ FinSubmit(t)
             \/ FinHoldIssues(t) \/ FinHoldRepos(t)
      PROVE  DrainInv'
  <2>1. fin[t] \notin Idle /\ \E pc \in FinPC : FinGoto(t, pc)
    BY <1>6 DEF FinTakeIssues, FinDrainIssues, FinTakeRepos, FinScan,
         FinReprompt, FinSubmit, FinHoldIssues, FinHoldRepos, FinPC, Idle
  <2>2. UNCHANGED <<delivery, senderClosed, timedOut, late, app>>
    BY <1>6 DEF FinTakeIssues, FinDrainIssues, FinTakeRepos, FinScan,
         FinReprompt, FinSubmit, FinHoldIssues, FinHoldRepos, sendVars,
         appVars
  <2> QED BY <2>1, <2>2, FinaliserMoves
<1>7. ASSUME NEW t \in Turns, FinDeliver(t) PROVE DrainInv'
  <2>1. /\ fin[t] = "deliver" /\ fin' = [fin EXCEPT ![t] = "done"]
        /\ delivery' = [delivery EXCEPT ![t] =
                          IF senderClosed THEN "refused" ELSE "posting"]
        /\ UNCHANGED <<senderClosed, timedOut, late, app>>
    BY <1>7 DEF FinDeliver, FinGoto, appVars
  <2>2. \A u \in Turns :
          /\ fin'[u] = IF u = t THEN "done" ELSE fin[u]
          /\ delivery'[u] = IF u # t THEN delivery[u]
                            ELSE IF senderClosed THEN "refused" ELSE "posting"
    BY <2>1 DEF DrainInv, DrainTypes
  <2>3. DrainTypes' /\ ClosedLast'
    BY <2>1 DEF DrainInv, DrainTypes, ClosedLast, FinPC
  <2>4. DrainHolds'
    BY <2>1, <2>2 DEF DrainInv, DrainHolds, Idle
  <2>5. senderClosed => timedOut \/ t \in late
    BY <2>1 DEF DrainInv, ClosedLast, DrainHolds, Draining, Idle
  <2>6. NoCallbackRefused'
    BY <2>1, <2>2, <2>5 DEF DrainInv, NoCallbackRefused
  <2>7. NothingLeftBehind'
    BY <2>1, <2>2 DEF DrainInv, NothingLeftBehind, ClosedLast
  <2> QED BY <2>3, <2>4, <2>6, <2>7 DEF DrainInv
<1>8. ASSUME NEW t \in Turns, PostStep(t) PROVE DrainInv'
  <2>1. /\ \/ delivery' = delivery
           \/ \E o \in {"ok", "dropped"} :
                delivery' = [delivery EXCEPT ![t] = o]
        /\ UNCHANGED <<fin, senderClosed, timedOut, late, app>>
    BY <1>8 DEF PostStep, PostOK, PostDropped, PostRetry, Settle, appVars
  <2>2. DrainTypes' /\ ClosedLast' /\ DrainHolds'
    BY <2>1 DEF DrainInv, DrainTypes, ClosedLast, DrainHolds
  <2>3. NoCallbackRefused' /\ NothingLeftBehind'
    BY <2>1 DEF DrainInv, DrainTypes, NoCallbackRefused, NothingLeftBehind
  <2> QED BY <2>2, <2>3 DEF DrainInv
<1>9. CASE ShutdownBegin \/ ShutdownSafety \/ ShutdownSession
  <2>1. /\ app \in {"up", "stopping", "noSafety"}
        /\ app' \in {"stopping", "noSafety", "noSession"}
        /\ UNCHANGED <<fin, delivery, senderClosed, timedOut, late>>
    BY <1>9 DEF ShutdownBegin, ShutdownSafety, ShutdownSession, ShutVars
  <2> QED BY <2>1 DEF DrainInv, DrainTypes, ClosedLast, DrainHolds, Draining,
             NoCallbackRefused, NothingLeftBehind
<1>10. CASE ShutdownDrain
  <2>1. /\ app = "noSession" /\ app' = "drained"
        /\ UNCHANGED <<fin, delivery, senderClosed, late>>
    BY <1>10 DEF ShutdownDrain, ShutVars
  <2>2. \/ (\A t \in Turns : fin[t] \in Idle) /\ timedOut' = timedOut
        \/ timedOut' = TRUE
    BY <1>10 DEF ShutdownDrain, TurnsDrained, Idle
  <2>3. DrainTypes' /\ ClosedLast'
    BY <2>1, <2>2 DEF DrainInv, DrainTypes, ClosedLast
  <2>4. DrainHolds'
    BY <2>1, <2>2 DEF DrainHolds
  <2>5. NoCallbackRefused' /\ NothingLeftBehind'
    BY <2>1, <2>2 DEF DrainInv, NoCallbackRefused, NothingLeftBehind
  <2> QED BY <2>3, <2>4, <2>5 DEF DrainInv
<1>11. CASE SenderClose
  <2>1. /\ app = "drained" /\ app' = "closing" /\ senderClosed' = TRUE
        /\ UNCHANGED <<fin, delivery, timedOut, late>>
    BY <1>11 DEF SenderClose, ShutVars
  <2> QED BY <2>1 DEF DrainInv, DrainTypes, ClosedLast, DrainHolds, Draining,
             NoCallbackRefused, NothingLeftBehind
<1>12. CASE SenderCancel
  BY <1>12, DrainFrame DEF SenderCancel, ShutVars, appVars, drainVars
<1>13. CASE SenderDone
  <2>1. /\ app = "closing" /\ app' = "down"
        /\ \A t \in Turns : delivery[t] # "posting"
        /\ UNCHANGED <<fin, delivery, senderClosed, timedOut, late>>
    BY <1>13 DEF SenderDone, SenderJoined, ShutVars
  <2> QED BY <2>1 DEF DrainInv, DrainTypes, ClosedLast, DrainHolds, Draining,
             NoCallbackRefused, NothingLeftBehind
<1> QED BY <1>1, <1>2, <1>3, <1>4, <1>5, <1>6, <1>7, <1>8, <1>9, <1>10,
           <1>11, <1>12, <1>13 DEF Next, FinStep, ShutdownStep

\* The invariant of shutdown holds throughout every behaviour.
LEMMA DrainInvariance == Spec => []DrainInv
<1>1. Init => DrainInv
  BY DrainInit
<1>2. DrainInv /\ [Next]_vars => DrainInv'
  BY DrainStep
<1> QED BY <1>1, <1>2, PTL DEF Spec

\* A callback is refused by the closed sender only when shutdown gave up on
\* the finalisers, or started before OnTurnDone registered the finaliser.
THEOREM DrainedBeforeClosed == Spec => []NoCallbackRefused
<1>1. DrainInv => NoCallbackRefused
  BY DEF DrainInv
<1> QED BY <1>1, DrainInvariance, PTL

\* Sender.Shutdown returns with every delivery goroutine joined.
THEOREM DeliveriesJoined == Spec => []NothingLeftBehind
<1>1. DrainInv => NothingLeftBehind
  BY DEF DrainInv
<1> QED BY <1>1, DrainInvariance, PTL

============================================================================
