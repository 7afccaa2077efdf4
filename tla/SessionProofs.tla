--------------------------- MODULE SessionProofs ---------------------------
(***************************************************************************)
(* Proofs about Session, for any sets of Submit and Interrupt calls and    *)
(* any of the bounds.  First the slot discipline: every step of the        *)
(* manager, of whichever goroutine, either leaves the turns alone or       *)
(* begins, ends or withdraws one (LEMMA Effects); the invariants, the      *)
(* action property and the refinement of TurnLifecycle all follow from     *)
(* that.  Then the supervision of claude and what Shutdown leaves, the     *)
(* handoff allowance, and, for a session in which claude does not crash,   *)
(* that prompts reach it in one piece and answers go to their own turn.    *)
(***************************************************************************)
EXTENDS SessionTypeProofs, FiniteSetTheorems

\* A Submit call that has not reserved the slot.
Fresh == {"idle", "expired", "admitted", "rejected"}

\* Turn ids are fresh: no record exists before the slot is reserved.
FreshUntouched == \A t \in Turns : sub[t] \in Fresh => rec[t] = "none"

\* The inductive invariant.  SlotMatchesStore alone is not inductive: that
\* SubmitReserve creates a record, instead of overwriting one, needs
\* FreshUntouched; that NotifiedOnce survives an ending needs that the turn
\* in the slot is running, hence not notified.
IInv ==
  /\ TypeInv
  /\ SlotMatchesStore /\ FreshUntouched
  /\ BusyHasTurn /\ NotifiedOnce
  /\ CountersMatchStore

\* What a step may do to the turns.
Quiet ==
  UNCHANGED <<rec, answer, fired, current, turnsCompleted, turnsSucceeded>>

Begins(t) ==
  /\ rec[t] = "none" /\ current = None
  /\ rec' = [rec EXCEPT ![t] = "running"] /\ current' = t
  /\ sub'[t] \notin Fresh
  /\ UNCHANGED <<answer, fired, turnsCompleted, turnsSucceeded>>

Clears(t, outcome) ==
  /\ current = t /\ current' = None
  /\ rec' = [rec EXCEPT ![t] = outcome]
  /\ \A u \in Turns : u # t => answer'[u] = answer[u]
  /\ turnsCompleted' = turnsCompleted + 1

Ends(t, outcome) ==
  /\ Clears(t, outcome)
  /\ fired' = [fired EXCEPT ![t] = @ + 1]
  /\ turnsSucceeded' =
       IF outcome = "complete" THEN turnsSucceeded + 1 ELSE turnsSucceeded

Withdraws(t) ==
  /\ Clears(t, "failed")
  /\ sub'[t] = "err"
  /\ UNCHANGED <<fired, turnsSucceeded>>

\* Submit calls never go back.
SubMoves ==
  \A t \in Turns : /\ sub'[t] \in Fresh => sub[t] \in Fresh
                   /\ sub[t] = "err" => sub'[t] = "err"

StaysBusy == state' = "busy" => current' # None

Effect ==
  /\ SubMoves /\ StaysBusy
  /\ \/ Quiet
     \/ \E t \in Turns : \/ Begins(t) \/ Withdraws(t)
                         \/ \E s \in Terminal : Ends(t, s)

\* Every step does one of the things Effect lists, and nothing else, to the
\* slot, the store, the notifications and the counters.
LEMMA Effects == ASSUME IInv, [Next]_vars PROVE Effect
<1>1. ASSUME NEW t \in Turns, Admit(t) PROVE Effect
  <2>1. SubMoves
    BY <1>1 DEF IInv, SubMoves, TypeInv, TypeOK, TypeSub, Fresh, Admit,
         SubGoto
  <2>2. StaysBusy
    BY <1>1 DEF IInv, StaysBusy, BusyHasTurn, Admit
  <2>3. Quiet
    BY <1>1 DEF Quiet, Admit, storeVars
  <2> QED BY <2>1, <2>2, <2>3 DEF Effect
<1>2. ASSUME NEW t \in Turns, SubmitReject(t) PROVE Effect
  <2>1. SubMoves
    BY <1>2 DEF IInv, SubMoves, TypeInv, TypeOK, TypeSub, Fresh,
         SubmitReject, SubGoto
  <2>2. StaysBusy
    BY <1>2 DEF IInv, StaysBusy, BusyHasTurn, SubmitReject, mgrVars
  <2>3. Quiet
    BY <1>2 DEF Quiet, SubmitReject, mgrVars, storeVars
  <2> QED BY <2>1, <2>2, <2>3 DEF Effect
<1>3. ASSUME NEW t \in Turns, SubmitReserve(t) PROVE Effect
  <2>1. SubMoves
    BY <1>3 DEF IInv, SubMoves, TypeInv, TypeOK, TypeSub, Fresh,
         SubmitReserve
  <2>2. StaysBusy
    BY <1>3, ConstantsAssumption DEF ConstantsAssumption, StaysBusy,
         SubmitReserve
  <2>3. Begins(t)
    BY <1>3 DEF IInv, SlotTaken, FreshUntouched, Fresh, TypeInv, TypeOK,
         TypeSub, Begins, SubmitReserve
  <2> QED BY <2>1, <2>2, <2>3 DEF Effect
<1>4. ASSUME NEW t \in Turns, SubmitPaste(t) PROVE Effect
  <2>1. SubMoves
    BY <1>4 DEF IInv, SubMoves, TypeInv, TypeOK, TypeSub, Fresh, SubmitPaste,
         SubGoto
  <2>2. StaysBusy
    BY <1>4 DEF IInv, StaysBusy, BusyHasTurn, SubmitPaste, mgrVars
  <2>3. Quiet
    BY <1>4 DEF Quiet, SubmitPaste, mgrVars, storeVars
  <2> QED BY <2>1, <2>2, <2>3 DEF Effect
<1>5. ASSUME NEW t \in Turns, SubmitEnter(t) PROVE Effect
  <2>1. SubMoves
    BY <1>5 DEF IInv, SubMoves, TypeInv, TypeOK, TypeSub, Fresh, SubmitEnter,
         SubGoto
  <2>2. StaysBusy
    BY <1>5 DEF IInv, StaysBusy, BusyHasTurn, SubmitEnter, mgrVars
  <2>3. Quiet
    BY <1>5 DEF Quiet, SubmitEnter, mgrVars, storeVars
  <2> QED BY <2>1, <2>2, <2>3 DEF Effect
<1>6. ASSUME NEW t \in Turns, SubmitArm(t) PROVE Effect
  <2>1. SubMoves
    BY <1>6 DEF IInv, SubMoves, TypeInv, TypeOK, TypeSub, Fresh, SubmitArm,
         SubGoto
  <2>2. StaysBusy
    BY <1>6 DEF IInv, StaysBusy, BusyHasTurn, SubmitArm
  <2>3. Quiet
    BY <1>6 DEF Quiet, SubmitArm, storeVars
  <2> QED BY <2>1, <2>2, <2>3 DEF Effect
<1>7. ASSUME NEW t \in Turns, failSubmitWrite(t) PROVE Effect
  <2>1. SubMoves
    BY <1>7 DEF IInv, SubMoves, TypeInv, TypeOK, TypeSub, Fresh,
         failSubmitWrite, SubGoto
  <2>2. StaysBusy
    BY <1>7 DEF IInv, StaysBusy, BusyHasTurn, failSubmitWrite, Resolve
  <2>3. ASSUME ~StillCurrent(t) PROVE Quiet
    BY <1>7, <2>3 DEF Quiet, failSubmitWrite
  <2>4. ASSUME StillCurrent(t) PROVE Withdraws(t)
    BY <1>7, <2>4 DEF IInv, TypeInv, TypeOK, TypeSub, TypeStore, Withdraws,
         Clears, StillCurrent, Resolve, SubGoto, failSubmitWrite
  <2> QED BY <2>1, <2>2, <2>3, <2>4 DEF Effect
<1>8. ASSUME NEW t \in Turns, CompleteReject(t) PROVE Effect
  BY <1>8 DEF IInv, Effect, SubMoves, StaysBusy, Quiet, BusyHasTurn,
       CompleteReject, mgrVars, storeVars, goVars, subVars
<1>9. ASSUME NEW t \in Turns, Complete(t) PROVE Effect
  <2>1. SubMoves
    BY <1>9 DEF IInv, SubMoves, Complete, goVars, subVars
  <2>2. StaysBusy
    BY <1>9 DEF IInv, StaysBusy, BusyHasTurn, Complete, Resolve
  <2>3. current \in Turns
    BY <1>9 DEF IInv, TypeInv, TypeOK, TypeMgr, TurnOrNone, Complete
  <2>4. Ends(current, "complete")
    BY <1>9 DEF Ends, Clears, Resolve, fireDone, Complete
  <2> QED BY <2>1, <2>2, <2>3, <2>4 DEF Effect, Terminal
<1>10. ASSUME NEW t \in Turns, HookLost(t) PROVE Effect
  BY <1>10 DEF IInv, Effect, SubMoves, StaysBusy, Quiet, BusyHasTurn,
       HookLost, mgrVars, storeVars, goVars, subVars
<1>11. ASSUME NEW p \in Procs, WatchExit(p) PROVE Effect
  <2>1. SubMoves
    BY <1>11 DEF IInv, SubMoves, WatchExit, subVars
  <2>2. StaysBusy
    BY <1>11 DEF IInv, StaysBusy, BusyHasTurn, WatchExit
  <2>3. Quiet
    BY <1>11 DEF Quiet, WatchExit, storeVars
  <2> QED BY <2>1, <2>2, <2>3 DEF Effect
<1>12. ASSUME NEW p \in Procs, WatchSpawn(p) PROVE Effect
  <2>1. SubMoves
    BY <1>12 DEF IInv, SubMoves, WatchSpawn, subVars
  <2>2. StaysBusy
    BY <1>12 DEF IInv, StaysBusy, BusyHasTurn, WatchSpawn
  <2>3. Quiet
    BY <1>12 DEF Quiet, WatchSpawn, storeVars
  <2> QED BY <2>1, <2>2, <2>3 DEF Effect
<1>13. ASSUME NEW p \in Procs, WatchSwap(p) PROVE Effect
  <2>1. SubMoves
    BY <1>13 DEF IInv, SubMoves, WatchSwap, subVars
  <2>2. StaysBusy
    BY <1>13 DEF IInv, StaysBusy, BusyHasTurn, WatchSwap
  <2>3. Quiet
    BY <1>13 DEF Quiet, WatchSwap, storeVars
  <2> QED BY <2>1, <2>2, <2>3 DEF Effect
<1>14. ASSUME NEW p \in Procs, WatchClose(p) PROVE Effect
  BY <1>14 DEF IInv, Effect, SubMoves, StaysBusy, Quiet, BusyHasTurn,
       WatchClose, mgrVars, storeVars, subVars
<1>15. ASSUME NEW p \in Procs, WatchResume(p) PROVE Effect
  BY <1>15 DEF IInv, Effect, SubMoves, StaysBusy, Quiet, BusyHasTurn,
       WatchResume, mgrVars, storeVars, subVars
<1>16. ASSUME NEW p \in Procs, WatchPaste(p) PROVE Effect
  BY <1>16 DEF IInv, Effect, SubMoves, StaysBusy, Quiet, BusyHasTurn,
       WatchPaste, mgrVars, storeVars, subVars
<1>17. ASSUME NEW p \in Procs, WatchEnter(p) PROVE Effect
  BY <1>17 DEF IInv, Effect, SubMoves, StaysBusy, Quiet, BusyHasTurn,
       WatchEnter, mgrVars, storeVars, subVars
<1>18. ASSUME NEW p \in Procs, installResumeTimer(p) PROVE Effect
  <2>1. SubMoves
    BY <1>18 DEF IInv, SubMoves, installResumeTimer, subVars
  <2>2. StaysBusy
    BY <1>18 DEF IInv, StaysBusy, BusyHasTurn, installResumeTimer,
         BusyIfCurrent, StillCurrent
  <2>3. Quiet
    BY <1>18 DEF Quiet, installResumeTimer, storeVars
  <2> QED BY <2>1, <2>2, <2>3 DEF Effect
<1>19. ASSUME NEW p \in Procs, completeFromTranscript(p) PROVE Effect
  <2>1. SubMoves
    BY <1>19 DEF IInv, SubMoves, completeFromTranscript, subVars
  <2>2. StaysBusy
    BY <1>19 DEF IInv, StaysBusy, BusyHasTurn, completeFromTranscript,
         Resolve
  <2>3. ASSUME ~StillCurrent(inFlight[p]) PROVE Quiet
    BY <1>19, <2>3 DEF Quiet, completeFromTranscript
  <2>4. ASSUME StillCurrent(inFlight[p]) PROVE inFlight[p] \in Turns
    BY <1>19, <2>4 DEF IInv, TypeInv, TypeOK, TypeWatch, TurnOrNone,
         StillCurrent
  <2>5. ASSUME StillCurrent(inFlight[p]) PROVE Ends(inFlight[p], "complete")
    BY <1>19, <2>4, <2>5 DEF IInv, TypeInv, TypeOK, TypeStore, Ends, Clears,
         StillCurrent, Resolve, fireDone, completeFromTranscript
  <2> QED BY <2>1, <2>2, <2>3, <2>4, <2>5 DEF Effect, Terminal
<1>20. ASSUME NEW p \in Procs, failTurn(p) PROVE Effect
  <2>1. SubMoves
    BY <1>20 DEF IInv, SubMoves, failTurn, subVars
  <2>2. StaysBusy
    BY <1>20 DEF IInv, StaysBusy, BusyHasTurn, failTurn, Resolve
  <2>3. ASSUME ~StillCurrent(inFlight[p]) PROVE Quiet
    BY <1>20, <2>3 DEF Quiet, failTurn
  <2>4. ASSUME StillCurrent(inFlight[p]) PROVE inFlight[p] \in Turns
    BY <1>20, <2>4 DEF IInv, TypeInv, TypeOK, TypeWatch, TurnOrNone,
         StillCurrent
  <2>5. ASSUME StillCurrent(inFlight[p]) PROVE Ends(inFlight[p], "failed")
    BY <1>20, <2>4, <2>5 DEF IInv, TypeInv, TypeOK, TypeStore, Ends, Clears,
         StillCurrent, Resolve, fireDone, failTurn
  <2> QED BY <2>1, <2>2, <2>3, <2>4, <2>5 DEF Effect, Terminal
<1>21. ASSUME NEW p \in Procs, BootSee(p) PROVE Effect
  BY <1>21 DEF IInv, Effect, SubMoves, StaysBusy, Quiet, BusyHasTurn,
       BootSee, mgrVars, storeVars, subVars
<1>22. ASSUME NEW p \in Procs, BootAccept(p) PROVE Effect
  BY <1>22 DEF IInv, Effect, SubMoves, StaysBusy, Quiet, BusyHasTurn,
       BootAccept, mgrVars, storeVars, subVars
<1>23. ASSUME NEW p \in Procs, BootReady(p) PROVE Effect
  <2>1. SubMoves
    BY <1>23 DEF IInv, SubMoves, BootReady, subVars
  <2>2. StaysBusy
    BY <1>23 DEF IInv, StaysBusy, BusyHasTurn, BootReady
  <2>3. Quiet
    BY <1>23 DEF Quiet, BootReady, storeVars
  <2> QED BY <2>1, <2>2, <2>3 DEF Effect
<1>24. ASSUME NEW p \in Procs, BootAbort(p) PROVE Effect
  BY <1>24 DEF IInv, Effect, SubMoves, StaysBusy, Quiet, BusyHasTurn,
       BootAbort, mgrVars, storeVars, subVars
<1>25. ASSUME NEW i \in Interrupts, InterruptBegin(i) PROVE Effect
  BY <1>25 DEF IInv, Effect, SubMoves, StaysBusy, Quiet, BusyHasTurn,
       InterruptBegin, mgrVars, storeVars, subVars
<1>26. ASSUME NEW i \in Interrupts, InterruptEscape(i) PROVE Effect
  BY <1>26 DEF IInv, Effect, SubMoves, StaysBusy, Quiet, BusyHasTurn,
       InterruptEscape, mgrVars, storeVars, subVars
<1>27. ASSUME NEW i \in Interrupts, InterruptPoll(i) PROVE Effect
  BY <1>27 DEF IInv, Effect, SubMoves, StaysBusy, Quiet, BusyHasTurn,
       InterruptPoll, mgrVars, storeVars, subVars
<1>28. ASSUME NEW i \in Interrupts, completeAfterInterrupt(i) PROVE Effect
  <2>1. SubMoves
    BY <1>28 DEF IInv, SubMoves, completeAfterInterrupt, subVars
  <2>2. StaysBusy
    BY <1>28 DEF IInv, StaysBusy, BusyHasTurn, completeAfterInterrupt,
         Resolve
  <2>3. ASSUME ~StillCurrent(intrTurn[i]) PROVE Quiet
    BY <1>28, <2>3 DEF Quiet, completeAfterInterrupt
  <2>4. ASSUME StillCurrent(intrTurn[i]) PROVE intrTurn[i] \in Turns
    BY <1>28, <2>4 DEF IInv, TypeInv, TypeOK, TypeIntr, TurnOrNone,
         StillCurrent
  <2>5. ASSUME StillCurrent(intrTurn[i]) PROVE Ends(intrTurn[i], "failed")
    BY <1>28, <2>4, <2>5 DEF IInv, TypeInv, TypeOK, TypeStore, Ends, Clears,
         StillCurrent, Resolve, fireDone, completeAfterInterrupt
  <2> QED BY <2>1, <2>2, <2>3, <2>4, <2>5 DEF Effect, Terminal
<1>29. ASSUME ShutdownMark PROVE Effect
  <2>1. SubMoves
    BY <1>29 DEF IInv, SubMoves, ShutdownMark, subVars
  <2>2. StaysBusy
    BY <1>29 DEF IInv, StaysBusy, BusyHasTurn, ShutdownMark
  <2>3. Quiet
    BY <1>29 DEF Quiet, ShutdownMark, storeVars
  <2> QED BY <2>1, <2>2, <2>3 DEF Effect
<1>30. ASSUME ShutdownKill PROVE Effect
  BY <1>30 DEF IInv, Effect, SubMoves, StaysBusy, Quiet, BusyHasTurn,
       ShutdownKill, mgrVars, storeVars, subVars
<1>31. ASSUME TailerDiscover PROVE Effect
  BY <1>31 DEF IInv, Effect, SubMoves, StaysBusy, Quiet, BusyHasTurn,
       TailerDiscover, storeVars, goVars, subVars
<1>32. ASSUME ClaudePersist PROVE Effect
  BY <1>32 DEF IInv, Effect, SubMoves, StaysBusy, Quiet, BusyHasTurn,
       ClaudePersist, mgrVars, storeVars, goVars, subVars
<1>33. ASSUME ClaudeAnswer PROVE Effect
  BY <1>33 DEF IInv, Effect, SubMoves, StaysBusy, Quiet, BusyHasTurn,
       ClaudeAnswer, mgrVars, storeVars, goVars, subVars
<1>34. ASSUME ClaudeDequeue PROVE Effect
  BY <1>34 DEF IInv, Effect, SubMoves, StaysBusy, Quiet, BusyHasTurn,
       ClaudeDequeue, mgrVars, storeVars, goVars, subVars
<1>35. ASSUME ClaudeCrash PROVE Effect
  BY <1>35 DEF IInv, Effect, SubMoves, StaysBusy, Quiet, BusyHasTurn,
       ClaudeCrash, mgrVars, storeVars, goVars, subVars
<1>36. ASSUME ClaudeNoConversation PROVE Effect
  BY <1>36 DEF IInv, Effect, SubMoves, StaysBusy, Quiet, BusyHasTurn,
       ClaudeNoConversation, mgrVars, storeVars, goVars, subVars
<1>37. ASSUME ClockTick PROVE Effect
  BY <1>37 DEF IInv, Effect, SubMoves, StaysBusy, Quiet, BusyHasTurn,
       ClockTick, mgrVars, storeVars, goVars, subVars
<1>38. ASSUME UNCHANGED vars PROVE Effect
  BY <1>38 DEF IInv, Effect, SubMoves, StaysBusy, Quiet, BusyHasTurn, vars,
       mgrVars, storeVars, goVars, subVars
<1> QED
  BY <1>1, <1>2, <1>3, <1>4, <1>5, <1>6, <1>7, <1>8, <1>9, <1>10, <1>11,
       <1>12, <1>13, <1>14, <1>15, <1>16, <1>17, <1>18, <1>19, <1>20, <1>21,
       <1>22, <1>23, <1>24, <1>25, <1>26, <1>27, <1>28, <1>29, <1>30, <1>31,
       <1>32, <1>33, <1>34, <1>35, <1>36, <1>37, <1>38 DEF Next, SubmitStep,
       HookStep, WatchStep, BootStep, InterruptStep, ClaudeStep

----------------------------------------------------------------------------
(* The invariant *)

\* The inductive invariant holds when the manager is created.
LEMMA InvInit == ASSUME Init PROVE IInv
<1>1. TypeInv
  BY TypeInit
<1>2. SlotMatchesStore /\ FreshUntouched
  BY ConstantsAssumption DEF ConstantsAssumption, Init, SlotMatchesStore,
     FreshUntouched
<1>3. BusyHasTurn /\ NotifiedOnce
  BY DEF Init, BusyHasTurn, NotifiedOnce, Terminal
<1>4. CountersMatchStore
  <2>1. /\ {t \in Turns : rec[t] \in Terminal} = {}
        /\ {t \in Turns : rec[t] = "complete"} = {}
    BY DEF Init, Terminal
  <2> QED BY <2>1, FS_EmptySet DEF Init, CountersMatchStore
<1> QED BY <1>1, <1>2, <1>3, <1>4 DEF IInv

\* A set of turns is finite, and a turn that joins it adds one to its size.
LEMMA OneMore ==
  ASSUME NEW S \in SUBSET Turns, NEW t \in Turns, t \notin S
  PROVE  Cardinality(S \union {t}) = Cardinality(S) + 1
<1>1. IsFiniteSet(S)
  BY FS_Subset, ConstantsAssumption DEF ConstantsAssumption
<1> QED BY <1>1, FS_AddElement

\* The turn in the slot is running and has not been notified.
LEMMA InSlot ==
  ASSUME IInv, NEW t \in Turns, current = t
  PROVE  rec[t] = "running" /\ fired[t] = 0 /\ sub[t] \notin Fresh
<1>1. rec[t] = "running"
  BY DEF IInv, SlotMatchesStore
<1>2. fired[t] = 0
  <2>1. fired[t] \in Nat /\ fired[t] <= 1
    BY DEF IInv, TypeInv, TypeOK, TypeStore, NotifiedOnce
  <2>2. fired[t] # 1
    BY <1>1 DEF IInv, NotifiedOnce, Terminal
  <2> QED BY <2>1, <2>2
<1> QED BY <1>1, <1>2 DEF IInv, FreshUntouched

\* The counters follow an ending.
LEMMA CountersFollow ==
  ASSUME IInv, NEW t \in Turns, NEW s \in Terminal, Clears(t, s),
         turnsSucceeded' =
           IF s = "complete" THEN turnsSucceeded + 1 ELSE turnsSucceeded
  PROVE  CountersMatchStore'
<1> DEFINE E == {u \in Turns : rec[u] \in Terminal}
           C == {u \in Turns : rec[u] = "complete"}
<1>1. rec \in [Turns -> RecState] /\ rec[t] = "running"
      /\ rec' = [rec EXCEPT ![t] = s]
  BY InSlot DEF Clears, IInv, TypeInv, TypeOK, TypeStore
<1>2. {u \in Turns : rec'[u] \in Terminal} = E \union {t}
  BY <1>1
<1>3. t \notin E /\ t \notin C
  BY <1>1 DEF Terminal
<1>4. Cardinality(E \union {t}) = turnsCompleted + 1
  BY <1>3, OneMore DEF IInv, CountersMatchStore
<1>5. CASE s = "complete"
  <2>1. {u \in Turns : rec'[u] = "complete"} = C \union {t}
    BY <1>1, <1>5
  <2>2. Cardinality(C \union {t}) = turnsSucceeded + 1
    BY <1>3, OneMore DEF IInv, CountersMatchStore
  <2> QED BY <1>2, <1>4, <1>5, <2>1, <2>2 DEF CountersMatchStore, Clears
<1>6. CASE s # "complete"
  <2>1. {u \in Turns : rec'[u] = "complete"} = C
    BY <1>1, <1>6
  <2> QED BY <1>2, <1>4, <1>6, <2>1 DEF IInv, CountersMatchStore, Clears
<1> QED BY <1>5, <1>6

\* Every step keeps the invariant, by what it may do to the turns.
LEMMA InvStep == ASSUME IInv, [Next]_vars PROVE IInv'
<1>1. TypeInv' /\ Effect
  BY TypeStep, Effects DEF IInv
<1>2. BusyHasTurn'
  BY <1>1 DEF Effect, StaysBusy, BusyHasTurn
<1>3. CASE Quiet
  <2>1. SlotMatchesStore' /\ FreshUntouched'
    BY <1>1, <1>3 DEF IInv, Quiet, Effect, SubMoves, SlotMatchesStore,
       FreshUntouched
  <2>2. NotifiedOnce'
    BY <1>1, <1>3 DEF IInv, Quiet, Effect, SubMoves, NotifiedOnce
  <2>3. CountersMatchStore'
    BY <1>3 DEF IInv, Quiet, CountersMatchStore
  <2> QED BY <1>1, <1>2, <2>1, <2>2, <2>3 DEF IInv
<1>4. ASSUME NEW t \in Turns, Begins(t) PROVE IInv'
  <2>1. rec \in [Turns -> RecState]
    BY DEF IInv, TypeInv, TypeOK, TypeStore
  <2>2. SlotMatchesStore'
    BY <1>4, <2>1, ConstantsAssumption DEF ConstantsAssumption, IInv, Begins,
       SlotMatchesStore
  <2>3. FreshUntouched'
    BY <1>1, <1>4, <2>1 DEF IInv, Begins, Effect, SubMoves, FreshUntouched
  <2>4. NotifiedOnce'
    <3>1. fired[t] # 1
      BY <1>4 DEF IInv, NotifiedOnce, Terminal, Begins
    <3> QED BY <1>1, <1>4, <2>1, <3>1 DEF IInv, Begins, Effect, SubMoves,
            NotifiedOnce, Terminal
  <2>5. CountersMatchStore'
    <3>1. /\ {u \in Turns : rec'[u] \in Terminal} =
               {u \in Turns : rec[u] \in Terminal}
          /\ {u \in Turns : rec'[u] = "complete"} =
               {u \in Turns : rec[u] = "complete"}
      BY <1>4, <2>1 DEF Begins, Terminal
    <3> QED BY <1>4, <3>1 DEF IInv, Begins, CountersMatchStore
  <2> QED BY <1>1, <1>2, <2>2, <2>3, <2>4, <2>5 DEF IInv
<1>5. ASSUME NEW t \in Turns, NEW s \in Terminal, Clears(t, s)
      PROVE  SlotMatchesStore' /\ FreshUntouched'
  <2>1. /\ rec \in [Turns -> RecState] /\ s # "running"
        /\ sub'[t] \notin Fresh
    BY <1>1, <1>5, InSlot DEF IInv, TypeInv, TypeOK, TypeStore, Effect,
       SubMoves, Terminal, Clears
  <2>2. SlotMatchesStore'
    BY <1>5, <2>1, ConstantsAssumption DEF ConstantsAssumption, IInv, Clears,
       SlotMatchesStore
  <2>3. FreshUntouched'
    BY <1>1, <1>5, <2>1 DEF IInv, Clears, Effect, SubMoves, FreshUntouched
  <2> QED BY <2>2, <2>3
<1>6. ASSUME NEW t \in Turns, NEW s \in Terminal, Ends(t, s) PROVE IInv'
  <2>1. /\ rec \in [Turns -> RecState] /\ fired \in [Turns -> Nat]
        /\ fired[t] = 0 /\ Clears(t, s)
    BY <1>6, InSlot DEF IInv, TypeInv, TypeOK, TypeStore, Ends, Clears
  <2>2. NotifiedOnce'
    BY <1>1, <1>6, <2>1 DEF IInv, Ends, Clears, Effect, SubMoves,
       NotifiedOnce
  <2>3. CountersMatchStore'
    BY <1>6, <2>1, CountersFollow DEF Ends
  <2> QED BY <1>1, <1>2, <1>5, <2>1, <2>2, <2>3 DEF IInv
<1>7. ASSUME NEW t \in Turns, Withdraws(t) PROVE IInv'
  <2>1. /\ rec \in [Turns -> RecState] /\ fired \in [Turns -> Nat]
        /\ fired[t] = 0 /\ Clears(t, "failed") /\ "failed" \in Terminal
    BY <1>7, InSlot DEF IInv, TypeInv, TypeOK, TypeStore, Withdraws, Clears,
       Terminal
  <2>2. NotifiedOnce'
    BY <1>1, <1>7, <2>1 DEF IInv, Withdraws, Clears, Effect, SubMoves,
       NotifiedOnce
  <2>3. CountersMatchStore'
    BY <1>7, <2>1, CountersFollow DEF Withdraws
  <2> QED BY <1>1, <1>2, <1>5, <2>1, <2>2, <2>3 DEF IInv
<1> QED BY <1>1, <1>3, <1>4, <1>6, <1>7 DEF Effect

\* The inductive invariant holds throughout every behaviour.
LEMMA Invariance == Spec => []IInv
<1>1. Init => IInv
  BY InvInit
<1>2. IInv /\ [Next]_vars => IInv'
  BY InvStep
<1> QED BY <1>1, <1>2, PTL DEF Spec

----------------------------------------------------------------------------
(* The theorems *)

\* The slot and the store agree, through crashes, relaunches, lost and
\* duplicated hooks, failing writes, interrupts and Shutdown.
THEOREM SlotDiscipline == Spec => []SlotMatchesStore
<1>1. IInv => SlotMatchesStore
  BY DEF IInv
<1> QED BY <1>1, Invariance, PTL

\* A busy session has a turn.
THEOREM NeverBusyForNothing == Spec => []BusyHasTurn
<1>1. IInv => BusyHasTurn
  BY DEF IInv
<1> QED BY <1>1, Invariance, PTL

\* OnTurnDone is fired once, after the end, for every turn that ended but
\* those whose Submit call returned the error.
THEOREM NotificationOnce == Spec => []NotifiedOnce
<1>1. IInv => NotifiedOnce
  BY DEF IInv
<1> QED BY <1>1, Invariance, PTL

\* Snapshot's counters are the numbers of ended and of completed turns.
THEOREM CountersExact == Spec => []CountersMatchStore
<1>1. IInv => CountersMatchStore
  BY DEF IInv
<1> QED BY <1>1, Invariance, PTL

\* A step leaves the outcome and the answer of an ended turn alone.
LEMMA EndedStep ==
  ASSUME IInv, [Next]_vars, NEW t \in Turns, rec[t] \in Terminal
  PROVE  rec'[t] = rec[t] /\ answer'[t] = answer[t]
<1>1. Effect /\ rec \in [Turns -> RecState]
      /\ answer \in [Turns -> TurnOrNone]
  BY Effects DEF IInv, TypeInv, TypeOK, TypeStore
<1>2. ASSUME NEW u \in Turns, NEW s \in Terminal, Clears(u, s)
      PROVE  rec'[t] = rec[t] /\ answer'[t] = answer[t]
  <2>1. u # t
    BY <1>2, InSlot DEF Clears, Terminal
  <2> QED BY <1>1, <1>2, <2>1 DEF Clears
<1>3. ASSUME NEW u \in Turns, Begins(u)
      PROVE  rec'[t] = rec[t] /\ answer'[t] = answer[t]
  BY <1>1, <1>3 DEF Begins, Terminal
<1> QED BY <1>1, <1>2, <1>3 DEF Effect, Quiet, Ends, Withdraws, Terminal

\* How a turn ended is decided once: no later hook, recovery, interrupt or
\* failing Submit changes its record.
THEOREM EndingsAreFinal == Spec => EndedForGood
<1>1. IInv /\ [Next]_vars =>
        [\A t \in Turns : rec[t] \in Terminal =>
           rec'[t] = rec[t] /\ answer'[t] = answer[t]]_vars
  BY EndedStep
<1> QED BY <1>1, Invariance, PTL DEF Spec, EndedForGood

\* A step is a step of TurnLifecycle or changes nothing it can see.
LEMMA LifecycleStep ==
  ASSUME IInv, [Next]_vars PROVE [Lifecycle!Next]_(Lifecycle!vars)
<1>1. Effect
  BY Effects
<1>2. CASE Quiet
  BY <1>2 DEF Quiet, Lifecycle!vars
<1>3. ASSUME NEW t \in Turns, Begins(t) PROVE Lifecycle!Begin(t)
  <2>1. \A u \in Turns : rec[u] # "running"
    BY <1>3, ConstantsAssumption DEF ConstantsAssumption, IInv, Begins,
       SlotMatchesStore
  <2> QED BY <1>3, <2>1 DEF Begins, Lifecycle!Begin
<1>4. ASSUME NEW t \in Turns, NEW s \in Terminal, Ends(t, s)
      PROVE  Lifecycle!End(t)
  BY <1>4, InSlot DEF Ends, Clears, Lifecycle!End, Terminal,
     Lifecycle!Terminal
<1>5. ASSUME NEW t \in Turns, Withdraws(t) PROVE Lifecycle!Withdraw(t)
  BY <1>5, InSlot DEF Withdraws, Clears, Lifecycle!Withdraw
<1> QED BY <1>1, <1>2, <1>3, <1>4, <1>5 DEF Effect, Lifecycle!Next

\* The manager implements the abstract life of a turn.
THEOREM Refinement == Spec => ImplementsLifecycle
<1>1. Init => Lifecycle!Init
  BY DEF Init, Lifecycle!Init
<1>2. IInv /\ [Next]_vars => [Lifecycle!Next]_(Lifecycle!vars)
  BY LifecycleStep
<1> QED BY <1>1, <1>2, Invariance, PTL
        DEF Spec, ImplementsLifecycle, Lifecycle!Spec

----------------------------------------------------------------------------
(* Supervision.  The watch goroutines form a chain, one process long, that  *)
(* ends at mgr.proc; where the last one is tells where a live claude is.    *)

\* A watch goroutine that no longer supervises: it waits for the new process
\* to boot, resumes the turn, or is at its end.
Resuming == {"boot", "paste", "enter", "nudge", "finish", "arm", "giveup",
             "done"}

\* Every process before mgr.proc has been handed over, none after it exists,
\* and mgr.proc is watched by its own goroutine or, during the hand-over, by
\* the one before it.
WatchChain ==
  /\ \A p \in Procs :
       /\ p > proc => watch[p] = "off"
       /\ p < proc => \/ watch[p] \in Resuming
                      \/ /\ p = proc - 1 /\ watch[p] = "close"
                         /\ watch[proc] = "off"
  /\ \/ watch[proc] \in {"wait", "spawn", "swap", "giveup", "done"}
     \/ watch[proc] = "off" /\ proc > 1 /\ watch[proc - 1] = "close"

\* A live claude is mgr.proc's, or the one a relaunch is about to swap in.
LiveAt ==
  claude.live # 0 =>
    \/ claude.live = proc /\ watch[proc] \in {"wait", "off"}
    \/ claude.live = proc + 1 /\ watch[proc] = "swap"

\* Shutdown sets stopping before anything else, and mgr.proc does not outlive
\* it.
ShutDown ==
  /\ shut # "no" => stopping
  /\ shut = "done" => claude.live # proc

\* The inductive invariant of supervision.
SupInv == TypeInv /\ WatchChain /\ LiveAt /\ ShutDown

\* What a step may do to it: nothing, but that claude may die; or move a
\* goroutine that no longer supervises; or one of relaunch's and Shutdown's
\* own steps.
Untouched == /\ UNCHANGED <<watch, proc, stopping, shut>>
             /\ claude'.live \in {claude.live, 0}

MovesOn(p) ==
  /\ watch[p] \in Resuming
  /\ \E pc \in Resuming : /\ watch' = [watch EXCEPT ![p] = pc]
                          /\ watch[p] \in {"giveup", "done"} => pc = "done"
  /\ UNCHANGED <<proc, stopping, shut>>
  /\ claude'.live \in {claude.live, 0}

Supervises(p) == WatchExit(p) \/ WatchSpawn(p) \/ WatchSwap(p) \/ WatchClose(p)

\* No key brings a claude to life or changes which one lives.
LEMMA KeysKeepLive ==
  ASSUME NEW w, NEW t
  PROVE  /\ Pasted(w, t).live \in {claude.live, 0}
         /\ Entered(w).live \in {claude.live, 0}
         /\ Accepted(w).live \in {claude.live, 0}
         /\ Escaped(w).live \in {claude.live, 0}
         /\ NoProcess.live = 0
<1>1. NoProcess.live = 0
  BY DEF NoProcess, Claude
<1>2. Pasted(w, t).live \in {claude.live, 0}
  BY DEF Pasted, Claude
<1>3. Entered(w).live \in {claude.live, 0}
  BY <1>1 DEF Entered, Claude
<1>4. Accepted(w).live \in {claude.live, 0}
  BY <1>3 DEF Accepted, Claude
<1>5. Escaped(w).live \in {claude.live, 0}
  BY DEF Escaped, Claude
<1> QED BY <1>1, <1>2, <1>3, <1>4, <1>5

\* Every step does one of those things.
LEMMA SupervisionMoves ==
  ASSUME TypeInv, [Next]_vars
  PROVE  \/ Untouched
         \/ \E p \in Procs : MovesOn(p) \/ Supervises(p)
         \/ ShutdownMark \/ ShutdownKill
<1>1. ASSUME NEW t \in Turns,
             Admit(t) \/ SubmitStep(t) \/ HookStep(t) \/ HookLost(t)
      PROVE  Untouched
  <2>1. CASE Admit(t) \/ SubmitReject(t) \/ SubmitReserve(t)
    BY <2>1 DEF Untouched, Admit, SubmitReject, SubmitReserve, mgrVars,
       watchVars, envVars
  <2>2. CASE SubmitPaste(t) \/ SubmitEnter(t)
    BY <2>2, KeysKeepLive DEF Untouched, SubmitPaste, SubmitEnter, mgrVars,
       watchVars
  <2>3. CASE SubmitArm(t) \/ failSubmitWrite(t)
    BY <2>3 DEF Untouched, SubmitArm, failSubmitWrite, watchVars, envVars
  <2>4. CASE CompleteReject(t) \/ Complete(t) \/ HookLost(t)
    BY <2>4 DEF Untouched, CompleteReject, Complete, HookLost, mgrVars,
       goVars, watchVars
  <2> QED BY <1>1, <2>1, <2>2, <2>3, <2>4 DEF SubmitStep, HookStep
<1>2. ASSUME NEW p \in Procs, WatchStep(p)
      PROVE  MovesOn(p) \/ Supervises(p)
  <2>1. CASE WatchResume(p)
    <3>1. ResumeMode(p) \in Resuming \ {"giveup"}
      BY DEF ResumeMode, Resuming
    <3> QED BY <2>1, <3>1 DEF MovesOn, Resuming, WatchResume, WatchGoto,
            mgrVars, envVars
  <2>2. CASE WatchPaste(p)
    BY <2>2, KeysKeepLive DEF MovesOn, Resuming, WatchPaste, WatchGoto,
       mgrVars
  <2>3. CASE WatchEnter(p)
    BY <2>3, KeysKeepLive DEF MovesOn, Resuming, WatchEnter, WatchGoto,
       mgrVars
  <2>4. CASE installResumeTimer(p)
    BY <2>4 DEF MovesOn, Resuming, installResumeTimer, WatchGoto, envVars
  <2>5. CASE completeFromTranscript(p)
    BY <2>5 DEF MovesOn, Resuming, completeFromTranscript, WatchGoto,
       envVars
  <2>6. CASE failTurn(p)
    BY <2>6 DEF MovesOn, Resuming, failTurn, WatchGoto, envVars
  <2> QED BY <1>2, <2>1, <2>2, <2>3, <2>4, <2>5, <2>6
          DEF WatchStep, Supervises
<1>3. ASSUME NEW p \in Procs, BootStep(p) PROVE Untouched
  <2>1. CASE BootAccept(p)
    BY <2>1, KeysKeepLive DEF Untouched, BootAccept, mgrVars, watchVars
  <2> QED BY <1>3, <2>1 DEF BootStep, Untouched, BootSee, BootReady,
          BootAbort, mgrVars, watchVars, envVars
<1>4. ASSUME NEW i \in Interrupts, InterruptBegin(i) \/ InterruptStep(i)
      PROVE  Untouched
  <2>1. CASE InterruptEscape(i)
    BY <2>1, KeysKeepLive DEF Untouched, InterruptEscape, mgrVars, watchVars
  <2> QED BY <1>4, <2>1 DEF InterruptStep, Untouched, InterruptBegin,
          InterruptPoll, completeAfterInterrupt, mgrVars, watchVars, envVars
<1>5. CASE TailerDiscover \/ ClockTick
  BY <1>5 DEF Untouched, TailerDiscover, ClockTick, mgrVars, goVars,
     watchVars, envVars
<1>6. CASE ClaudeStep \/ ClaudeCrash
  BY <1>6, KeysKeepLive DEF ClaudeStep, Untouched, ClaudePersist,
     ClaudeAnswer, ClaudeDequeue, ClaudeCrash, ClaudeNoConversation, Claude,
     mgrVars, goVars, watchVars
<1>7. CASE UNCHANGED vars
  BY <1>7 DEF Untouched, vars, mgrVars, goVars, watchVars, envVars
<1> QED BY <1>1, <1>2, <1>3, <1>4, <1>5, <1>6, <1>7 DEF Next

\* The manager starts with process 1 live and watched.
LEMMA SupInit == ASSUME Init PROVE SupInv
<1>1. TypeInv
  BY TypeInit
<1>2. WatchChain
  BY ConstantsAssumption DEF ConstantsAssumption, Init, WatchChain, Procs
<1>3. LiveAt /\ ShutDown
  BY ConstantsAssumption DEF ConstantsAssumption, Init, LiveAt, ShutDown,
     Procs, Claude
<1> QED BY <1>1, <1>2, <1>3 DEF SupInv

\* A step keeps the invariant of supervision.
LEMMA SupStep == ASSUME SupInv, [Next]_vars PROVE SupInv'
<1>1. TypeInv' /\ TypeInv
  BY TypeStep DEF SupInv
<1>2. /\ watch \in [Procs -> WatchPC] /\ proc \in Procs /\ claude.live \in Writer
      /\ Procs = 1..MaxProcs /\ Writer = 0..MaxProcs /\ MaxProcs \in Nat
  BY <1>1, ConstantsAssumption DEF ConstantsAssumption, TypeInv, TypeOK,
     TypeWatch, TypeMgr, TypeClaude, ClaudeType, Procs, Writer
<1>3. WatchChain /\ LiveAt /\ ShutDown
  BY DEF SupInv
<1>4. CASE Untouched
  <2>1. WatchChain'
    BY <1>3, <1>4 DEF Untouched, WatchChain
  <2>2. LiveAt' /\ ShutDown'
    BY <1>2, <1>3, <1>4 DEF Untouched, LiveAt, ShutDown
  <2> QED BY <1>1, <2>1, <2>2 DEF SupInv
<1>5. ASSUME NEW p \in Procs, MovesOn(p) PROVE SupInv'
  <2>1. PICK pc \in Resuming :
          /\ watch' = [watch EXCEPT ![p] = pc]
          /\ watch[p] \in {"giveup", "done"} => pc = "done"
    BY <1>5 DEF MovesOn
  <2>2. p <= proc
    BY <1>2, <1>3, <1>5 DEF MovesOn, WatchChain, Resuming
  <2>3. p = proc => watch'[p] = "done" /\ watch[p] \in {"giveup", "done"}
    BY <1>2, <1>3, <1>5, <2>1 DEF MovesOn, WatchChain, Resuming
  <2>4. /\ watch'[p] \in Resuming /\ watch[p] \in Resuming
        /\ \A q \in Procs : q # p => watch'[q] = watch[q]
    BY <1>2, <1>5, <2>1 DEF MovesOn
  <2>5. proc' = proc /\ stopping' = stopping /\ shut' = shut
        /\ claude'.live \in {claude.live, 0}
    BY <1>5 DEF MovesOn
  <2>6. WatchChain'
    BY <1>2, <1>3, <2>2, <2>3, <2>4, <2>5 DEF WatchChain, Resuming
  <2>7. LiveAt' /\ ShutDown'
    BY <1>2, <1>3, <2>2, <2>3, <2>4, <2>5 DEF LiveAt, ShutDown, Resuming
  <2> QED BY <1>1, <2>6, <2>7 DEF SupInv
<1>6. ASSUME NEW p \in Procs, Supervises(p) PROVE p <= proc
  BY <1>2, <1>3, <1>6 DEF WatchChain, Supervises, WatchExit, WatchSpawn,
     WatchSwap, WatchClose
<1>7. ASSUME NEW p \in Procs, WatchExit(p) PROVE SupInv'
  <2>1. p = proc /\ watch[p] = "wait" /\ claude.live # p
    BY <1>2, <1>3, <1>6, <1>7 DEF Supervises, WatchChain, WatchExit, Resuming
  <2>2. /\ watch'[p] \in {"done", "giveup", "spawn"}
        /\ \A q \in Procs : q # p => watch'[q] = watch[q]
        /\ UNCHANGED <<proc, stopping, shut, claude>>
    BY <1>2, <1>7 DEF WatchExit, WatchGoto, envVars
  <2>3. WatchChain'
    BY <1>2, <1>3, <2>1, <2>2 DEF WatchChain
  <2>4. LiveAt' /\ ShutDown'
    BY <1>2, <1>3, <2>1, <2>2 DEF LiveAt, ShutDown
  <2> QED BY <1>1, <2>3, <2>4 DEF SupInv
<1>8. ASSUME NEW p \in Procs, WatchSpawn(p) PROVE SupInv'
  <2>1. p = proc /\ watch[p] = "spawn"
    BY <1>2, <1>3, <1>6, <1>8 DEF Supervises, WatchChain, WatchSpawn,
       Resuming
  <2>2. /\ \A q \in Procs : q # p => watch'[q] = watch[q]
        /\ UNCHANGED <<proc, stopping, shut>>
        /\ \/ watch'[p] = "swap" /\ claude'.live = p + 1
           \/ watch'[p] = "giveup" /\ claude' = claude
    BY <1>2, <1>8 DEF WatchSpawn, WatchGoto, Spawned, Claude
  <2>3. WatchChain'
    BY <1>2, <1>3, <2>1, <2>2 DEF WatchChain
  <2>4. LiveAt' /\ ShutDown'
    BY <1>2, <1>3, <2>1, <2>2 DEF LiveAt, ShutDown
  <2> QED BY <1>1, <2>3, <2>4 DEF SupInv
<1>9. ASSUME NEW p \in Procs, WatchSwap(p) PROVE SupInv'
  <2>1. p = proc /\ watch[p] = "swap" /\ p < MaxProcs
    BY <1>1, <1>2, <1>3, <1>6, <1>9 DEF Supervises, WatchChain, WatchSwap,
       Resuming, TypeInv, SwapBound
  <2>2. /\ \A q \in Procs : q # p => watch'[q] = watch[q]
        /\ UNCHANGED <<stopping, shut>>
        /\ \/ /\ watch'[p] = "giveup" /\ claude'.live = 0 /\ proc' = proc
           \/ /\ ~stopping /\ proc' = p + 1 /\ watch'[p] = "close"
              /\ claude' = claude
    BY <1>2, <1>9, KeysKeepLive DEF WatchSwap, WatchGoto, ShutdownRan
  <2>3. WatchChain'
    BY <1>2, <1>3, <2>1, <2>2 DEF WatchChain
  <2>4. LiveAt' /\ ShutDown'
    BY <1>2, <1>3, <2>1, <2>2 DEF LiveAt, ShutDown, WatchChain
  <2> QED BY <1>1, <2>3, <2>4 DEF SupInv
<1>10. ASSUME NEW p \in Procs, WatchClose(p) PROVE SupInv'
  <2>1. /\ p = proc - 1 /\ watch[p] = "close" /\ watch[proc] = "off"
        /\ p + 1 = proc
    BY <1>2, <1>3, <1>6, <1>10 DEF Supervises, WatchChain, WatchClose,
       Resuming
  <2>2. /\ watch'[p] = "boot" /\ watch'[proc] = "wait"
        /\ \A q \in Procs : q # p /\ q # proc => watch'[q] = watch[q]
        /\ UNCHANGED <<proc, stopping, shut, claude>>
    BY <1>2, <1>10, <2>1 DEF WatchClose, WatchHandedOver, mgrVars
  <2>3. WatchChain'
    BY <1>2, <1>3, <2>1, <2>2 DEF WatchChain, Resuming
  <2>4. LiveAt' /\ ShutDown'
    BY <1>2, <1>3, <2>1, <2>2 DEF LiveAt, ShutDown
  <2> QED BY <1>1, <2>3, <2>4 DEF SupInv
<1>11. CASE ShutdownMark
  <2>1. /\ UNCHANGED <<watch, proc, claude>> /\ stopping' = TRUE
        /\ shut' = "mark"
    BY <1>11 DEF ShutdownMark, watchVars, envVars
  <2>2. WatchChain' /\ LiveAt' /\ ShutDown'
    BY <1>3, <2>1 DEF WatchChain, LiveAt, ShutDown
  <2> QED BY <1>1, <2>2 DEF SupInv
<1>12. CASE ShutdownKill
  <2>1. /\ UNCHANGED <<watch, proc, stopping>> /\ shut = "mark"
        /\ shut' = "done" /\ claude'.live \in {claude.live, 0}
        /\ claude'.live # proc
    BY <1>2, <1>12, KeysKeepLive DEF ShutdownKill, watchVars, mgrVars
  <2>2. WatchChain'
    BY <1>3, <2>1 DEF WatchChain
  <2>3. LiveAt' /\ ShutDown'
    BY <1>2, <1>3, <2>1 DEF LiveAt, ShutDown
  <2> QED BY <1>1, <2>2, <2>3 DEF SupInv
<1> QED BY <1>1, <1>4, <1>5, <1>7, <1>8, <1>9, <1>10, <1>11, <1>12,
        SupervisionMoves DEF Supervises

\* The invariant of supervision holds throughout every behaviour.
LEMMA SupInvariance == Spec => []SupInv
<1>1. Init => SupInv
  BY SupInit
<1>2. SupInv /\ [Next]_vars => SupInv'
  BY SupStep
<1> QED BY <1>1, <1>2, PTL DEF Spec

\* A live claude is always supervised, through any number of crashes,
\* relaunches and hand-overs.
THEOREM AlwaysSupervised == Spec => []Supervised
<1>1. SupInv => Supervised
  <2>1. SUFFICES ASSUME SupInv, claude.live # 0
                 PROVE  \/ watch[claude.live] = "wait"
                        \/ watch[claude.live - 1] \in {"swap", "close"}
    BY DEF Supervised
  <2>2. proc \in Nat
    BY <2>1, ConstantsAssumption DEF ConstantsAssumption, SupInv, TypeInv, TypeOK,
       TypeMgr, Procs
  <2>3. CASE claude.live = proc /\ watch[proc] \in {"wait", "off"}
    BY <2>1, <2>3 DEF SupInv, WatchChain
  <2>4. CASE claude.live = proc + 1 /\ watch[proc] = "swap"
    <3>1. claude.live - 1 = proc
      BY <2>2, <2>4
    <3> QED BY <2>4, <3>1
  <2> QED BY <2>1, <2>3, <2>4 DEF SupInv, LiveAt
<1> QED BY <1>1, SupInvariance, PTL

\* Once Shutdown is done and no relaunch is half way, no claude is left.
THEOREM ShutdownLeavesNone == Spec => []NoOrphanClaude
<1>1. SupInv => NoOrphanClaude
  <2>1. SUFFICES ASSUME SupInv, shut = "done",
                        \A p \in Procs : watch[p] \notin {"spawn", "swap"}
                 PROVE  claude.live = 0
    BY DEF NoOrphanClaude
  <2>2. proc \in Procs
    BY <2>1 DEF SupInv, TypeInv, TypeOK, TypeMgr
  <2> QED BY <2>1, <2>2 DEF SupInv, LiveAt, ShutDown
<1> QED BY <1>1, SupInvariance, PTL

----------------------------------------------------------------------------
(* The handoff allowance *)

\* Only Admit and the clock touch what the allowance is about.
LEMMA AllowanceMoves ==
  ASSUME [Next]_vars
  PROVE  \/ UNCHANGED <<late, handoffAdmitted, clock>>
         \/ \E t \in Turns : Admit(t)
         \/ ClockTick
<1>1. ASSUME NEW t \in Turns, SubmitStep(t) \/ HookStep(t) \/ HookLost(t)
      PROVE  UNCHANGED <<late, handoffAdmitted, clock>>
  BY <1>1 DEF SubmitStep, HookStep, SubmitReject, SubmitReserve, SubmitPaste,
     SubmitEnter, SubmitArm, failSubmitWrite, CompleteReject, Complete,
     HookLost, mgrVars, goVars, envVars
<1>2. ASSUME NEW p \in Procs, WatchStep(p)
      PROVE  UNCHANGED <<late, handoffAdmitted, clock>>
  BY <1>2 DEF WatchStep, WatchExit, WatchSpawn, WatchSwap, WatchClose,
     WatchResume, WatchPaste, WatchEnter, installResumeTimer,
     completeFromTranscript, failTurn, mgrVars, envVars
<1>3. ASSUME NEW p \in Procs, BootStep(p)
      PROVE  UNCHANGED <<late, handoffAdmitted, clock>>
  BY <1>3 DEF BootStep, BootSee, BootAccept, BootReady, BootAbort, mgrVars,
     envVars
<1>4. ASSUME NEW i \in Interrupts, InterruptBegin(i) \/ InterruptStep(i)
      PROVE  UNCHANGED <<late, handoffAdmitted, clock>>
  BY <1>4 DEF InterruptStep, InterruptBegin, InterruptEscape, InterruptPoll,
     completeAfterInterrupt, mgrVars, envVars
<1>5. CASE ShutdownMark \/ ShutdownKill \/ TailerDiscover
  BY <1>5 DEF ShutdownMark, ShutdownKill, TailerDiscover, mgrVars, goVars,
     envVars
<1>6. CASE ClaudeStep \/ ClaudeCrash
  BY <1>6 DEF ClaudeStep, ClaudePersist, ClaudeAnswer, ClaudeDequeue,
     ClaudeCrash, ClaudeNoConversation, mgrVars, goVars
<1>7. CASE UNCHANGED vars
  BY <1>7 DEF vars, mgrVars, goVars, envVars
<1> QED BY <1>1, <1>2, <1>3, <1>4, <1>5, <1>6, <1>7 DEF Next

\* At most one turn is admitted past the deadline, a handoff turn, however
\* many calls race for the slot.
THEOREM HandoffAllowanceHolds == Spec => []HandoffAllowance
<1>1. Init => HandoffAllowance
  <2>1. Cardinality({}) = 0
    BY FS_EmptySet
  <2> QED BY <2>1 DEF Init, HandoffAllowance
<1>2. ASSUME HandoffAllowance, [Next]_vars PROVE HandoffAllowance'
  <2>1. CASE UNCHANGED <<late, handoffAdmitted, clock>>
    BY <1>2, <2>1 DEF HandoffAllowance
  <2>2. ASSUME NEW t \in Turns, Admit(t) PROVE HandoffAllowance'
    <3>1. CASE UNCHANGED <<handoffAdmitted, late>>
      BY <1>2, <2>2, <3>1 DEF HandoffAllowance, Admit, envVars
    <3>2. CASE TakesHandoffSlot(t) /\ late' = late \union {t}
               /\ handoffAdmitted' = TRUE
      <4>1. late' = {t}
        BY <1>2, <3>2 DEF HandoffAllowance, TakesHandoffSlot
      <4>2. Cardinality({t}) = 1
        BY FS_Singleton
      <4>3. clock' # "before" /\ {t} \subseteq Handoffs
        BY <2>2, <3>2 DEF TakesHandoffSlot, Admit, envVars
      <4> QED BY <3>2, <4>1, <4>2, <4>3 DEF HandoffAllowance
    <3> QED BY <2>2, <3>1, <3>2 DEF Admit
  <2>3. CASE ClockTick
    BY <1>2, <2>3 DEF HandoffAllowance, ClockTick, mgrVars, goVars
  <2> QED BY <1>2, <2>1, <2>2, <2>3, AllowanceMoves
<1> QED BY <1>1, <1>2, PTL DEF Spec

----------------------------------------------------------------------------
(* A calm session: claude does not crash and nobody shuts down.  bootWait   *)
(* writes without ptyMu and to whatever process is current, so after a      *)
(* crash its submit key may land between a paste and its own; here it       *)
(* cannot, because no Submit is accepted before bootWait is over.           *)

Calm == MaxCrashes = 0 /\ ~CanShutdown

\* The first process is the only one there ever is, and no write fails.
CalmProc ==
  /\ proc = 1 /\ claude.live = 1 /\ closed = {} /\ shut = "no"
  /\ \A p \in Procs : /\ watch[p] \in {"wait", "off"}
                      /\ p # 1 => watch[p] = "off" /\ boot[p] = "off"
  /\ \A t \in Turns : /\ sub[t] \notin {"fail", "err"}
                      /\ sub[t] \notin Fresh => subW[t] = 1
  /\ \A i \in Interrupts : intr[i] = "esc" => intrW[i] = 1

\* Nothing is submitted, and nothing in the composer, until bootWait is over.
CalmBoot ==
  /\ state # "dead" /\ boot[1] # "off"
  /\ claude.screen = IF boot[1] \in {"wait", "accept"} THEN "dialog" ELSE "up"
  /\ boot[1] # "done" => /\ state = "booting"
                         /\ \A t \in Turns : sub[t] \in Fresh
  /\ state = "booting" => current = None

\* The composer holds the prompt whose submit key is due, and no other.
Composed == \A t \in Turns : claude.composer = t <=> sub[t] = "enter"

CalmInv == TypeInv /\ CalmProc /\ CalmBoot /\ Composed

\* What the proofs below need of the types.
LEMMA CalmTypes ==
  ASSUME TypeInv
  PROVE  /\ sub \in [Turns -> SubPC] /\ subW \in [Turns -> Writer]
         /\ boot \in [Procs -> BootPC] /\ watch \in [Procs -> WatchPC]
         /\ intr \in [Interrupts -> IntrPC]
         /\ intrW \in [Interrupts -> Writer]
         /\ intrTurn \in [Interrupts -> TurnOrNone]
         /\ hook \in [Turns -> 0..MaxPosts] /\ MaxPosts \in Nat
         /\ rec \in [Turns -> RecState] /\ answer \in [Turns -> TurnOrNone]
         /\ 1 \in Procs
         /\ current \in TurnOrNone /\ None \notin Turns
<1>1. 1 \in Procs /\ None \notin Turns /\ MaxPosts \in Nat
  BY ConstantsAssumption DEF ConstantsAssumption, Procs
<1> QED BY <1>1 DEF TypeInv, TypeOK, TypeSub, TypeWatch, TypeIntr, TypeEnv,
        TypeStore, TypeMgr

\* A session starts calm.
LEMMA CalmInit == ASSUME Init PROVE CalmInv
<1>1. TypeInv /\ 1 \in Procs /\ None \notin Turns
  BY TypeInit, CalmTypes
<1>2. CalmProc
  BY <1>1 DEF Init, CalmProc, Claude, Fresh
<1>3. CalmBoot
  BY <1>1 DEF Init, CalmBoot, Claude, Fresh
<1>4. Composed
  BY <1>1 DEF Init, Composed, Claude
<1> QED BY <1>1, <1>2, <1>3, <1>4 DEF CalmInv

\* What no calm session does: relaunch, shut down, crash, fail a write.
LEMMA CalmMoves ==
  ASSUME Calm, CalmInv, [Next]_vars
  PROVE  \/ \E t \in Turns :
              \/ Admit(t) \/ SubmitReject(t) \/ SubmitReserve(t)
              \/ SubmitPaste(t) \/ SubmitEnter(t) \/ SubmitArm(t)
              \/ HookStep(t) \/ HookLost(t)
         \/ BootSee(1) \/ BootAccept(1) \/ BootReady(1)
         \/ \E i \in Interrupts : InterruptBegin(i) \/ InterruptStep(i)
         \/ TailerDiscover \/ ClaudePersist \/ ClaudeAnswer \/ ClaudeDequeue
         \/ ClockTick \/ UNCHANGED vars
<1>1. ASSUME NEW t \in Turns PROVE ~failSubmitWrite(t)
  BY DEF CalmInv, CalmProc, failSubmitWrite
<1>2. ASSUME NEW p \in Procs PROVE ~WatchStep(p)
  <2>1. ~WatchExit(p)
    BY DEF CalmInv, CalmProc, WatchExit
  <2> QED BY <2>1 DEF CalmInv, CalmProc, WatchStep, WatchSpawn, WatchSwap,
          WatchClose, WatchResume, WatchPaste, WatchEnter, installResumeTimer,
          completeFromTranscript, failTurn
<1>3. ASSUME NEW p \in Procs, BootStep(p)
      PROVE  p = 1 /\ (BootSee(p) \/ BootAccept(p) \/ BootReady(p))
  <2>1. p = 1
    BY <1>3 DEF CalmInv, CalmProc, BootStep, BootSee, BootAccept, BootReady,
       BootAbort
  <2> QED BY <1>3, <2>1 DEF CalmInv, CalmProc, CalmBoot, BootStep, BootAbort
<1>4. ~ShutdownMark /\ ~ClaudeCrash
  BY ConstantsAssumption DEF ConstantsAssumption, Calm, CalmInv, TypeInv,
     TypeOK, TypeEnv, ShutdownMark, ClaudeCrash
<1>5. ~ClaudeNoConversation
  BY DEF CalmInv, CalmBoot, ClaudeNoConversation
<1>6. ~ShutdownKill
  BY DEF CalmInv, CalmProc, ShutdownKill
<1> QED BY <1>1, <1>2, <1>3, <1>4, <1>5, <1>6 DEF Next, SubmitStep, ClaudeStep

\* A step that changes neither claude nor the calls nor bootWait keeps calm.
LEMMA CalmFrame ==
  ASSUME CalmProc, CalmBoot, Composed,
         UNCHANGED <<state, current, proc, closed, shut, watch, boot, sub,
                     subW, claude, intrW>>,
         \A i \in Interrupts : intr'[i] = "esc" => intr[i] = "esc"
  PROVE  CalmProc' /\ CalmBoot' /\ Composed'
BY DEF CalmProc, CalmBoot, Composed

\* Every step of a calm session keeps it calm.
LEMMA CalmStep == ASSUME Calm, CalmInv, [Next]_vars PROVE CalmInv'
<1> DEFINE Kept == CalmProc' /\ CalmBoot' /\ Composed'
<1>1. TypeInv /\ CalmProc /\ CalmBoot /\ Composed /\ TypeInv'
  BY TypeStep DEF CalmInv
<1>2. /\ sub \in [Turns -> SubPC] /\ subW \in [Turns -> Writer]
      /\ boot \in [Procs -> BootPC] /\ intr \in [Interrupts -> IntrPC]
      /\ intrW \in [Interrupts -> Writer] /\ 1 \in Procs
      /\ current \in TurnOrNone /\ None \notin Turns
  BY <1>1, CalmTypes
<1>3. ASSUME NEW t \in Turns, Admit(t) \/ SubmitReject(t) PROVE Kept
  <2>1. /\ sub[t] \in Fresh /\ sub'[t] \in Fresh /\ subW' = subW
        /\ \A u \in Turns : u # t => sub'[u] = sub[u]
        /\ UNCHANGED <<state, current, proc, closed, shut, watch, boot,
                       claude, intr, intrW>>
    BY <1>2, <1>3 DEF Admit, SubmitReject, SubGoto, Fresh, mgrVars, watchVars,
       intrVars, envVars
  <2>2. CalmProc'
    BY <1>1, <2>1 DEF CalmProc, Fresh
  <2>3. CalmBoot'
    BY <1>1, <2>1 DEF CalmBoot
  <2>4. Composed'
    BY <1>1, <2>1 DEF Composed, Fresh
  <2> QED BY <2>2, <2>3, <2>4
<1>4. ASSUME NEW t \in Turns, SubmitReserve(t) PROVE Kept
  <2>1. /\ sub'[t] = "paste" /\ subW'[t] = 1 /\ sub[t] = "admitted"
        /\ state' = "busy" /\ state # "booting"
        /\ \A u \in Turns : u # t => sub'[u] = sub[u] /\ subW'[u] = subW[u]
        /\ UNCHANGED <<proc, closed, shut, watch, boot, claude, intr, intrW>>
    BY <1>1, <1>2, <1>4 DEF CalmProc, SubmitReserve, SlotTaken, watchVars,
       intrVars, envVars
  <2>2. CalmProc'
    BY <1>1, <2>1 DEF CalmProc
  <2>3. CalmBoot'
    BY <1>1, <2>1 DEF CalmBoot
  <2>4. Composed'
    BY <1>1, <2>1 DEF Composed
  <2> QED BY <2>2, <2>3, <2>4
<1>5. ASSUME NEW t \in Turns, sub[t] \notin Fresh
      PROVE  /\ boot[1] = "done" /\ claude.screen = "up" /\ subW[t] = 1
             /\ claude.live = 1
  BY <1>1, <1>5 DEF CalmProc, CalmBoot
<1>6. ASSUME NEW t \in Turns, SubmitPaste(t) PROVE Kept
  <2>1. boot[1] = "done" /\ claude.screen = "up" /\ subW[t] = 1
        /\ claude.live = 1
    BY <1>5, <1>6 DEF SubmitPaste, Fresh
  <2>2. claude' = Claude(1, "up", t, claude.running, claude.queue)
        /\ sub' = [sub EXCEPT ![t] = "enter"] /\ subW' = subW
    BY <1>6, <2>1 DEF SubmitPaste, WriteErr, Pasted, SubGoto
  <2>3. UNCHANGED <<state, current, proc, closed, shut, watch, boot, intr,
                    intrW>>
    BY <1>6 DEF SubmitPaste, mgrVars, watchVars, intrVars
  <2>4. sub[t] = "paste" /\ \A u \in Turns : sub[u] # "enter"
    BY <1>6 DEF SubmitPaste, PtyFree
  <2>5. claude'.live = 1 /\ claude'.screen = "up" /\ claude'.composer = t
    BY <2>2 DEF Claude
  <2>6. CalmProc'
    BY <1>1, <1>2, <2>1, <2>2, <2>3, <2>4, <2>5 DEF CalmProc, Fresh
  <2>7. CalmBoot'
    BY <1>1, <1>2, <2>1, <2>2, <2>3, <2>4, <2>5 DEF CalmBoot
  <2>8. Composed'
    BY <1>2, <2>2, <2>4, <2>5 DEF Composed
  <2> QED BY <2>6, <2>7, <2>8
<1>7. ASSUME NEW t \in Turns, SubmitEnter(t) PROVE Kept
  <2>1. boot[1] = "done" /\ claude.screen = "up" /\ subW[t] = 1
        /\ claude.live = 1
    BY <1>5, <1>7 DEF SubmitEnter, Fresh
  <2>2. claude' = Entered(1)
        /\ sub' = [sub EXCEPT ![t] = "arm"] /\ subW' = subW
    BY <1>7, <2>1 DEF SubmitEnter, WriteErr, SubGoto
  <2>3. UNCHANGED <<state, current, proc, closed, shut, watch, boot, intr,
                    intrW>>
    BY <1>7 DEF SubmitEnter, mgrVars, watchVars, intrVars
  <2>4. claude'.live = 1 /\ claude'.screen = "up" /\ claude'.composer = None
    BY <2>1, <2>2 DEF Entered, Claude
  <2>5. sub[t] = "enter" /\ claude.composer = t
    BY <1>1, <1>7 DEF SubmitEnter, Composed
  <2>6. CalmProc'
    BY <1>1, <1>2, <2>1, <2>2, <2>3, <2>4, <2>5 DEF CalmProc, Fresh
  <2>7. CalmBoot'
    BY <1>1, <1>2, <2>1, <2>2, <2>3, <2>4, <2>5 DEF CalmBoot
  <2>8. Composed'
    BY <1>1, <1>2, <2>2, <2>4, <2>5 DEF Composed
  <2> QED BY <2>6, <2>7, <2>8
<1>8. ASSUME NEW t \in Turns, SubmitArm(t) PROVE Kept
  <2>1. boot[1] = "done" /\ subW[t] = 1
    BY <1>5, <1>8 DEF SubmitArm, Fresh
  <2>2. /\ sub[t] = "arm" /\ sub' = [sub EXCEPT ![t] = "ok"] /\ subW' = subW
        /\ UNCHANGED <<state, current, proc, closed, shut, watch, boot,
                       claude, intr, intrW>>
    BY <1>8 DEF SubmitArm, SubGoto, watchVars, intrVars, envVars
  <2>3. CalmProc'
    BY <1>1, <1>2, <2>1, <2>2 DEF CalmProc
  <2>4. CalmBoot'
    BY <1>1, <1>2, <2>1, <2>2 DEF CalmBoot
  <2>5. Composed'
    BY <1>1, <1>2, <2>2 DEF Composed
  <2> QED BY <2>3, <2>4, <2>5
<1>9. ASSUME NEW t \in Turns, CompleteReject(t) \/ HookLost(t) PROVE Kept
  BY <1>1, <1>9, CalmFrame DEF CompleteReject, HookLost, mgrVars, goVars,
     subVars, watchVars, intrVars
<1>10. ASSUME state' = "ready", current' = None, current # None,
              UNCHANGED <<proc, closed, shut, watch, boot, sub, subW, claude,
                          intrW>>,
              \A i \in Interrupts : intr'[i] = "esc" => intr[i] = "esc"
       PROVE  Kept
  <2>1. CalmProc'
    BY <1>1, <1>10 DEF CalmProc
  <2>2. CalmBoot'
    BY <1>1, <1>10 DEF CalmBoot
  <2>3. Composed'
    BY <1>1, <1>10 DEF Composed
  <2> QED BY <2>1, <2>2, <2>3
<1>11. ASSUME NEW t \in Turns, Complete(t) PROVE Kept
  BY <1>10, <1>11 DEF Complete, Resolve, goVars, subVars, watchVars, intrVars
<1>12. ASSUME BootSee(1) PROVE Kept
  <2>1. /\ boot[1] = "wait" /\ boot' = [boot EXCEPT ![1] = "accept"]
        /\ UNCHANGED <<state, current, proc, closed, shut, watch, sub, subW,
                       claude, intr, intrW>>
    BY <1>12 DEF BootSee, BootGoto, mgrVars, subVars, watchVars, intrVars,
       envVars
  <2>2. CalmProc'
    BY <1>1, <1>2, <2>1 DEF CalmProc
  <2>3. CalmBoot'
    BY <1>1, <1>2, <2>1 DEF CalmBoot
  <2>4. Composed'
    BY <1>1, <2>1 DEF Composed
  <2> QED BY <2>2, <2>3, <2>4
<1>13. ASSUME BootAccept(1) PROVE Kept
  <2>1. /\ boot[1] = "accept" /\ boot' = [boot EXCEPT ![1] = "accepted"]
        /\ UNCHANGED <<state, current, proc, closed, shut, watch, sub, subW,
                       intr, intrW>>
    BY <1>13 DEF BootAccept, BootGoto, mgrVars, subVars, watchVars, intrVars
  <2>2. claude.live = 1 /\ claude.screen = "dialog" /\ proc = 1 /\ closed = {}
    BY <1>1, <2>1 DEF CalmProc, CalmBoot
  <2>3. claude' = Claude(1, "up", claude.composer, claude.running,
                         claude.queue)
    BY <1>13, <2>2 DEF BootAccept, WriteOK, Accepted
  <2>4. claude'.live = 1 /\ claude'.screen = "up"
        /\ claude'.composer = claude.composer
    BY <2>3 DEF Claude
  <2>5. CalmProc'
    BY <1>1, <1>2, <2>1, <2>4 DEF CalmProc
  <2>6. CalmBoot'
    BY <1>1, <1>2, <2>1, <2>4 DEF CalmBoot
  <2>7. Composed'
    BY <1>1, <2>1, <2>4 DEF Composed
  <2> QED BY <2>5, <2>6, <2>7
<1>14. ASSUME BootReady(1) PROVE Kept
  <2>1. /\ boot' = [boot EXCEPT ![1] = "done"]
        /\ state' = IF state = "booting" /\ proc = 1 THEN "ready" ELSE state
        /\ UNCHANGED <<current, proc, closed, shut, watch, sub, subW, claude,
                       intr, intrW>>
    BY <1>14 DEF BootReady, BootGoto, subVars, watchVars, intrVars, envVars
  <2>2. boot[1] = "accepted"
    BY <1>1, <1>14 DEF BootReady, AtDialog, CalmProc, CalmBoot
  <2>3. CalmProc'
    BY <1>1, <1>2, <2>1 DEF CalmProc
  <2>4. CalmBoot'
    BY <1>1, <1>2, <2>1, <2>2 DEF CalmBoot, CalmProc
  <2>5. Composed'
    BY <1>1, <2>1 DEF Composed
  <2> QED BY <2>3, <2>4, <2>5
<1>15. ASSUME NEW i \in Interrupts, InterruptBegin(i) PROVE Kept
  <2>1. UNCHANGED <<state, current, proc, closed, shut, watch, boot, sub,
                    subW, claude>>
    BY <1>15 DEF InterruptBegin, mgrVars, subVars, watchVars, envVars
  <2>2. \A j \in Interrupts : intr'[j] = "esc" => intrW'[j] = 1
    BY <1>1, <1>2, <1>15 DEF InterruptBegin, IntrGoto, CalmProc
  <2> QED BY <1>1, <2>1, <2>2 DEF CalmProc, CalmBoot, Composed
<1>16. ASSUME NEW i \in Interrupts, InterruptEscape(i) PROVE Kept
  <2>1. /\ UNCHANGED <<state, current, proc, closed, shut, watch, boot, sub,
                       subW, intrW>>
        /\ \A j \in Interrupts : intr'[j] = "esc" => intr[j] = "esc"
    BY <1>2, <1>16 DEF InterruptEscape, IntrGoto, mgrVars, subVars, watchVars
  <2>2. claude' = Claude(1, claude.screen, None, None, claude.queue)
    BY <1>1, <1>16 DEF CalmProc, InterruptEscape, WriteErr, Escaped
  <2>3. claude'.live = 1 /\ claude'.screen = claude.screen
        /\ claude'.composer = None
    BY <2>2 DEF Claude
  <2>4. \A u \in Turns : sub[u] # "enter"
    BY <1>16 DEF InterruptEscape, PtyFree
  <2>5. CalmProc' /\ CalmBoot'
    BY <1>1, <2>1, <2>3 DEF CalmProc, CalmBoot
  <2>6. Composed'
    BY <1>2, <2>1, <2>3, <2>4 DEF Composed
  <2> QED BY <2>5, <2>6
<1>17. ASSUME NEW i \in Interrupts, InterruptPoll(i) PROVE Kept
  BY <1>1, <1>2, <1>17, CalmFrame DEF InterruptPoll, IntrGoto, mgrVars,
     subVars, watchVars, envVars
<1>18. ASSUME NEW i \in Interrupts, completeAfterInterrupt(i) PROVE Kept
  <2>1. /\ UNCHANGED <<proc, closed, shut, watch, boot, sub, subW, claude,
                       intrW>>
        /\ \A j \in Interrupts : intr'[j] = "esc" => intr[j] = "esc"
    BY <1>2, <1>18 DEF completeAfterInterrupt, IntrGoto, subVars, watchVars,
       envVars
  <2>2. CASE StillCurrent(intrTurn[i])
    BY <1>10, <1>18, <2>1, <2>2 DEF completeAfterInterrupt, StillCurrent,
       Resolve
  <2>3. CASE ~StillCurrent(intrTurn[i])
    BY <1>1, <1>18, <2>1, <2>3, CalmFrame DEF completeAfterInterrupt
  <2> QED BY <2>2, <2>3
<1>19. ASSUME TailerDiscover \/ ClaudePersist \/ ClockTick PROVE Kept
  BY <1>1, <1>19, CalmFrame DEF TailerDiscover, ClaudePersist, ClockTick,
     mgrVars, goVars, subVars, watchVars, intrVars, envVars
<1>20. ASSUME ClaudeAnswer \/ ClaudeDequeue PROVE Kept
  <2>1. /\ claude'.live = claude.live /\ claude'.screen = claude.screen
        /\ claude'.composer = claude.composer
    BY <1>20 DEF ClaudeAnswer, ClaudeDequeue, Claude
  <2>2. UNCHANGED <<state, current, proc, closed, shut, watch, boot, sub,
                    subW, intr, intrW>>
    BY <1>20 DEF ClaudeAnswer, ClaudeDequeue, mgrVars, goVars, subVars,
       watchVars, intrVars
  <2> QED BY <1>1, <2>1, <2>2 DEF CalmProc, CalmBoot, Composed
<1>21. ASSUME UNCHANGED vars PROVE Kept
  BY <1>1, <1>21, CalmFrame DEF vars, mgrVars, goVars, subVars, watchVars,
     intrVars, envVars
<1>22. Kept
  BY <1>3, <1>4, <1>6, <1>7, <1>8, <1>9, <1>11, <1>12, <1>13, <1>14, <1>15,
     <1>16, <1>17, <1>18, <1>19, <1>20, <1>21, CalmMoves
     DEF HookStep, InterruptStep
<1> QED BY <1>1, <1>22 DEF CalmInv

\* A calm session stays calm.
LEMMA CalmInvariance == ASSUME Calm PROVE Spec => []CalmInv
<1>1. Init => CalmInv
  BY CalmInit
<1>2. CalmInv /\ [Next]_vars => CalmInv'
  BY CalmStep
<1> QED BY <1>1, <1>2, PTL DEF Spec

\* In a calm session, whoever else wants to write to the PTY, the prompt a
\* Submit pasted is all there is in the composer when its submit key is due.
THEOREM PromptsStayIntact == ASSUME Calm PROVE Spec => []PromptIntact
<1>1. CalmInv => PromptIntact
  BY DEF CalmInv, CalmProc, Composed, PromptIntact
<1> QED BY <1>1, CalmInvariance, PTL

----------------------------------------------------------------------------
(* Whose answer a turn gets.  Complete gives the answer of a hook to the    *)
(* turn in the slot, whichever it is, so a hook that comes twice or a turn  *)
(* that claude still works on after its record ended spoils the next one.   *)
(* Neither happens when no hook request or response is lost, nothing        *)
(* crashes and at most one Interrupt is called.                             *)

Undisturbed ==
  /\ Calm
  /\ MaxLosses = 0
  /\ \A i, j \in Interrupts : i = j

\* A Submit call whose prompt has been sent.
Sent == {"arm", "ok"}

\* claude works on the turn in the slot and on no other; a hook under way is
\* that turn's.
InLine ==
  /\ claude.queue = << >>
  /\ \A t \in Turns :
       /\ claude.running = t => current = t /\ sub[t] \in Sent /\ hook[t] = 0
       /\ hook[t] > 0 => /\ current = t /\ claude.running = None
                         /\ sub[t] \in Sent
       /\ sub[t] \in {"paste", "enter"} => current = t
       /\ current = t => sub[t] \notin Fresh

\* A turn that claude dropped: nothing of it is left to run or to report.
Dropped(t) == /\ claude.running = None /\ sub[t] \in Sent
              /\ \A u \in Turns : hook[u] = 0

\* The marker in the transcript was written for the Interrupt that sees it,
\* and the turn that Interrupt resolves is one that claude dropped.
MarkerOwned ==
  \A i \in Interrupts :
    /\ tr.kind = "interrupted" => intr[i] \notin {"idle", "esc"}
    /\ \A t \in Turns :
         /\ intrTurn[i] = t => sub[t] \notin Fresh
         /\ intr[i] = "resolve" /\ intrTurn[i] = t /\ current = t
              => tr.kind = "interrupted"
         /\ (/\ intr[i] \in {"poll", "resolve"} /\ intrTurn[i] = t
             /\ current = t /\ tr.kind = "interrupted")
              => Dropped(t)

AnswerInv == CalmInv /\ InLine /\ MarkerOwned /\ OwnAnswer

\* Nothing is in line at the start.
LEMMA AnswerInit == ASSUME Init PROVE AnswerInv
<1>1. CalmInv /\ None \notin Turns
  BY CalmInit, ConstantsAssumption DEF ConstantsAssumption
<1>2. InLine
  BY <1>1 DEF Init, InLine, Claude, Fresh
<1>3. MarkerOwned
  <2>1. /\ tr.kind # "interrupted"
        /\ \A i \in Interrupts : intr[i] = "idle" /\ intrTurn[i] = None
    BY DEF Init
  <2> QED BY <1>1, <2>1 DEF MarkerOwned
<1>4. OwnAnswer
  BY DEF Init, OwnAnswer
<1> QED BY <1>1, <1>2, <1>3, <1>4 DEF AnswerInv

\* A step that touches none of it keeps it.
LEMMA AnswerFrame ==
  ASSUME InLine, MarkerOwned, OwnAnswer,
         UNCHANGED <<current, rec, answer, sub, claude, hook, tr, intr,
                     intrTurn>>
  PROVE  InLine' /\ MarkerOwned' /\ OwnAnswer'
BY DEF InLine, MarkerOwned, OwnAnswer, Dropped

\* Every step keeps each turn to its own answer.
LEMMA AnswerStep ==
  ASSUME Undisturbed, AnswerInv, [Next]_vars PROVE AnswerInv'
<1> DEFINE Kept == InLine' /\ MarkerOwned' /\ OwnAnswer'
<1>1. /\ Calm /\ CalmInv /\ InLine /\ MarkerOwned /\ OwnAnswer /\ CalmInv'
      /\ CalmProc /\ CalmBoot /\ Composed /\ TypeInv
  BY CalmStep DEF AnswerInv, Undisturbed, CalmInv
<1>2. /\ sub \in [Turns -> SubPC] /\ hook \in [Turns -> 0..MaxPosts]
      /\ MaxPosts \in Nat /\ intr \in [Interrupts -> IntrPC]
      /\ intrTurn \in [Interrupts -> TurnOrNone]
      /\ rec \in [Turns -> RecState] /\ answer \in [Turns -> TurnOrNone]
      /\ current \in TurnOrNone /\ None \notin Turns
      /\ TurnOrNone = Turns \union {None}
  BY <1>1, CalmTypes DEF TurnOrNone
<1>3. ASSUME NEW t \in Turns, Admit(t) \/ SubmitReject(t) PROVE Kept
  <2>1. /\ sub[t] \in Fresh /\ sub'[t] \in Fresh
        /\ \A u \in Turns : u # t => sub'[u] = sub[u]
        /\ UNCHANGED <<current, rec, answer, claude, hook, tr, intr,
                       intrTurn>>
    BY <1>2, <1>3 DEF Admit, SubmitReject, SubGoto, Fresh, mgrVars, storeVars,
       intrVars, envVars
  <2>2. InLine'
    BY <1>1, <2>1 DEF InLine, Fresh, Sent
  <2>3. MarkerOwned'
    BY <1>1, <2>1 DEF MarkerOwned, Dropped, Fresh, Sent
  <2>4. OwnAnswer'
    BY <1>1, <2>1 DEF OwnAnswer
  <2> QED BY <2>2, <2>3, <2>4
<1>4. ASSUME NEW t \in Turns, SubmitReserve(t) PROVE Kept
  <2>1. /\ sub[t] \in Fresh /\ sub'[t] = "paste" /\ current = None
        /\ current' = t /\ rec'[t] = "running"
        /\ \A u \in Turns : u # t => sub'[u] = sub[u] /\ rec'[u] = rec[u]
        /\ UNCHANGED <<answer, claude, hook, tr, intr, intrTurn>>
    BY <1>2, <1>4 DEF SubmitReserve, SlotTaken, Fresh, intrVars, envVars
  <2>2. InLine'
    BY <1>1, <1>2, <2>1 DEF InLine, Fresh, Sent
  <2>3. MarkerOwned'
    BY <1>1, <2>1 DEF MarkerOwned, Fresh
  <2>4. OwnAnswer'
    BY <1>1, <2>1 DEF OwnAnswer
  <2> QED BY <2>2, <2>3, <2>4
<1>5. ASSUME NEW t \in Turns, SubmitPaste(t) PROVE Kept
  <2>1. /\ sub[t] = "paste" /\ subW[t] = 1 /\ claude.live = 1
        /\ claude.screen = "up"
    BY <1>1, <1>5 DEF SubmitPaste, CalmProc, CalmBoot, Fresh
  <2>2. /\ claude' = Claude(1, "up", t, claude.running, claude.queue)
        /\ sub' = [sub EXCEPT ![t] = "enter"]
        /\ UNCHANGED <<current, rec, answer, hook, tr, intr, intrTurn>>
    BY <1>5, <2>1 DEF SubmitPaste, WriteErr, Pasted, SubGoto, mgrVars,
       storeVars, intrVars
  <2>3. claude'.running = claude.running /\ claude'.queue = claude.queue
    BY <2>2 DEF Claude
  <2>4. InLine'
    BY <1>1, <1>2, <2>1, <2>2, <2>3 DEF InLine, Fresh, Sent
  <2>5. MarkerOwned'
    BY <1>1, <1>2, <2>1, <2>2, <2>3 DEF MarkerOwned, Dropped, Fresh, Sent
  <2>6. OwnAnswer'
    BY <1>1, <2>2 DEF OwnAnswer
  <2> QED BY <2>4, <2>5, <2>6
<1>6. ASSUME NEW t \in Turns, SubmitEnter(t) PROVE Kept
  <2>1. /\ sub[t] = "enter" /\ subW[t] = 1 /\ claude.live = 1
        /\ claude.screen = "up" /\ claude.composer = t
    BY <1>1, <1>6 DEF SubmitEnter, CalmProc, CalmBoot, Composed, Fresh
  <2>2. current = t /\ \A u \in Turns : hook[u] = 0
    BY <1>1, <1>2, <2>1 DEF InLine, Sent
  <2>3. claude.running = None
    <3>1. claude.running \in TurnOrNone
      BY <1>1 DEF TypeInv, TypeOK, TypeClaude, ClaudeType
    <3> QED BY <1>1, <1>2, <2>1, <2>2, <3>1 DEF InLine, Sent
  <2>4. /\ claude' = Claude(1, "up", None, t, claude.queue)
        /\ sub' = [sub EXCEPT ![t] = "arm"]
        /\ UNCHANGED <<current, rec, answer, hook, tr, intr, intrTurn>>
    BY <1>2, <1>6, <2>1, <2>3 DEF SubmitEnter, WriteErr, Entered, SubGoto,
       mgrVars, storeVars, intrVars
  <2>5. claude'.running = t /\ claude'.queue = claude.queue
    BY <2>4 DEF Claude
  <2>6. InLine'
    BY <1>1, <1>2, <2>1, <2>2, <2>4, <2>5 DEF InLine, Fresh, Sent
  <2>7. MarkerOwned'
    BY <1>1, <1>2, <2>1, <2>2, <2>4, <2>5 DEF MarkerOwned, Dropped, Fresh,
       Sent
  <2>8. OwnAnswer'
    BY <1>1, <2>4 DEF OwnAnswer
  <2> QED BY <2>6, <2>7, <2>8
<1>7. ASSUME NEW t \in Turns, SubmitArm(t) PROVE Kept
  <2>1. /\ sub[t] = "arm" /\ sub' = [sub EXCEPT ![t] = "ok"]
        /\ UNCHANGED <<current, rec, answer, claude, hook, tr, intr,
                       intrTurn>>
    BY <1>7 DEF SubmitArm, SubGoto, storeVars, intrVars, envVars
  <2>2. InLine'
    BY <1>1, <1>2, <2>1 DEF InLine, Fresh, Sent
  <2>3. MarkerOwned'
    BY <1>1, <1>2, <2>1 DEF MarkerOwned, Dropped, Fresh, Sent
  <2>4. OwnAnswer'
    BY <1>1, <2>1 DEF OwnAnswer
  <2> QED BY <2>2, <2>3, <2>4
<1>8. ~(losses < MaxLosses)
  BY <1>1 DEF Undisturbed, TypeInv, TypeOK, TypeEnv
<1>9. ASSUME NEW t \in Turns PROVE ~CompleteReject(t) /\ ~HookLost(t)
  BY <1>1, <1>2, <1>8 DEF CompleteReject, HookLost, InLine, CalmBoot
<1>10. ASSUME NEW t \in Turns, Complete(t) PROVE Kept
  <2>1. /\ current = t /\ claude.running = None /\ sub[t] \in Sent
        /\ \A u \in Turns : u # t => hook[u] = 0
    BY <1>1, <1>2, <1>10 DEF Complete, InLine
  <2>2. /\ current' = None /\ rec' = [rec EXCEPT ![t] = "complete"]
        /\ answer' = [answer EXCEPT ![t] = t]
        /\ hook' = [hook EXCEPT ![t] = 0]
        /\ UNCHANGED <<sub, claude, tr, intr, intrTurn>>
    BY <1>8, <1>10, <2>1 DEF Complete, Resolve, goVars, subVars, intrVars
  <2>3. InLine'
    BY <1>1, <1>2, <2>1, <2>2 DEF InLine, Sent
  <2>4. MarkerOwned'
    BY <1>1, <1>2, <2>2 DEF MarkerOwned
  <2>5. OwnAnswer'
    BY <1>1, <1>2, <2>2 DEF OwnAnswer
  <2> QED BY <2>3, <2>4, <2>5
<1>11. ASSUME BootSee(1) \/ BootReady(1) PROVE Kept
  BY <1>1, <1>11, AnswerFrame DEF BootSee, BootReady, mgrVars, storeVars,
     subVars, intrVars, envVars
<1>12. ASSUME BootAccept(1) PROVE Kept
  <2>1. /\ boot[1] = "accept"
        /\ UNCHANGED <<current, rec, answer, sub, hook, tr, intr, intrTurn>>
    BY <1>12 DEF BootAccept, mgrVars, storeVars, subVars, intrVars
  <2>2. claude.live = 1 /\ claude.screen = "dialog" /\ proc = 1 /\ closed = {}
    BY <1>1, <2>1 DEF CalmProc, CalmBoot
  <2>3. claude' = Claude(1, "up", claude.composer, claude.running,
                         claude.queue)
    BY <1>12, <2>2 DEF BootAccept, WriteOK, Accepted
  <2>4. claude'.running = claude.running /\ claude'.queue = claude.queue
    BY <2>3 DEF Claude
  <2> QED BY <1>1, <2>1, <2>4 DEF InLine, MarkerOwned, Dropped, OwnAnswer
<1>13. ASSUME NEW i \in Interrupts, InterruptBegin(i) PROVE Kept
  <2>1. /\ intr[i] = "idle" /\ intr'[i] \in {"esc", "done"}
        /\ intrTurn'[i] \in {intrTurn[i], current}
        /\ \A j \in Interrupts : j # i => /\ intr'[j] = intr[j]
                                          /\ intrTurn'[j] = intrTurn[j]
        /\ UNCHANGED <<current, rec, answer, sub, claude, hook, tr>>
    BY <1>2, <1>13 DEF InterruptBegin, IntrGoto, mgrVars, storeVars, subVars,
       envVars
  <2>2. InLine' /\ OwnAnswer'
    BY <1>1, <2>1 DEF InLine, OwnAnswer
  <2>3. MarkerOwned'
    BY <1>1, <2>1 DEF MarkerOwned, InLine, Dropped
  <2> QED BY <2>2, <2>3
<1>14. ASSUME NEW i \in Interrupts, InterruptEscape(i) PROVE Kept
  <2>1. /\ intr[i] = "esc" /\ intr'[i] \in {"poll", "done"}
        /\ \A j \in Interrupts : j = i
        /\ UNCHANGED <<current, rec, answer, sub, hook, intrTurn>>
    BY <1>2, <1>14 DEF InterruptEscape, IntrGoto, Undisturbed, mgrVars,
       storeVars, subVars
  <2>2. /\ claude' = Claude(1, claude.screen, None, None, claude.queue)
        /\ tr' = IF claude.running # None
                 THEN [turn |-> claude.running, kind |-> "interrupted"]
                 ELSE tr
    BY <1>1, <1>14 DEF CalmProc, InterruptEscape, WriteErr, Escaped
  <2>3. claude'.running = None /\ claude'.queue = claude.queue
    BY <2>2 DEF Claude
  <2>4. tr.kind # "interrupted"
    BY <1>1, <2>1 DEF MarkerOwned
  <2>5. ASSUME tr'.kind = "interrupted"
        PROVE  sub[current] \in Sent /\ \A u \in Turns : hook[u] = 0
    <3>1. claude.running \in Turns
      BY <1>1, <1>2, <2>2, <2>4, <2>5 DEF TypeInv, TypeOK, TypeClaude,
         ClaudeType
    <3> QED BY <1>1, <1>2, <3>1 DEF InLine
  <2>6. InLine'
    BY <1>1, <1>2, <2>1, <2>3 DEF InLine
  <2>7. MarkerOwned'
    BY <1>1, <2>1, <2>3, <2>5 DEF MarkerOwned, Dropped
  <2>8. OwnAnswer'
    BY <1>1, <2>1 DEF OwnAnswer
  <2> QED BY <2>6, <2>7, <2>8
<1>15. ASSUME NEW i \in Interrupts, InterruptPoll(i) PROVE Kept
  <2>1. /\ intr[i] = "poll" /\ intr'[i] \in {"done", "resolve"}
        /\ intr'[i] = "resolve" => tr.kind = "interrupted"
        /\ \A j \in Interrupts : j = i
        /\ UNCHANGED <<current, rec, answer, sub, claude, hook, tr,
                       intrTurn>>
    BY <1>2, <1>15 DEF Undisturbed, InterruptPoll, WasInterrupted, IntrGoto,
       mgrVars, storeVars, subVars, envVars
  <2>2. InLine' /\ OwnAnswer'
    BY <1>1, <2>1 DEF InLine, OwnAnswer
  <2>3. MarkerOwned'
    BY <1>1, <2>1 DEF MarkerOwned, Dropped
  <2> QED BY <2>2, <2>3
<1>16. ASSUME NEW i \in Interrupts, completeAfterInterrupt(i) PROVE Kept
  <2>1. /\ intr[i] = "resolve" /\ intr'[i] = "done"
        /\ \A j \in Interrupts : j = i
        /\ UNCHANGED <<sub, claude, hook, tr, intrTurn>>
    BY <1>2, <1>16 DEF Undisturbed, completeAfterInterrupt, IntrGoto, subVars, envVars
  <2>2. CASE ~StillCurrent(intrTurn[i])
    <3>1. UNCHANGED <<current, rec, answer>>
      BY <1>16, <2>2 DEF completeAfterInterrupt
    <3>2. InLine' /\ OwnAnswer'
      BY <1>1, <2>1, <3>1 DEF InLine, OwnAnswer
    <3>3. MarkerOwned'
      BY <1>1, <2>1, <3>1 DEF MarkerOwned, Dropped
    <3> QED BY <3>2, <3>3
  <2>3. CASE StillCurrent(intrTurn[i])
    <3>1. PICK t \in Turns : intrTurn[i] = t /\ current = t
      BY <1>2, <2>3 DEF StillCurrent
    <3>2. Dropped(t)
      BY <1>1, <2>1, <3>1 DEF MarkerOwned
    <3>3. /\ current' = None /\ rec' = [rec EXCEPT ![t] = "failed"]
          /\ \A u \in Turns : u # t => answer'[u] = answer[u]
      BY <1>2, <1>16, <2>3, <3>1 DEF completeAfterInterrupt, Resolve
    <3>4. InLine'
      BY <1>1, <1>2, <2>1, <3>1, <3>2, <3>3 DEF InLine, Dropped, Sent
    <3>5. MarkerOwned'
      BY <1>1, <1>2, <2>1, <3>3 DEF MarkerOwned
    <3>6. OwnAnswer'
      BY <1>1, <1>2, <3>3 DEF OwnAnswer
    <3> QED BY <3>4, <3>5, <3>6
  <2> QED BY <2>2, <2>3
<1>17. ASSUME TailerDiscover \/ ClockTick PROVE Kept
  BY <1>1, <1>17, AnswerFrame DEF TailerDiscover, ClockTick, mgrVars,
     storeVars, goVars, subVars, intrVars, envVars
<1>18. ASSUME ClaudePersist \/ ClaudeAnswer
       PROVE  /\ claude.running \in Turns /\ tr'.kind # "interrupted"
              /\ UNCHANGED <<current, rec, answer, sub, intr, intrTurn>>
  BY <1>1, <1>2, <1>18 DEF ClaudePersist, ClaudeAnswer, TypeInv, TypeOK,
     TypeClaude, ClaudeType, mgrVars, storeVars, goVars, subVars, intrVars
<1>19. ASSUME claude.running \in Turns, NEW i \in Interrupts,
              NEW t \in Turns, intr[i] = "resolve", intrTurn[i] = t
       PROVE  current # t
  BY <1>1, <1>2, <1>19 DEF MarkerOwned, Dropped
<1>20. ASSUME ClaudePersist PROVE Kept
  <2>1. UNCHANGED <<claude, hook>>
    BY <1>20 DEF ClaudePersist
  <2>2. InLine' /\ OwnAnswer'
    BY <1>1, <1>18, <1>20, <2>1 DEF InLine, OwnAnswer
  <2>3. MarkerOwned'
    BY <1>1, <1>18, <1>19, <1>20 DEF MarkerOwned
  <2> QED BY <2>2, <2>3
<1>21. ASSUME ClaudeAnswer PROVE Kept
  <2>1. PICK t \in Turns : claude.running = t
    BY <1>18, <1>21
  <2>2. /\ hook' = [hook EXCEPT ![t] = MaxPosts]
        /\ claude'.running = None /\ claude'.queue = claude.queue
    BY <1>21, <2>1 DEF ClaudeAnswer, Claude
  <2>3. current = t /\ sub[t] \in Sent
    BY <1>1, <2>1 DEF InLine
  <2>4. InLine'
    BY <1>1, <1>2, <1>18, <1>21, <2>1, <2>2, <2>3 DEF InLine
  <2>5. OwnAnswer'
    BY <1>1, <1>18, <1>21 DEF OwnAnswer
  <2>6. MarkerOwned'
    BY <1>1, <1>18, <1>19, <1>21 DEF MarkerOwned
  <2> QED BY <2>4, <2>5, <2>6
<1>22. ~ClaudeDequeue
  BY <1>1 DEF InLine, ClaudeDequeue
<1>23. ASSUME UNCHANGED vars PROVE Kept
  BY <1>1, <1>23, AnswerFrame DEF vars, mgrVars, storeVars, goVars, subVars,
     intrVars, envVars
<1>24. Kept
  BY <1>1, <1>3, <1>4, <1>5, <1>6, <1>7, <1>9, <1>10, <1>11, <1>12, <1>13,
     <1>14, <1>15, <1>16, <1>17, <1>20, <1>21, <1>22, <1>23, CalmMoves
     DEF HookStep, InterruptStep
<1> QED BY <1>1, <1>24 DEF AnswerInv

\* In an undisturbed session every turn reported complete, of any number of
\* them, carries its own answer.
THEOREM AnswersAreOwn == ASSUME Undisturbed PROVE Spec => []OwnAnswer
<1>1. Init => AnswerInv
  BY AnswerInit
<1>2. AnswerInv /\ [Next]_vars => AnswerInv'
  BY AnswerStep
<1>3. AnswerInv => OwnAnswer
  BY DEF AnswerInv
<1> QED BY <1>1, <1>2, <1>3, PTL DEF Spec

============================================================================
