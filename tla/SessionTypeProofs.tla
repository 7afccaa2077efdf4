------------------------- MODULE SessionTypeProofs -------------------------
(***************************************************************************)
(* Type correctness of Session, machine-checked for any sets of Submit and *)
(* Interrupt calls and any of the bounds.  TypeOK is inductive but for one *)
(* fact, SwapBound: the process a relaunch is about to swap in is within   *)
(* the bound on processes.                                                 *)
(***************************************************************************)
EXTENDS Session, TLAPS

(* Typing *)

\* relaunch spawned process p + 1 before it takes the lock to swap it in.
SwapBound == \A p \in Procs : watch[p] \in {"swap", "close"} => p < MaxProcs

TypeInv == TypeOK /\ SwapBound

\* What the keys do to claude keeps it a claude.
LEMMA Keystrokes ==
  ASSUME TypeClaude
  PROVE  /\ NoProcess \in ClaudeType
         /\ \A p \in Writer, r \in BOOLEAN : Spawned(p, r) \in ClaudeType
         /\ \A w \in Writer, t \in TurnOrNone : Pasted(w, t) \in ClaudeType
         /\ \A w \in Writer : /\ Entered(w) \in ClaudeType
                              /\ Accepted(w) \in ClaudeType
                              /\ Escaped(w) \in ClaudeType
<1>1. 0 \in Writer
  BY ConstantsAssumption DEF ConstantsAssumption, Writer
<1>2. /\ None \in TurnOrNone /\ << >> \in Seq(Turns)
      /\ claude.live \in Writer
      /\ claude.screen \in {"dialog", "noconv", "up"}
      /\ claude.composer \in TurnOrNone
      /\ claude.running \in TurnOrNone
      /\ claude.queue \in Seq(Turns)
      /\ tr.turn \in TurnOrNone
  BY DEF TypeClaude, ClaudeType, TurnOrNone
<1>3. ASSUME NEW p \in Writer, NEW s \in {"dialog", "noconv", "up"},
             NEW c \in TurnOrNone, NEW r \in TurnOrNone, NEW q \in Seq(Turns)
      PROVE  Claude(p, s, c, r, q) \in ClaudeType
  BY DEF Claude, ClaudeType
<1>4. NoProcess \in ClaudeType
  BY <1>1, <1>2, <1>3 DEF NoProcess
<1>5. ASSUME NEW p \in Writer, NEW r \in BOOLEAN
      PROVE  Spawned(p, r) \in ClaudeType
  BY <1>2, <1>3 DEF Spawned
<1>6. ASSUME NEW w \in Writer, NEW t \in TurnOrNone
      PROVE  Pasted(w, t) \in ClaudeType
  BY <1>2, <1>3 DEF Pasted, TypeClaude
<1>7. ASSUME NEW w \in Writer PROVE Entered(w) \in ClaudeType
  <2>1. claude.composer # None =>
          Append(claude.queue, claude.composer) \in Seq(Turns)
    BY <1>2 DEF TurnOrNone
  <2> DEFINE r == IF claude.composer = None THEN tr.turn ELSE claude.composer
             q == IF claude.composer = None THEN claude.queue
                  ELSE Append(claude.queue, claude.composer)
  <2>2. r \in TurnOrNone /\ q \in Seq(Turns)
    BY <1>2, <2>1
  <2> HIDE DEF r, q
  <2>3. /\ Claude(w, "up", None, r, claude.queue) \in ClaudeType
        /\ Claude(w, "up", None, claude.running, q) \in ClaudeType
    BY <1>2, <1>3, <2>2
  <2> QED BY <1>4, <2>3 DEF Entered, TypeClaude, r, q
<1>8. ASSUME NEW w \in Writer PROVE Accepted(w) \in ClaudeType
  BY <1>2, <1>3, <1>7 DEF Accepted
<1>9. ASSUME NEW w \in Writer PROVE Escaped(w) \in ClaudeType
  BY <1>2, <1>3 DEF Escaped, TypeClaude
<1> QED BY <1>4, <1>5, <1>6, <1>7, <1>8, <1>9

(* Parts of the state an action leaves alone keep their type. *)
\* An action that leaves the manager's fields alone keeps their types;
\* likewise, below, for each other group of variables.
LEMMA FrameMgr == ASSUME TypeMgr, UNCHANGED mgrVars PROVE TypeMgr'
BY DEF TypeMgr, mgrVars

\* The store and the notifications.
LEMMA FrameStore == ASSUME TypeStore, UNCHANGED storeVars PROVE TypeStore'
BY DEF TypeStore, storeVars

\* The Submit calls.
LEMMA FrameSub ==
  ASSUME TypeSub, UNCHANGED <<subVars, late>> PROVE TypeSub'
BY DEF TypeSub, subVars

\* The watch and bootWait goroutines, whose bound SwapBound goes with them.
LEMMA FrameWatch ==
  ASSUME TypeWatch, SwapBound, UNCHANGED <<watchVars, boot>>
  PROVE  TypeWatch' /\ SwapBound'
BY DEF TypeWatch, SwapBound, watchVars

\* The Interrupt calls and Shutdown.
LEMMA FrameIntr ==
  ASSUME TypeIntr, UNCHANGED <<intrVars, shut>> PROVE TypeIntr'
BY DEF TypeIntr, intrVars

\* claude, its PTY and its transcript.
LEMMA FrameClaude ==
  ASSUME TypeClaude, UNCHANGED <<claude, closed, tr>> PROVE TypeClaude'
BY DEF TypeClaude

\* The clock, the pending hook posts and the bounds' counters.
LEMMA FrameEnv ==
  ASSUME TypeEnv, UNCHANGED <<clock, hook, crashes, losses>> PROVE TypeEnv'
BY DEF TypeEnv

\* New starts with well-typed fields.
LEMMA TypeInit == ASSUME Init PROVE TypeInv
<1>1. TypeMgr
  <2>1. stopping \in BOOLEAN /\ path \in BOOLEAN /\ tailing \in BOOLEAN
        /\ handoffAdmitted \in BOOLEAN
    BY DEF Init
  <2>2. /\ state \in {"booting", "ready", "busy", "dead"}
        /\ current \in TurnOrNone
    BY DEF Init, TurnOrNone
  <2>3. /\ restarts \in Nat /\ proc \in Procs
        /\ turnsCompleted \in Nat /\ turnsSucceeded \in Nat
    BY ConstantsAssumption DEF ConstantsAssumption, Init, Procs
  <2> QED BY <2>1, <2>2, <2>3 DEF TypeMgr
<1>2. TypeStore
  BY DEF Init, TypeStore, RecState, TurnOrNone
<1>3. TypeSub
  BY ConstantsAssumption DEF ConstantsAssumption, Init, TypeSub, SubPC, Writer
<1>4. TypeWatch
  BY ConstantsAssumption DEF ConstantsAssumption, Init, TypeWatch, WatchPC,
     BootPC, TurnOrNone, Writer
<1>5. TypeIntr
  BY ConstantsAssumption DEF ConstantsAssumption, Init, TypeIntr, IntrPC,
     TurnOrNone, Writer
<1>6. TypeClaude
  <2>1. Claude(1, "dialog", None, None, << >>) \in ClaudeType
    BY ConstantsAssumption DEF ConstantsAssumption, Claude, ClaudeType,
       Writer, TurnOrNone
  <2> QED BY <2>1 DEF Init, TypeClaude, TurnOrNone
<1>7. TypeEnv
  BY ConstantsAssumption DEF ConstantsAssumption, Init, TypeEnv
<1>8. SwapBound
  BY DEF Init, SwapBound
<1> QED BY <1>1, <1>2, <1>3, <1>4, <1>5, <1>6, <1>7, <1>8 DEF TypeInv, TypeOK

\* Every step keeps the types: one step of the proof per action, and under
\* it one per group of variables the action changes.
LEMMA TypeStep == ASSUME TypeInv, [Next]_vars PROVE TypeInv'
<1>1. ASSUME NEW t \in Turns, Admit(t) PROVE TypeInv'
  <2>1. TypeMgr'
    BY <1>1 DEF TypeInv, TypeOK, TypeMgr, TurnOrNone, Admit
  <2>2. TypeSub'
    BY <1>1 DEF TypeInv, TypeOK, TypeSub, SubPC, Admit, SubGoto
  <2> QED BY <1>1, <2>1, <2>2, FrameStore, FrameWatch, FrameIntr,
       FrameClaude, FrameEnv DEF TypeInv, TypeOK, Admit, envVars
<1>2. ASSUME NEW t \in Turns, SubmitReject(t) PROVE TypeInv'
  <2>1. TypeSub'
    BY <1>2 DEF TypeInv, TypeOK, TypeSub, SubPC, SubmitReject, SubGoto
  <2> QED BY <1>2, <2>1, FrameMgr, FrameStore, FrameWatch, FrameIntr,
       FrameClaude, FrameEnv DEF TypeInv, TypeOK, SubmitReject, envVars
<1>3. ASSUME NEW t \in Turns, SubmitReserve(t) PROVE TypeInv'
  <2>1. TypeMgr'
    BY <1>3 DEF TypeInv, TypeOK, TypeMgr, TurnOrNone, SubmitReserve
  <2>2. TypeStore'
    BY <1>3 DEF TypeInv, TypeOK, TypeStore, RecState, SubmitReserve
  <2>3. TypeSub'
    BY <1>3, ConstantsAssumption DEF TypeInv, TypeOK, TypeSub, SubPC,
         TypeMgr, Procs, Writer, ConstantsAssumption, SubmitReserve
  <2> QED BY <1>3, <2>1, <2>2, <2>3, FrameWatch, FrameIntr, FrameClaude,
       FrameEnv DEF TypeInv, TypeOK, SubmitReserve, envVars
<1>4. ASSUME NEW t \in Turns, SubmitPaste(t) PROVE TypeInv'
  <2>1. TypeSub'
    BY <1>4 DEF TypeInv, TypeOK, TypeSub, SubPC, SubmitPaste, SubGoto
  <2>2. TypeClaude'
    BY <1>4, Keystrokes DEF TypeInv, TypeOK, TypeClaude, TypeSub, TurnOrNone,
         SubmitPaste
  <2> QED BY <1>4, <2>1, <2>2, FrameMgr, FrameStore, FrameWatch, FrameIntr,
       FrameEnv DEF TypeInv, TypeOK, SubmitPaste
<1>5. ASSUME NEW t \in Turns, SubmitEnter(t) PROVE TypeInv'
  <2>1. TypeSub'
    BY <1>5 DEF TypeInv, TypeOK, TypeSub, SubPC, SubmitEnter, SubGoto
  <2>2. TypeClaude'
    BY <1>5, Keystrokes DEF TypeInv, TypeOK, TypeClaude, TypeSub, SubmitEnter
  <2> QED BY <1>5, <2>1, <2>2, FrameMgr, FrameStore, FrameWatch, FrameIntr,
       FrameEnv DEF TypeInv, TypeOK, SubmitEnter
<1>6. ASSUME NEW t \in Turns, SubmitArm(t) PROVE TypeInv'
  <2>1. TypeMgr'
    BY <1>6 DEF TypeInv, TypeOK, TypeMgr, TurnOrNone, SubmitArm
  <2>2. TypeSub'
    BY <1>6 DEF TypeInv, TypeOK, TypeSub, SubPC, SubmitArm, SubGoto
  <2> QED BY <1>6, <2>1, <2>2, FrameStore, FrameWatch, FrameIntr,
       FrameClaude, FrameEnv DEF TypeInv, TypeOK, SubmitArm, envVars
<1>7. ASSUME NEW t \in Turns, failSubmitWrite(t) PROVE TypeInv'
  <2>1. TypeMgr'
    BY <1>7 DEF TypeInv, TypeOK, TypeMgr, TurnOrNone, failSubmitWrite,
         Resolve
  <2>2. TypeStore'
    BY <1>7 DEF TypeInv, TypeOK, TypeStore, RecState, TypeMgr, TurnOrNone,
         Terminal, failSubmitWrite, Resolve
  <2>3. TypeSub'
    BY <1>7 DEF TypeInv, TypeOK, TypeSub, SubPC, failSubmitWrite, SubGoto
  <2> QED BY <1>7, <2>1, <2>2, <2>3, FrameWatch, FrameIntr, FrameClaude,
       FrameEnv DEF TypeInv, TypeOK, failSubmitWrite, envVars
<1>8. ASSUME NEW t \in Turns, CompleteReject(t) PROVE TypeInv'
  <2>1. TypeEnv'
    BY <1>8, ConstantsAssumption DEF TypeInv, TypeOK, TypeEnv,
         ConstantsAssumption, CompleteReject
  <2> QED BY <1>8, <2>1, FrameMgr, FrameStore, FrameSub, FrameWatch,
       FrameIntr, FrameClaude DEF TypeInv, TypeOK, CompleteReject, goVars
<1>9. ASSUME NEW t \in Turns, Complete(t) PROVE TypeInv'
  <2>1. TypeMgr'
    BY <1>9 DEF TypeInv, TypeOK, TypeMgr, TurnOrNone, Complete, Resolve
  <2>2. TypeStore'
    BY <1>9 DEF TypeInv, TypeOK, TypeStore, RecState, TypeMgr, TurnOrNone,
         Complete, Resolve, fireDone
  <2>3. TypeEnv'
    BY <1>9, ConstantsAssumption DEF TypeInv, TypeOK, TypeEnv,
         ConstantsAssumption, Complete
  <2> QED BY <1>9, <2>1, <2>2, <2>3, FrameSub, FrameWatch, FrameIntr,
       FrameClaude DEF TypeInv, TypeOK, Complete, goVars
<1>10. ASSUME NEW t \in Turns, HookLost(t) PROVE TypeInv'
  <2>1. TypeEnv'
    BY <1>10, ConstantsAssumption DEF TypeInv, TypeOK, TypeEnv,
         ConstantsAssumption, HookLost
  <2> QED BY <1>10, <2>1, FrameMgr, FrameStore, FrameSub, FrameWatch,
       FrameIntr, FrameClaude DEF TypeInv, TypeOK, HookLost, goVars
<1>11. ASSUME NEW p \in Procs, WatchExit(p) PROVE TypeInv'
  <2>1. TypeMgr'
    BY <1>11 DEF TypeInv, TypeOK, TypeMgr, TurnOrNone, WatchExit
  <2>2. TypeWatch'
    BY <1>11 DEF TypeInv, TypeOK, TypeWatch, TypeMgr, WatchPC, WatchExit,
         WatchGoto, WatchStay
  <2>3. SwapBound'
    BY <1>11 DEF TypeInv, TypeOK, TypeWatch, SwapBound, Procs, WatchExit,
         WatchGoto, WatchStay
  <2> QED BY <1>11, <2>1, <2>2, <2>3, FrameStore, FrameSub, FrameIntr,
       FrameClaude, FrameEnv DEF TypeInv, TypeOK, WatchExit, envVars
<1>12. ASSUME NEW p \in Procs, WatchSpawn(p) PROVE TypeInv'
  <2>0. shouldResume \in BOOLEAN
    BY DEF shouldResume
  <2>1. TypeMgr'
    BY <1>12 DEF TypeInv, TypeOK, TypeMgr, TurnOrNone, WatchSpawn
  <2>2. TypeWatch'
    BY <1>12, <2>0 DEF TypeInv, TypeOK, TypeWatch, WatchPC, WatchSpawn,
         WatchGoto, WatchStay
  <2>3. TypeClaude'
    BY <1>12, <2>0, ConstantsAssumption, Keystrokes DEF TypeInv, TypeOK,
         TypeClaude, Procs, Writer, ConstantsAssumption, WatchSpawn
  <2>4. SwapBound'
    BY <1>12 DEF TypeInv, TypeOK, TypeWatch, SwapBound, Procs, WatchSpawn,
         WatchGoto, WatchStay
  <2> QED BY <1>12, <2>1, <2>2, <2>3, <2>4, FrameStore, FrameSub, FrameIntr,
       FrameEnv DEF TypeInv, TypeOK, WatchSpawn
<1>13. ASSUME NEW p \in Procs, WatchSwap(p) PROVE TypeInv'
  <2>0. NoProcess \in ClaudeType /\ p + 1 \in Procs
    BY <1>13, ConstantsAssumption, Keystrokes DEF ConstantsAssumption,
       TypeInv, TypeOK, SwapBound, Procs, WatchSwap
  <2>1. TypeMgr'
    BY <1>13, ConstantsAssumption DEF TypeInv, TypeOK, TypeMgr, TurnOrNone,
         SwapBound, Procs, ConstantsAssumption, WatchSwap
  <2>2. TypeWatch'
    BY <1>13 DEF TypeInv, TypeOK, TypeWatch, WatchPC, WatchSwap, WatchGoto,
         WatchStay
  <2>3. TypeClaude'
    BY <1>13, <2>0 DEF TypeInv, TypeOK, TypeClaude, WatchSwap
  <2>4. SwapBound'
    BY <1>13 DEF TypeInv, TypeOK, TypeWatch, SwapBound, Procs, WatchSwap,
         WatchGoto, WatchStay
  <2> QED BY <1>13, <2>1, <2>2, <2>3, <2>4, FrameStore, FrameSub, FrameIntr,
       FrameEnv DEF TypeInv, TypeOK, WatchSwap
<1>14. ASSUME NEW p \in Procs, WatchClose(p) PROVE TypeInv'
  <2>1. TypeWatch'
    BY <1>14 DEF TypeInv, TypeOK, TypeWatch, WatchPC, BootPC, Procs,
         WatchClose, WatchHandedOver, WatchStay
  <2>2. TypeClaude'
    BY <1>14 DEF TypeInv, TypeOK, TypeClaude, Procs, WatchClose
  <2>3. SwapBound'
    BY <1>14 DEF TypeInv, TypeOK, TypeWatch, SwapBound, Procs, WatchClose,
         WatchHandedOver, WatchStay
  <2> QED BY <1>14, <2>1, <2>2, <2>3, FrameMgr, FrameStore, FrameSub,
       FrameIntr, FrameEnv DEF TypeInv, TypeOK, WatchClose
<1>15. ASSUME NEW p \in Procs, WatchResume(p) PROVE TypeInv'
  <2>0. /\ ResumeMode(p) \in {"paste", "finish", "nudge"}
        /\ tr.turn \in TurnOrNone /\ proc \in Writer
    BY ConstantsAssumption DEF ConstantsAssumption, ResumeMode, TypeInv,
       TypeOK, TypeClaude, TypeMgr, Procs, Writer
  <2>1. TypeWatch'
    BY <1>15, <2>0 DEF TypeInv, TypeOK, TypeWatch, WatchPC, WatchResume,
         WatchGoto, WatchStay
  <2>2. SwapBound'
    BY <1>15, <2>0 DEF TypeInv, TypeOK, TypeWatch, SwapBound, Procs,
         WatchResume, WatchGoto, WatchStay
  <2> QED BY <1>15, <2>1, <2>2, FrameMgr, FrameStore, FrameSub, FrameIntr,
       FrameClaude, FrameEnv DEF TypeInv, TypeOK, WatchResume, envVars
<1>16. ASSUME NEW p \in Procs, WatchPaste(p) PROVE TypeInv'
  <2>1. TypeWatch'
    BY <1>16 DEF TypeInv, TypeOK, TypeWatch, WatchPC, WatchPaste, WatchGoto,
         WatchStay
  <2>2. TypeClaude'
    BY <1>16, Keystrokes DEF TypeInv, TypeOK, TypeClaude, TypeWatch,
         WatchPaste
  <2>3. SwapBound'
    BY <1>16 DEF TypeInv, TypeOK, TypeWatch, SwapBound, Procs, WatchPaste,
         WatchGoto, WatchStay
  <2> QED BY <1>16, <2>1, <2>2, <2>3, FrameMgr, FrameStore, FrameSub,
       FrameIntr, FrameEnv DEF TypeInv, TypeOK, WatchPaste
<1>17. ASSUME NEW p \in Procs, WatchEnter(p) PROVE TypeInv'
  <2>1. TypeWatch'
    BY <1>17 DEF TypeInv, TypeOK, TypeWatch, WatchPC, WatchEnter, WatchGoto,
         WatchStay
  <2>2. TypeClaude'
    BY <1>17, Keystrokes DEF TypeInv, TypeOK, TypeClaude, TypeWatch,
         WatchEnter
  <2>3. SwapBound'
    BY <1>17 DEF TypeInv, TypeOK, TypeWatch, SwapBound, Procs, WatchEnter,
         WatchGoto, WatchStay
  <2> QED BY <1>17, <2>1, <2>2, <2>3, FrameMgr, FrameStore, FrameSub,
       FrameIntr, FrameEnv DEF TypeInv, TypeOK, WatchEnter
<1>18. ASSUME NEW p \in Procs, installResumeTimer(p) PROVE TypeInv'
  <2>1. TypeMgr'
    BY <1>18 DEF TypeInv, TypeOK, TypeMgr, TurnOrNone, installResumeTimer,
         BusyIfCurrent
  <2>2. TypeWatch'
    BY <1>18 DEF TypeInv, TypeOK, TypeWatch, WatchPC, installResumeTimer,
         WatchGoto, WatchStay
  <2>3. SwapBound'
    BY <1>18 DEF TypeInv, TypeOK, TypeWatch, SwapBound, Procs,
         installResumeTimer, WatchGoto, WatchStay
  <2> QED BY <1>18, <2>1, <2>2, <2>3, FrameStore, FrameSub, FrameIntr,
       FrameClaude, FrameEnv DEF TypeInv, TypeOK, installResumeTimer, envVars
<1>19. ASSUME NEW p \in Procs, completeFromTranscript(p) PROVE TypeInv'
  <2>1. TypeMgr'
    BY <1>19 DEF TypeInv, TypeOK, TypeMgr, TurnOrNone,
         completeFromTranscript, Resolve
  <2>2. TypeStore'
    BY <1>19 DEF TypeInv, TypeOK, TypeStore, RecState, TypeMgr, TypeWatch,
         TurnOrNone, StillCurrent, completeFromTranscript, Resolve, fireDone
  <2>3. TypeWatch'
    BY <1>19 DEF TypeInv, TypeOK, TypeWatch, WatchPC, completeFromTranscript,
         WatchGoto, WatchStay
  <2>4. SwapBound'
    BY <1>19 DEF TypeInv, TypeOK, TypeWatch, SwapBound, Procs,
         completeFromTranscript, WatchGoto, WatchStay
  <2> QED BY <1>19, <2>1, <2>2, <2>3, <2>4, FrameSub, FrameIntr, FrameClaude,
       FrameEnv DEF TypeInv, TypeOK, completeFromTranscript, envVars
<1>20. ASSUME NEW p \in Procs, failTurn(p) PROVE TypeInv'
  <2>1. TypeMgr'
    BY <1>20 DEF TypeInv, TypeOK, TypeMgr, TurnOrNone, failTurn, Resolve
  <2>2. TypeStore'
    BY <1>20 DEF TypeInv, TypeOK, TypeStore, RecState, TurnOrNone,
         StillCurrent, failTurn, Resolve, fireDone
  <2>3. TypeWatch'
    BY <1>20 DEF TypeInv, TypeOK, TypeWatch, WatchPC, failTurn, WatchGoto,
         WatchStay
  <2>4. SwapBound'
    BY <1>20 DEF TypeInv, TypeOK, TypeWatch, SwapBound, Procs, failTurn,
         WatchGoto, WatchStay
  <2> QED BY <1>20, <2>1, <2>2, <2>3, <2>4, FrameSub, FrameIntr, FrameClaude,
       FrameEnv DEF TypeInv, TypeOK, failTurn, envVars
<1>21. ASSUME NEW p \in Procs, BootSee(p) PROVE TypeInv'
  <2>1. TypeWatch'
    BY <1>21 DEF TypeInv, TypeOK, TypeWatch, BootPC, BootSee, BootGoto,
         watchVars
  <2>2. SwapBound'
    BY <1>21 DEF TypeInv, TypeOK, TypeWatch, SwapBound, Procs, BootSee,
         BootGoto, watchVars
  <2> QED BY <1>21, <2>1, <2>2, FrameMgr, FrameStore, FrameSub, FrameIntr,
       FrameClaude, FrameEnv DEF TypeInv, TypeOK, BootSee, envVars
<1>22. ASSUME NEW p \in Procs, BootAccept(p) PROVE TypeInv'
  <2>1. TypeWatch'
    BY <1>22 DEF TypeInv, TypeOK, TypeWatch, BootPC, BootAccept, BootGoto,
         watchVars
  <2>2. TypeClaude'
    BY <1>22, ConstantsAssumption, Keystrokes DEF TypeInv, TypeOK,
         TypeClaude, TypeMgr, Procs, Writer, ConstantsAssumption, BootAccept
  <2>3. SwapBound'
    BY <1>22 DEF TypeInv, TypeOK, TypeWatch, SwapBound, Procs, BootAccept,
         BootGoto, watchVars
  <2> QED BY <1>22, <2>1, <2>2, <2>3, FrameMgr, FrameStore, FrameSub,
       FrameIntr, FrameEnv DEF TypeInv, TypeOK, BootAccept
<1>23. ASSUME NEW p \in Procs, BootReady(p) PROVE TypeInv'
  <2>1. TypeMgr'
    BY <1>23 DEF TypeInv, TypeOK, TypeMgr, TurnOrNone, BootReady
  <2>2. TypeWatch'
    BY <1>23 DEF TypeInv, TypeOK, TypeWatch, BootPC, BootReady, BootGoto,
         watchVars
  <2>3. SwapBound'
    BY <1>23 DEF TypeInv, TypeOK, TypeWatch, SwapBound, Procs, BootReady,
         BootGoto, watchVars
  <2> QED BY <1>23, <2>1, <2>2, <2>3, FrameStore, FrameSub, FrameIntr,
       FrameClaude, FrameEnv DEF TypeInv, TypeOK, BootReady, envVars
<1>24. ASSUME NEW p \in Procs, BootAbort(p) PROVE TypeInv'
  <2>1. TypeWatch'
    BY <1>24 DEF TypeInv, TypeOK, TypeWatch, BootPC, BootAbort, BootGoto,
         watchVars
  <2>2. SwapBound'
    BY <1>24 DEF TypeInv, TypeOK, TypeWatch, SwapBound, Procs, BootAbort,
         BootGoto, watchVars
  <2> QED BY <1>24, <2>1, <2>2, FrameMgr, FrameStore, FrameSub, FrameIntr,
       FrameClaude, FrameEnv DEF TypeInv, TypeOK, BootAbort, envVars
<1>25. ASSUME NEW i \in Interrupts, InterruptBegin(i) PROVE TypeInv'
  <2>1. TypeIntr'
    BY <1>25, ConstantsAssumption DEF TypeInv, TypeOK, TypeIntr, IntrPC,
         TypeMgr, Procs, Writer, ConstantsAssumption, InterruptBegin,
         IntrGoto
  <2> QED BY <1>25, <2>1, FrameMgr, FrameStore, FrameSub, FrameWatch,
       FrameClaude, FrameEnv DEF TypeInv, TypeOK, InterruptBegin, envVars
<1>26. ASSUME NEW i \in Interrupts, InterruptEscape(i) PROVE TypeInv'
  <2>1. TypeIntr'
    BY <1>26 DEF TypeInv, TypeOK, TypeIntr, IntrPC, InterruptEscape, IntrGoto
  <2>2. TypeClaude'
    BY <1>26, Keystrokes DEF TypeInv, TypeOK, TypeClaude, TypeIntr,
         ClaudeType, InterruptEscape
  <2> QED BY <1>26, <2>1, <2>2, FrameMgr, FrameStore, FrameSub, FrameWatch,
       FrameEnv DEF TypeInv, TypeOK, InterruptEscape
<1>27. ASSUME NEW i \in Interrupts, InterruptPoll(i) PROVE TypeInv'
  <2>1. TypeIntr'
    BY <1>27 DEF TypeInv, TypeOK, TypeIntr, IntrPC, InterruptPoll, IntrGoto
  <2> QED BY <1>27, <2>1, FrameMgr, FrameStore, FrameSub, FrameWatch,
       FrameClaude, FrameEnv DEF TypeInv, TypeOK, InterruptPoll, envVars
<1>28. ASSUME NEW i \in Interrupts, completeAfterInterrupt(i) PROVE TypeInv'
  <2>1. TypeMgr'
    BY <1>28 DEF TypeInv, TypeOK, TypeMgr, TurnOrNone,
         completeAfterInterrupt, Resolve
  <2>2. TypeStore'
    BY <1>28 DEF TypeInv, TypeOK, TypeStore, RecState, TurnOrNone,
         StillCurrent, completeAfterInterrupt, Resolve, fireDone
  <2>3. TypeIntr'
    BY <1>28 DEF TypeInv, TypeOK, TypeIntr, IntrPC, completeAfterInterrupt,
         IntrGoto
  <2> QED BY <1>28, <2>1, <2>2, <2>3, FrameSub, FrameWatch, FrameClaude,
       FrameEnv DEF TypeInv, TypeOK, completeAfterInterrupt, envVars
<1>29. ASSUME ShutdownMark PROVE TypeInv'
  <2>1. TypeMgr'
    BY <1>29 DEF TypeInv, TypeOK, TypeMgr, TurnOrNone, ShutdownMark
  <2>2. TypeIntr'
    BY <1>29 DEF TypeInv, TypeOK, TypeIntr, IntrPC, ShutdownMark, intrVars
  <2> QED BY <1>29, <2>1, <2>2, FrameStore, FrameSub, FrameWatch,
       FrameClaude, FrameEnv DEF TypeInv, TypeOK, ShutdownMark, envVars
<1>30. ASSUME ShutdownKill PROVE TypeInv'
  <2>1. TypeIntr'
    BY <1>30 DEF TypeInv, TypeOK, TypeIntr, IntrPC, ShutdownKill, intrVars
  <2>2. TypeClaude'
    BY <1>30, Keystrokes DEF TypeInv, TypeOK, TypeClaude, TypeMgr,
         ShutdownKill
  <2> QED BY <1>30, <2>1, <2>2, FrameMgr, FrameStore, FrameSub, FrameWatch,
       FrameEnv DEF TypeInv, TypeOK, ShutdownKill
<1>31. ASSUME TailerDiscover PROVE TypeInv'
  <2>1. TypeMgr'
    BY <1>31 DEF TypeInv, TypeOK, TypeMgr, TurnOrNone, TailerDiscover
  <2> QED BY <1>31, <2>1, FrameStore, FrameSub, FrameWatch, FrameIntr,
       FrameClaude, FrameEnv DEF TypeInv, TypeOK, TailerDiscover, goVars,
       envVars
<1>32. ASSUME ClaudePersist PROVE TypeInv'
  <2>1. TypeClaude'
    BY <1>32 DEF TypeInv, TypeOK, TypeClaude, ClaudeType, ClaudePersist
  <2> QED BY <1>32, <2>1, FrameMgr, FrameStore, FrameSub, FrameWatch,
       FrameIntr, FrameEnv DEF TypeInv, TypeOK, ClaudePersist, goVars
<1>33. ASSUME ClaudeAnswer PROVE TypeInv'
  <2>1. TypeClaude'
    BY <1>33 DEF TypeInv, TypeOK, TypeClaude, ClaudeType, Claude, TurnOrNone,
         ClaudeAnswer
  <2>2. TypeEnv'
    BY <1>33, ConstantsAssumption DEF TypeInv, TypeOK, TypeEnv, TypeClaude,
         ClaudeType, TurnOrNone, ConstantsAssumption, ClaudeAnswer
  <2> QED BY <1>33, <2>1, <2>2, FrameMgr, FrameStore, FrameSub, FrameWatch,
       FrameIntr DEF TypeInv, TypeOK, ClaudeAnswer, goVars
<1>34. ASSUME ClaudeDequeue PROVE TypeInv'
  <2>1. TypeClaude'
    BY <1>34 DEF TypeInv, TypeOK, TypeClaude, ClaudeType, Claude, TurnOrNone,
         ClaudeDequeue
  <2> QED BY <1>34, <2>1, FrameMgr, FrameStore, FrameSub, FrameWatch,
       FrameIntr, FrameEnv DEF TypeInv, TypeOK, ClaudeDequeue, goVars
<1>35. ASSUME ClaudeCrash PROVE TypeInv'
  <2>1. TypeClaude'
    BY <1>35, Keystrokes DEF TypeInv, TypeOK, TypeClaude, ClaudeCrash
  <2>2. TypeEnv'
    BY <1>35, ConstantsAssumption DEF TypeInv, TypeOK, TypeEnv,
         ConstantsAssumption, ClaudeCrash
  <2> QED BY <1>35, <2>1, <2>2, FrameMgr, FrameStore, FrameSub, FrameWatch,
       FrameIntr DEF TypeInv, TypeOK, ClaudeCrash, goVars
<1>36. ASSUME ClaudeNoConversation PROVE TypeInv'
  <2>1. TypeClaude'
    BY <1>36, Keystrokes DEF TypeInv, TypeOK, TypeClaude,
         ClaudeNoConversation
  <2> QED BY <1>36, <2>1, FrameMgr, FrameStore, FrameSub, FrameWatch,
       FrameIntr, FrameEnv DEF TypeInv, TypeOK, ClaudeNoConversation, goVars
<1>37. ASSUME ClockTick PROVE TypeInv'
  <2>1. TypeEnv'
    BY <1>37 DEF TypeInv, TypeOK, TypeEnv, ClockTick
  <2> QED BY <1>37, <2>1, FrameMgr, FrameStore, FrameSub, FrameWatch,
       FrameIntr, FrameClaude DEF TypeInv, TypeOK, ClockTick, goVars
<1>38. ASSUME UNCHANGED vars PROVE TypeInv'
  BY <1>38, FrameMgr, FrameStore, FrameSub, FrameWatch, FrameIntr,
     FrameClaude, FrameEnv DEF TypeInv, TypeOK, vars, goVars, envVars
<1> QED
  BY <1>1, <1>2, <1>3, <1>4, <1>5, <1>6, <1>7, <1>8, <1>9, <1>10, <1>11,
     <1>12, <1>13, <1>14, <1>15, <1>16, <1>17, <1>18, <1>19, <1>20, <1>21,
     <1>22, <1>23, <1>24, <1>25, <1>26, <1>27, <1>28, <1>29, <1>30, <1>31,
     <1>32, <1>33, <1>34, <1>35, <1>36, <1>37, <1>38 DEF Next, SubmitStep,
     HookStep, WatchStep, BootStep, InterruptStep, ClaudeStep

\* Every variable keeps its type, whatever crashes or gets lost.
THEOREM TypeCorrect == Spec => []TypeOK
<1>1. Init => TypeInv
  BY TypeInit
<1>2. TypeInv /\ [Next]_vars => TypeInv'
  BY TypeStep
<1>3. TypeInv => TypeOK
  BY DEF TypeInv
<1> QED BY <1>1, <1>2, <1>3, PTL DEF Spec

============================================================================
