-------------------------- MODULE HeartbeatProofs --------------------------
(***************************************************************************)
(* Theorems about Heartbeat, for any number of turns, probes, crashes and  *)
(* transcript lines and any timeout: a stall stamp is earned, a probe is   *)
(* counted once, and probing a hung agent does not make it look alive.     *)
(***************************************************************************)
EXTENDS Heartbeat, TLAPS

USE BoundAssumption, TextAssumption

----------------------------------------------------------------------------
(* Types *)

\* Resetting, stopping and installing timers keeps what is left of each one
\* within the timeout.
LEMMA TimerTypes ==
  ASSUME TypeOK
  PROVE  /\ StopTimer => left' \in [Timers -> Off..TurnTimeout]
         /\ ResetTimer => left' \in [Timers -> Off..TurnTimeout]
         /\ \A k \in Timers : Install(k) =>
              /\ left' \in [Timers -> Off..TurnTimeout] /\ timer' \in Timers
              /\ stall' = 0 /\ quiet' = 0 /\ startled' \in BOOLEAN
<1>1. StopTimer => left' \in [Timers -> Off..TurnTimeout]
  BY DEF TypeOK, StopTimer, Off
<1>2. ResetTimer => left' \in [Timers -> Off..TurnTimeout]
  <2> SUFFICES ASSUME ResetTimer PROVE left' \in [Timers -> Off..TurnTimeout]
    OBVIOUS
  <2>1. \A k \in Timers : left'[k] \in {left[k], TurnTimeout}
    BY DEF TypeOK, ResetTimer
  <2>2. left' = [k \in Timers |-> left'[k]]
    BY DEF TypeOK, ResetTimer
  <2>3. \A k \in Timers : left[k] \in Off..TurnTimeout
    BY DEF TypeOK
  <2>4. TurnTimeout \in Off..TurnTimeout
    BY DEF Off
  <2>5. \A k \in Timers : left'[k] \in Off..TurnTimeout
    BY <2>1, <2>3, <2>4
  <2> QED BY <2>2, <2>5
<1>3. ASSUME NEW k \in Timers, Install(k)
      PROVE  /\ left' \in [Timers -> Off..TurnTimeout] /\ timer' \in Timers
             /\ stall' = 0 /\ quiet' = 0
  BY <1>3 DEF TypeOK, Install, FreshBudget, Off
<1>4. ASSUME NEW k \in Timers, Install(k) PROVE startled' \in BOOLEAN
  BY <1>4, Zenon DEF Install, FreshBudget
<1> QED BY <1>1, <1>2, <1>3, <1>4

\* Ending a turn or a probe.
LEMMA EndTypes ==
  ASSUME TypeOK
  PROVE  /\ clearCurrentLocked => current' \in 0..MaxTurns /\ stall' \in 0..MaxTurns
         /\ finishLocked => outcomes' \in [Probes -> Nat]
<1>1. clearCurrentLocked => current' \in 0..MaxTurns /\ stall' \in 0..MaxTurns
  BY DEF clearCurrentLocked
<1>2. finishLocked => outcomes' \in [Probes -> Nat]
  BY DEF TypeOK, finishLocked, Unfinished, Probes
<1> QED BY <1>1, <1>2

\* What claude writes is a line.
LEMMA LineTypes ==
  ASSUME TypeOK, NEW l \in LineType, Writes(l)
  PROVE  lines' \in Seq(LineType)
BY DEF TypeOK, Writes

\* A step of a turn keeps every type.
LEMMA TurnTypes ==
  ASSUME TypeOK, NEW t \in Turns, TurnStep(t)
  PROVE  TypeOK'
<1>1. <<t, "submit">> \in Timers /\ <<t, "resume">> \in Timers /\ t \in 0..MaxTurns
  BY DEF Timers, Turns
<1>2. CASE Submit(t)
  <2>1. overtaken' \in BOOLEAN /\ startled' \in BOOLEAN
    BY <1>2, Zenon DEF Submit
  <2>2. /\ current' \in 0..MaxTurns /\ lastTurn' \in 0..MaxTurns /\ quiet' \in 0..TurnTimeout
        /\ sub' \in [Turns -> {"off", "writing", "done"}]
    BY <1>1, <1>2 DEF TypeOK, Submit
  <2> QED BY <1>2, <2>1, <2>2 DEF TypeOK, Submit, timerVars, probeVars, claudeVars
<1>3. CASE SubmitArm(t)
  <2>1. /\ left' \in [Timers -> Off..TurnTimeout] /\ timer' \in Timers
        /\ stall' = 0 /\ quiet' = 0 /\ startled' \in BOOLEAN
    BY <1>1, <1>3, TimerTypes DEF SubmitArm
  <2>2. overtaken' \in BOOLEAN
    BY <1>3, Zenon DEF SubmitArm
  <2>3. sub' \in [Turns -> {"off", "writing", "done"}]
    BY <1>3 DEF TypeOK, SubmitArm
  <2> QED BY <1>3, <2>1, <2>2, <2>3 DEF TypeOK, SubmitArm, probeVars, claudeVars
<1>4. CASE SubmitFails(t)
  BY <1>1, <1>4, EndTypes DEF TypeOK, SubmitFails, probeVars, claudeVars, ghostVars
<1>5. CASE TurnEnds(t)
  BY <1>1, <1>5, EndTypes, TimerTypes DEF TypeOK, TurnEnds, probeVars, claudeVars, ghostVars
<1>6. CASE installResumeTimer(t)
  <2>1. /\ left' \in [Timers -> Off..TurnTimeout] /\ timer' \in Timers
        /\ stall' = 0 /\ quiet' = 0 /\ startled' \in BOOLEAN
    BY <1>1, <1>6, TimerTypes DEF installResumeTimer
  <2> QED BY <1>6, <2>1 DEF TypeOK, installResumeTimer, probeVars, claudeVars
<1> QED BY <1>2, <1>3, <1>4, <1>5, <1>6 DEF TurnStep

\* So do the timers.
LEMMA ClockTypes ==
  ASSUME TypeOK, Tick \/ \E k \in Timers : markStallSuspected(k)
  PROVE  TypeOK'
<1>1. CASE Tick
  BY <1>1 DEF TypeOK, Tick, turnVars, probeVars, claudeVars, Off
<1>2. ASSUME NEW k \in Timers, markStallSuspected(k) PROVE TypeOK'
  <2>1. k[1] \in 0..MaxTurns
    BY DEF Timers, Turns
  <2>2. rung' \subseteq Timers /\ stall' \in 0..MaxTurns /\ left' \in [Timers -> Off..TurnTimeout]
    BY <1>2, <2>1, TimerTypes DEF TypeOK, markStallSuspected
  <2> QED BY <1>2, <2>2 DEF TypeOK, markStallSuspected, turnVars, probeVars, claudeVars, ghostVars
<1> QED BY <1>1, <1>2

\* So do the probes and Shutdown.
LEMMA ProbeTypes ==
  ASSUME TypeOK, (\E p \in Probes : ProbeStep(p)) \/ Shutdown \/ ShutdownCloses
  PROVE  TypeOK'
<1>1. ASSUME NEW p \in Probes, ProbeStep(p) PROVE TypeOK'
  <2>1. p \in 0..MaxProbes /\ Line("enqueue", Text(p)) \in LineType
    BY DEF Probes, Line, LineType
  <2>2. CASE ProbeRefused(p)
    BY <2>2 DEF TypeOK, ProbeRefused, ProbeGoto, turnVars, timerVars, claudeVars, ghostVars
  <2>3. CASE Register(p)
    BY <2>1, <2>3, EndTypes DEF TypeOK, Register, ProbeGoto, turnVars, timerVars, claudeVars
  <2>4. CASE ProbeWrites(p)
    <3>1. lines' \in Seq(LineType)
      BY <2>1, <2>4, LineTypes DEF ProbeWrites, TypeOK
    <3> QED BY <2>4, <3>1 DEF TypeOK, ProbeWrites, ProbeGoto, turnVars, timerVars, ghostVars
  <2>5. CASE Discard(p)
    BY <2>1, <2>5 DEF TypeOK, Discard, ProbeGoto, turnVars, timerVars, claudeVars, ghostVars
  <2> QED BY <1>1, <2>2, <2>3, <2>4, <2>5 DEF ProbeStep
<1>2. CASE Shutdown
  <2>1. lines' \in Seq(LineType)
    BY <1>2 DEF Shutdown
  <2> QED BY <1>2, <2>1, EndTypes DEF TypeOK, Shutdown, timerVars, claudeVars, ghostVars
<1>3. CASE ShutdownCloses
  BY <1>3 DEF TypeOK, ShutdownCloses, timerVars, probeVars, ghostVars
<1> QED BY <1>1, <1>2, <1>3

\* So do claude and the tailer.
LEMMA AgentTypes ==
  ASSUME TypeOK, ClaudeStep \/ processLine
  PROVE  TypeOK'
<1>1. CASE Crash
  <2>1. left' \in [Timers -> Off..TurnTimeout] /\ crashes' \in 0..MaxCrashes
    BY <1>1, TimerTypes DEF TypeOK, Crash
  <2>2. hung' \in BOOLEAN
    BY <1>1, Zenon DEF Crash
  <2> QED BY <1>1, <2>1, <2>2 DEF TypeOK, Crash, probeVars, ghostVars
<1>2. CASE ClaudeHangs
  BY <1>2 DEF TypeOK, ClaudeHangs, ClaudeStay, turnVars, timerVars, probeVars, ghostVars
<1>3. CASE ClaudeWorks \/ ClaudeTakes \/ ClaudeAnswers
  <2>1. \A s \in {"work", "removal", "answer"} : Line(s, 0) \in LineType
    BY DEF Line, LineType
  <2>2. lines' \in Seq(LineType)
    BY <1>3, <2>1, LineTypes DEF ClaudeWorks, ClaudeTakes, ClaudeAnswers
  <2>3. queued' \in Nat /\ answering' \in Nat /\ worked' \in 0..MaxLines
    BY <1>3 DEF TypeOK, ClaudeWorks, ClaudeTakes, ClaudeAnswers
  <2>4. ClaudeStay /\ UNCHANGED hung
    BY <1>3 DEF ClaudeWorks, ClaudeTakes, ClaudeAnswers
  <2> QED BY <2>2, <2>3, <2>4 DEF TypeOK, ClaudeStay, turnVars, timerVars, probeVars, ghostVars
<1>4. CASE processLine
  <2>1. lines' \in Seq(LineType)
    BY <1>4 DEF TypeOK, processLine
  <2>2. /\ left' \in [Timers -> Off..TurnTimeout] /\ stall' \in 0..MaxTurns
        /\ quiet' \in 0..TurnTimeout /\ startled' \in BOOLEAN
    <3>1. onTailerActivity(Head(lines))
      BY <1>4 DEF processLine
    <3>2. startled' \in BOOLEAN
      BY <3>1, Zenon DEF TypeOK, onTailerActivity, FreshBudget
    <3>3. CASE FreshBudget(timer) /\ ResetTimer
      BY <3>2, <3>3, TimerTypes DEF FreshBudget
    <3>4. CASE UNCHANGED <<stall, quiet, left, startled>>
      BY <3>2, <3>4 DEF TypeOK
    <3> QED BY <3>1, <3>3, <3>4 DEF onTailerActivity
  <2>3. probeState' \in {"pending", "delivered", "answered"} /\ outcomes' \in [Probes -> Nat]
    BY <1>4, EndTypes
    DEF TypeOK, processLine, processQueueOperation, NoteRemoval, NoteAssistantText
  <2> QED BY <1>4, <2>1, <2>2, <2>3 DEF TypeOK, processLine, turnVars, claudeVars
<1> QED BY <1>1, <1>2, <1>3, <1>4 DEF ClaudeStep

\* The types hold at the start and every step keeps them.
LEMMA InitTypes == Init => TypeOK
<1> SUFFICES ASSUME Init PROVE TypeOK
  OBVIOUS
<1>1. /\ sub \in [Turns -> {"off", "writing", "done"}] /\ left \in [Timers -> Off..TurnTimeout]
      /\ outcomes \in [Probes -> Nat]
      /\ call \in [Probes -> {"off", "write", "sent", "failed", "refused"}]
  BY DEF Init, Off
<1>2. hung \in BOOLEAN /\ overtaken \in BOOLEAN /\ startled \in BOOLEAN
  BY Zenon DEF Init
<1>3. lines \in Seq(LineType)
  BY DEF Init
<1> QED BY <1>1, <1>2, <1>3 DEF Init, TypeOK

LEMMA StepTypes == TypeOK /\ [Next]_vars => TypeOK'
<1> SUFFICES ASSUME TypeOK, [Next]_vars PROVE TypeOK'
  OBVIOUS
<1>1. CASE Next
  BY <1>1, TurnTypes, ClockTypes, ProbeTypes, AgentTypes DEF Next
<1>2. CASE UNCHANGED vars
  BY <1>2 DEF TypeOK, vars, turnVars, timerVars, probeVars, claudeVars, ghostVars
<1> QED BY <1>1, <1>2

\* Every variable of the timer, the probe tracker, claude's queue and the
\* transcript keeps its type (session.go markStallSuspected, probe.go).
THEOREM TypeCorrect == Spec => []TypeOK
<1> QED BY InitTypes, StepTypes, PTL DEF Spec

----------------------------------------------------------------------------
(* A probe is counted once *)

\* What the tracker and the calls know of each other: a call that has not
\* registered its probe has no outcome to answer for, and the tracked probe
\* is one whose write did not fail.
CallsTell ==
  /\ \A p \in Probes : call[p] \in {"off", "refused"} => outcomes[p] = 0 /\ p \notin late
  /\ cur # 0 => call[cur] \in {"write", "sent"}
ProbeInv == TypeOK /\ CallsTell /\ OneOutcome

\* Finishing the tracked probe gives it its outcome and no other probe one.
LEMMA FinishCounts ==
  ASSUME ProbeInv, finishLocked, NEW p \in Probes
  PROVE  /\ outcomes'[p] = IF p = cur /\ outcomes[p] = 0 THEN 1 ELSE outcomes[p]
         /\ outcomes'[p] <= 1 /\ (p = cur => outcomes'[p] = 1)
<1>1. outcomes \in [Probes -> Nat] /\ outcomes[p] <= 1 /\ outcomes[p] \in Nat
  BY DEF ProbeInv, TypeOK, OneOutcome
<1>2. p # 0
  BY DEF Probes
<1> QED BY <1>1, <1>2 DEF finishLocked, Unfinished

\* What the other components do leaves the tracker and the calls alone.
LEMMA ProbesAside ==
  ASSUME ProbeInv, TypeOK', UNCHANGED <<probeVars, late>>, Running => Running'
  PROVE  ProbeInv'
BY DEF ProbeInv, CallsTell, OneOutcome, probeVars, Running

\* The steps of a probe.
LEMMA ProbeCounts ==
  ASSUME ProbeInv, TypeOK', NEW p \in Probes, ProbeStep(p)
  PROVE  ProbeInv'
<1> USE DEF Probes
<1>1. /\ outcomes \in [Probes -> Nat] /\ call \in [Probes -> {"off", "write", "sent", "failed", "refused"}]
      /\ p # 0 /\ cur \in Nat /\ (cur # 0 => cur \in Probes)
  <2>1. TypeOK
    BY DEF ProbeInv
  <2>2. cur \in Nat /\ (cur # 0 => cur \in Probes)
    BY <2>1 DEF TypeOK
  <2>3. p # 0
    OBVIOUS
  <2>4. outcomes \in [Probes -> Nat] /\ call \in [Probes -> {"off", "write", "sent", "failed", "refused"}]
    BY <2>1, Zenon DEF TypeOK
  <2> QED BY <2>2, <2>3, <2>4, Zenon
<1>2. CASE ProbeRefused(p)
  BY <1>1, <1>2 DEF ProbeInv, CallsTell, OneOutcome, ProbeRefused, NextProbe, ProbeGoto, turnVars,
                    ghostVars, Running
<1>3. CASE Register(p)
  <2>1. /\ call[p] = "off" /\ call' = [call EXCEPT ![p] = "write"] /\ cur' = p
        /\ session' = session /\ late' = IF Running THEN late ELSE late \cup {p}
    BY <1>3 DEF ProbeInv, TypeOK, Register, NextProbe, ProbeGoto, turnVars, Running
  <2>2. cur # p
    BY <1>1, <2>1 DEF ProbeInv, CallsTell
  <2>3. \A q \in Probes : /\ outcomes'[q] <= 1 /\ (q = cur => outcomes'[q] = 1)
                          /\ (q # cur => outcomes'[q] = outcomes[q])
    BY <1>3, FinishCounts DEF Register
  <2>4. CallsTell'
    BY <1>1, <2>1, <2>2, <2>3 DEF ProbeInv, CallsTell
  <2>5. OneOutcome'
    BY <1>1, <2>1, <2>2, <2>3 DEF ProbeInv, OneOutcome, Running
  <2> QED BY <2>4, <2>5 DEF ProbeInv
<1>4. CASE ProbeWrites(p)
  BY <1>1, <1>4 DEF ProbeInv, CallsTell, OneOutcome, ProbeWrites, ProbeGoto, turnVars, ghostVars, Running
<1>5. CASE Discard(p)
  BY <1>1, <1>5 DEF ProbeInv, CallsTell, OneOutcome, Discard, ProbeGoto, turnVars, ghostVars, Running
<1> QED BY <1>2, <1>3, <1>4, <1>5 DEF ProbeStep

\* Finalize at shutdown, and the answer the tailer reads.
LEMMA FinishKeeps ==
  ASSUME ProbeInv, TypeOK', finishLocked, UNCHANGED <<cur, call, late>>, Running
  PROVE  ProbeInv'
<1>1. \A q \in Probes : /\ outcomes'[q] <= 1 /\ (q = cur => outcomes'[q] = 1)
                        /\ (q # cur => outcomes'[q] = outcomes[q])
  BY FinishCounts
<1>2. CallsTell'
  <2>1. \A q \in Probes : call[q] \in {"off", "refused"} => q # cur
    BY DEF ProbeInv, CallsTell, Probes
  <2>2. CallsTell
    BY DEF ProbeInv
  <2>3. \A q \in Probes : call'[q] \in {"off", "refused"} => outcomes'[q] = 0 /\ q \notin late'
    BY <1>1, <2>1, <2>2 DEF CallsTell
  <2> QED BY <2>2, <2>3 DEF CallsTell
<1>3. OneOutcome'
  BY <1>1 DEF ProbeInv, OneOutcome
<1> QED BY <1>2, <1>3 DEF ProbeInv

\* ccw_probe_outcomes_total counts every probe exactly once, whatever
\* supersedes, answers or finalises it (probe.go finishLocked, Register,
\* Finalize).
THEOREM ProbesCountedOnce == Spec => []OneOutcome
<1>1. Init => ProbeInv
  <2>1. Init => TypeOK
    BY InitTypes
  <2> QED BY <2>1 DEF Init, ProbeInv, CallsTell, OneOutcome, Running
<1>2. ProbeInv /\ [Next]_vars => ProbeInv'
  <2> SUFFICES ASSUME ProbeInv, [Next]_vars PROVE ProbeInv'
    OBVIOUS
  <2>1. TypeOK'
    BY StepTypes DEF ProbeInv
  <2>2. ASSUME Running, NEW t \in Turns, TurnStep(t) PROVE ProbeInv'
    <3>1. UNCHANGED <<probeVars, late>> /\ Running'
      BY <2>2 DEF TurnStep, Submit, SubmitArm, SubmitFails, TurnEnds, installResumeTimer, ghostVars, Running
    <3> QED BY <2>1, <3>1, ProbesAside
  <2>3. CASE Tick \/ \E k \in Timers : markStallSuspected(k)
    <3>1. UNCHANGED <<probeVars, late, session>>
      BY <2>3 DEF Tick, markStallSuspected, turnVars, ghostVars
    <3> QED BY <2>1, <3>1, ProbesAside DEF Running
  <2>4. CASE Running /\ ClaudeStep
    <3>1. UNCHANGED <<probeVars, late>> /\ Running'
      BY <2>4 DEF ClaudeStep, Crash, ClaudeWorks, ClaudeHangs, ClaudeTakes, ClaudeAnswers, ClaudeStay,
                  turnVars, ghostVars, Running
    <3> QED BY <2>1, <3>1, ProbesAside
  <2>5. CASE Running /\ processLine
    <3>1. UNCHANGED <<cur, call, late, session>> /\ (UNCHANGED outcomes \/ finishLocked)
      BY <2>5 DEF processLine, NoteAssistantText, processQueueOperation, NoteRemoval, turnVars
    <3>2. CASE UNCHANGED outcomes
      BY <2>1, <3>1, <3>2 DEF ProbeInv, CallsTell, OneOutcome, Running
    <3>3. CASE finishLocked
      BY <2>1, <2>5, <3>1, <3>3, FinishKeeps
    <3> QED BY <3>1, <3>2, <3>3
  <2>6. CASE Running /\ Shutdown
    BY <2>1, <2>6, FinishKeeps DEF Shutdown, ghostVars
  <2>7. CASE \E p \in Probes : ProbeStep(p)
    BY <2>1, <2>7, ProbeCounts
  <2>8. CASE ShutdownCloses
    <3>1. UNCHANGED <<probeVars, late>> /\ ~Running
      BY <2>8 DEF ShutdownCloses, ghostVars, Running
    <3> QED BY <2>1, <3>1, ProbesAside
  <2>9. CASE UNCHANGED vars
    <3>1. UNCHANGED <<probeVars, late, session>>
      BY <2>9 DEF vars, turnVars, ghostVars
    <3> QED BY <2>1, <3>1, ProbesAside DEF Running
  <2> QED BY <2>2, <2>3, <2>4, <2>5, <2>6, <2>7, <2>8, <2>9 DEF Next
<1>3. ProbeInv => OneOutcome
  BY DEF ProbeInv
<1> QED BY <1>1, <1>2, <1>3, PTL DEF Spec

----------------------------------------------------------------------------
(* A stall stamp is earned *)

\* Nothing is set up for a turn that was not submitted yet.
NoFuture ==
  /\ current <= lastTurn /\ timer[1] <= lastTurn
  /\ \A k \in Timers : k[1] > lastTurn => left[k] = Off /\ k \notin rung
  /\ \A t \in Turns : t > lastTurn => sub[t] = "off"

\* A timer of the turn in flight that has fired did so after a full timeout
\* without a sign of life, and one that runs will not fire before.
BudgetTells ==
  ~startled => \A k \in Timers : k[1] = current =>
    /\ k \in rung => quiet = TurnTimeout
    /\ left[k] # Off => quiet + left[k] >= TurnTimeout
StampInv == TypeOK /\ NoFuture /\ BudgetTells /\ StampEarned

\* The types the arithmetic below needs.
LEMMA StampTypes ==
  ASSUME TypeOK
  PROVE  /\ current \in Nat /\ lastTurn \in Nat /\ quiet \in Nat /\ quiet <= TurnTimeout
         /\ DOMAIN left = Timers /\ DOMAIN sub = Turns
         /\ \A k \in Timers : left[k] \in Nat /\ k[1] \in Nat /\ k[1] # 0
         /\ timer[1] \in Nat
<1>1. \A k \in Timers : k[1] \in Nat /\ k[1] # 0
  BY DEF Timers, Turns
<1>2. timer[1] \in Nat
  BY <1>1 DEF TypeOK, NoTimer
<1>3. \A k \in Timers : left[k] \in Nat
  BY DEF TypeOK, Off
<1> QED BY <1>1, <1>2, <1>3 DEF TypeOK

\* A turn whose time starts again has its full budget from here on.
LEMMA FreshKeeps ==
  ASSUME StampInv, NEW k \in Timers, FreshBudget(k), left' = [left EXCEPT ![k] = TurnTimeout],
         UNCHANGED <<rung, current>>
  PROVE  BudgetTells' /\ StampEarned'
<1>1. StampEarned'
  BY DEF FreshBudget, StampEarned
<1>2. ASSUME ~startled', NEW j \in Timers, j[1] = current
      PROVE  j \notin rung' /\ (left'[j] # Off => quiet' + left'[j] >= TurnTimeout)
  <2>1. j \notin rung /\ (j # k => left[j] = Off)
    BY <1>2, Zenon DEF FreshBudget
  <2>2. left'[j] = IF j = k THEN TurnTimeout ELSE left[j]
    BY StampTypes DEF StampInv
  <2>3. quiet' = 0
    BY DEF FreshBudget
  <2> QED BY <2>1, <2>2, <2>3
<1>3. BudgetTells'
  BY <1>2 DEF BudgetTells
<1> QED BY <1>1, <1>3

\* With no turn in flight there is nothing to say of its timers.
LEMMA EndKeeps ==
  ASSUME StampInv, TypeOK', clearCurrentLocked
  PROVE  BudgetTells' /\ StampEarned'
<1>1. \A k \in Timers : k[1] # current'
  BY StampTypes DEF StampInv, clearCurrentLocked
<1> QED BY <1>1 DEF clearCurrentLocked, BudgetTells, StampEarned

\* Stopping a timer, or none, breaks nothing.
LEMMA StopKeeps ==
  ASSUME StampInv, StopTimer \/ UNCHANGED left
  PROVE  \A k \in Timers : left'[k] = left[k] \/ left'[k] = Off
BY StampTypes DEF StampInv, StopTimer, TypeOK

\* The steps of a turn.
LEMMA TurnStamps ==
  ASSUME StampInv, TypeOK', NEW t \in Turns, TurnStep(t)
  PROVE  StampInv'
<1>0. /\ <<t, "submit">> \in Timers /\ <<t, "resume">> \in Timers /\ t \in Nat /\ t # 0
      /\ <<t, "submit">>[1] = t /\ <<t, "resume">>[1] = t
  BY DEF Timers, Turns
<1> USE StampTypes DEF StampInv
<1>1. CASE Submit(t)
  <2>1. /\ current = 0 /\ current' = t /\ lastTurn' = lastTurn + 1 /\ t = lastTurn + 1
        /\ UNCHANGED <<timer, left, rung, stall>>
        /\ sub' = [sub EXCEPT ![t] = "writing"]
    BY <1>1 DEF Submit, timerVars
  <2>2. NoFuture'
    BY <1>0, <2>1 DEF NoFuture
  <2>3. stall' = 0
    BY <2>1 DEF StampEarned
  <2>4. \A k \in Timers : k[1] = current' => k \notin rung' /\ left'[k] = Off
    BY <1>0, <2>1 DEF NoFuture
  <2> QED BY <2>2, <2>3, <2>4 DEF BudgetTells, StampEarned
<1>2. CASE SubmitArm(t)
  <2>1. t <= lastTurn
    BY <1>0, <1>2 DEF SubmitArm, NoFuture
  <2>2. BudgetTells' /\ StampEarned'
    BY <1>0, <1>2, FreshKeeps DEF SubmitArm, Install
  <2>3. NoFuture'
    BY <1>0, <1>2, <2>1 DEF SubmitArm, Install, NoFuture
  <2> QED BY <2>2, <2>3
<1>3. CASE SubmitFails(t)
  <2>1. NoFuture'
    BY <1>0, <1>3 DEF SubmitFails, clearCurrentLocked, NoFuture
  <2>2. BudgetTells' /\ StampEarned'
    <3>1. CASE current = t
      BY <1>3, <3>1, EndKeeps DEF SubmitFails
    <3>2. CASE current # t
      BY <1>3, <3>2 DEF SubmitFails, ghostVars, BudgetTells, StampEarned
    <3> QED BY <3>1, <3>2
  <2> QED BY <2>1, <2>2
<1>4. CASE TurnEnds(t)
  <2>1. BudgetTells' /\ StampEarned'
    BY <1>4, EndKeeps DEF TurnEnds
  <2>2. \A k \in Timers : left'[k] = left[k] \/ left'[k] = Off
    BY <1>4, StopKeeps DEF TurnEnds
  <2>3. NoFuture'
    BY <1>4, <2>2 DEF TurnEnds, clearCurrentLocked, NoFuture
  <2> QED BY <2>1, <2>3
<1>5. CASE installResumeTimer(t)
  <2>1. t <= lastTurn
    BY <1>5 DEF installResumeTimer, NoFuture
  <2>2. BudgetTells' /\ StampEarned'
    BY <1>0, <1>5, FreshKeeps DEF installResumeTimer, Install
  <2>3. NoFuture'
    BY <1>0, <1>5, <2>1 DEF installResumeTimer, Install, NoFuture
  <2> QED BY <2>2, <2>3
<1> QED BY <1>1, <1>2, <1>3, <1>4, <1>5 DEF TurnStep

\* The passage of time.
LEMMA TickStamps ==
  ASSUME StampInv, TypeOK', Tick
  PROVE  StampInv'
<1> USE StampTypes DEF StampInv
<1>1. \A k \in Timers : left'[k] = IF left[k] = Off THEN Off ELSE left[k] - 1
  BY DEF Tick
<1>2. /\ rung' = rung \cup {k \in Timers : left[k] = 1}
      /\ quiet' = IF quiet < TurnTimeout THEN quiet + 1 ELSE quiet
      /\ UNCHANGED <<current, lastTurn, sub, timer, stall, startled>>
  BY DEF Tick, turnVars
<1>3. NoFuture'
  BY <1>1, <1>2 DEF NoFuture, Off
<1>4. ASSUME ~startled', NEW k \in Timers, k[1] = current'
      PROVE  /\ k \in rung' => quiet' = TurnTimeout
             /\ left'[k] # Off => quiet' + left'[k] >= TurnTimeout
  <2>1. /\ k \in rung => quiet = TurnTimeout
        /\ left[k] # Off => quiet + left[k] >= TurnTimeout
    BY <1>2, <1>4 DEF BudgetTells
  <2>2. k \in rung' => k \in rung \/ left[k] = 1
    BY <1>2
  <2> QED BY <1>1, <1>2, <2>1, <2>2 DEF Off
<1>5. BudgetTells'
  BY <1>4 DEF BudgetTells
<1>6. StampEarned'
  BY <1>2 DEF StampEarned
<1> QED BY <1>3, <1>5, <1>6

\* The callback of a timer that fired.
LEMMA CallbackStamps ==
  ASSUME StampInv, TypeOK', NEW k \in Timers, markStallSuspected(k)
  PROVE  StampInv'
<1> USE StampTypes DEF StampInv
<1>1. /\ k \in rung /\ rung' = rung \ {k}
      /\ UNCHANGED <<current, lastTurn, sub, timer, quiet, startled>>
  BY DEF markStallSuspected, turnVars, ghostVars
<1>2. CASE InFlight(k[1]) /\ timer # NoTimer
  <2>1. /\ stall' = IF stall = 0 THEN k[1] ELSE stall
        /\ left' = [left EXCEPT ![timer] = TurnTimeout] /\ timer \in Timers
    BY <1>2 DEF markStallSuspected, ResetTimer, TypeOK
  <2>2. \A j \in Timers : left'[j] = IF j = timer THEN TurnTimeout ELSE left[j]
    BY <2>1
  <2>3. NoFuture'
    BY <1>1, <2>1, <2>2 DEF NoFuture
  <2>4. BudgetTells'
    BY <1>1, <2>2 DEF BudgetTells
  <2>5. quiet = TurnTimeout \/ startled
    BY <1>1, <1>2 DEF BudgetTells, InFlight
  <2>6. StampEarned'
    BY <1>1, <1>2, <2>1, <2>5 DEF StampEarned, InFlight
  <2> QED BY <2>3, <2>4, <2>6
<1>3. CASE ~(InFlight(k[1]) /\ timer # NoTimer)
  <2>1. UNCHANGED <<stall, left>>
    BY <1>3 DEF markStallSuspected
  <2> QED BY <1>1, <2>1 DEF NoFuture, BudgetTells, StampEarned
<1> QED BY <1>2, <1>3

\* A line the tailer reads.
LEMMA LineStamps ==
  ASSUME StampInv, TypeOK', processLine
  PROVE  StampInv'
<1> USE StampTypes DEF StampInv
<1>1. onTailerActivity(Head(lines)) /\ UNCHANGED <<current, lastTurn, sub, timer, rung>>
  BY DEF processLine, turnVars
<1>2. CASE timer # NoTimer /\ FreshBudget(timer) /\ ResetTimer
  <2>1. timer \in Timers /\ left' = [left EXCEPT ![timer] = TurnTimeout]
    BY <1>2 DEF TypeOK, ResetTimer
  <2>2. BudgetTells' /\ StampEarned'
    BY <1>1, <1>2, <2>1, FreshKeeps
  <2>3. NoFuture'
    BY <1>1, <2>1 DEF NoFuture
  <2> QED BY <2>2, <2>3
<1>3. CASE UNCHANGED <<stall, quiet, left, startled>>
  BY <1>1, <1>3 DEF NoFuture, BudgetTells, StampEarned
<1> QED BY <1>1, <1>2, <1>3 DEF onTailerActivity

\* Everything else leaves the turn, its stamp and its timers alone, or stops
\* one.
LEMMA StampsAside ==
  ASSUME StampInv, TypeOK', StopTimer \/ UNCHANGED left,
         UNCHANGED <<current, lastTurn, sub, timer, rung, stall, quiet, startled>>
  PROVE  StampInv'
<1>1. \A k \in Timers : left'[k] = left[k] \/ left'[k] = Off
  BY StopKeeps
<1> QED BY <1>1 DEF StampInv, NoFuture, BudgetTells, StampEarned

\* A stall is only ever stamped on the turn in flight, and only after a full
\* timeout in which that turn gave no sign of life, unless an older timer of
\* the same turn was still about (session.go markStallSuspected).
THEOREM StampsEarned == Spec => []StampEarned
<1>1. Init => StampInv
  <2> SUFFICES ASSUME Init PROVE StampInv
    OBVIOUS
  <2>1. TypeOK
    BY InitTypes
  <2>2. \A k \in Timers : k[1] # 0
    BY <2>1, StampTypes
  <2> QED BY <2>1, <2>2 DEF Init, StampInv, NoFuture, BudgetTells, StampEarned, NoTimer
<1>2. StampInv /\ [Next]_vars => StampInv'
  <2> SUFFICES ASSUME StampInv, [Next]_vars PROVE StampInv'
    OBVIOUS
  <2>1. TypeOK'
    BY StepTypes DEF StampInv
  <2>2. CASE \E t \in Turns : TurnStep(t)
    BY <2>1, <2>2, TurnStamps
  <2>3. CASE Tick
    BY <2>1, <2>3, TickStamps
  <2>4. CASE \E k \in Timers : markStallSuspected(k)
    BY <2>1, <2>4, CallbackStamps
  <2>5. CASE processLine
    BY <2>1, <2>5, LineStamps
  <2>6. CASE ClaudeStep \/ Shutdown \/ ShutdownCloses
    <3>1. /\ StopTimer \/ UNCHANGED left
          /\ UNCHANGED <<current, lastTurn, sub, timer, rung, stall, quiet, startled>>
      BY <2>6 DEF ClaudeStep, Crash, ClaudeWorks, ClaudeHangs, ClaudeTakes, ClaudeAnswers, ClaudeStay,
                  Shutdown, ShutdownCloses, turnVars, timerVars, ghostVars
    <3> QED BY <2>1, <3>1, StampsAside
  <2>7. CASE \E p \in Probes : ProbeStep(p)
    <3>1. UNCHANGED <<left, current, lastTurn, sub, timer, rung, stall, quiet, startled>>
      BY <2>7 DEF ProbeStep, ProbeRefused, Register, ProbeWrites, Discard, turnVars, timerVars, ghostVars
    <3> QED BY <2>1, <3>1, StampsAside
  <2>8. CASE UNCHANGED vars
    <3>1. UNCHANGED <<left, current, lastTurn, sub, timer, rung, stall, quiet, startled>>
      BY <2>8 DEF vars, turnVars, timerVars, ghostVars
    <3> QED BY <2>1, <3>1, StampsAside
  <2> QED BY <2>2, <2>3, <2>4, <2>5, <2>6, <2>7, <2>8 DEF Next
<1>3. StampInv => StampEarned
  BY DEF StampInv
<1> QED BY <1>1, <1>2, <1>3, PTL DEF Spec

----------------------------------------------------------------------------
(* Probing a hung agent does not make it look alive *)

\* Every probe asks with the same text (DefaultProbeText when a caller gives
\* none).
SameText == \A p, q \in Probes : Text(p) = Text(q)

\* A relaunched claude does not hang before it is told to go on; an enqueue
\* line belongs to a probe that was sent; and as long as no write failed, the
\* tracker has a probe to recognise it by.
SentLine(l) == l.kind = "enqueue" => \E p \in Probes : l.text = Text(p) /\ call[p] = "sent"
LinesTell ==
  /\ session = "recovering" => ~hung
  /\ \A i \in 1..Len(lines) : SentLine(lines[i])
  /\ (\A p \in Probes : call[p] # "failed") /\ (\E p \in Probes : call[p] \in {"write", "sent"})
       => cur # 0
HungInv == TypeOK /\ LinesTell

\* A call that was sent stays sent, so what a line says stays true of it.
LEMMA SentStays ==
  ASSUME HungInv, NEW l \in LineType, SentLine(l),
         \/ UNCHANGED call
         \/ \E p \in Probes, pc \in {"write", "sent", "failed", "refused"} :
              call[p] # "sent" /\ ProbeGoto(p, pc)
  PROVE  SentLine(l)'
<1> SUFFICES ASSUME l.kind = "enqueue"
             PROVE  \E p \in Probes : l.text = Text(p) /\ call'[p] = "sent"
  BY DEF SentLine
<1>1. PICK p \in Probes : l.text = Text(p) /\ call[p] = "sent"
  BY DEF SentLine
<1>2. call'[p] = "sent"
  BY <1>1 DEF HungInv, TypeOK, ProbeGoto
<1> QED BY <1>1, <1>2

\* A step of the tailer or of nobody, and one that may append l.
ReadsOrKeeps == UNCHANGED lines \/ lines' = << >> \/ (lines # << >> /\ lines' = Tail(lines))
Appends(l) == lines' = Append(lines, l)

\* The lines left after a step that appends at most a line that tells the
\* truth, or reads one.
LEMMA LinesStay ==
  ASSUME HungInv,
         \A l \in LineType : SentLine(l) => SentLine(l)',
         ReadsOrKeeps \/ \E l \in LineType : SentLine(l)' /\ Appends(l)
  PROVE  \A i \in 1..Len(lines') : SentLine(lines[i])'
<1>1. lines \in Seq(LineType) /\ \A i \in 1..Len(lines) : lines[i] \in LineType /\ SentLine(lines[i])
  BY DEF HungInv, TypeOK, LinesTell
<1> SUFFICES ASSUME NEW i \in 1..Len(lines')
             PROVE  \E l \in LineType : l = lines'[i] /\ SentLine(l)'
  BY DEF SentLine
<1>2. CASE UNCHANGED lines \/ lines' = << >>
  BY <1>1, <1>2
<1>3. CASE lines # << >> /\ lines' = Tail(lines)
  <2>1. i + 1 \in 1..Len(lines) /\ lines'[i] = lines[i + 1]
    BY <1>1, <1>3
  <2> QED BY <1>1, <2>1
<1>4. ASSUME NEW l \in LineType, SentLine(l)', lines' = Append(lines, l)
      PROVE  \E m \in LineType : m = lines'[i] /\ SentLine(m)'
  <2>1. IF i = Len(lines) + 1 THEN lines'[i] = l ELSE i \in 1..Len(lines) /\ lines'[i] = lines[i]
    BY <1>1, <1>4
  <2> QED BY <1>1, <1>4, <2>1
<1> QED BY <1>2, <1>3, <1>4 DEF ReadsOrKeeps, Appends
\* The calls of a probe.
LEMMA ProbeLines ==
  ASSUME HungInv, TypeOK', NEW p \in Probes, ProbeStep(p)
  PROVE  HungInv'
<1>1. /\ call \in [Probes -> {"off", "write", "sent", "failed", "refused"}] /\ p # 0
      /\ Line("enqueue", Text(p)) \in LineType
  <2>1. call \in [Probes -> {"off", "write", "sent", "failed", "refused"}]
    BY DEF HungInv, TypeOK
  <2>2. p # 0 /\ Line("enqueue", Text(p)) \in LineType
    BY DEF Probes, Line, LineType
  <2> QED BY <2>1, <2>2
<1>2. UNCHANGED <<session, hung>>
  BY DEF ProbeStep, ProbeRefused, Register, ProbeWrites, Discard, turnVars, claudeVars
<1>3. call[p] # "sent" /\ \E pc \in {"write", "sent", "failed", "refused"} : ProbeGoto(p, pc)
  <2>1. CASE ProbeRefused(p)
    BY <2>1 DEF ProbeRefused, NextProbe
  <2>2. CASE Register(p)
    BY <2>2 DEF Register, NextProbe
  <2>3. CASE ProbeWrites(p)
    BY <2>3 DEF ProbeWrites
  <2>4. CASE Discard(p)
    BY <2>4 DEF Discard
  <2> QED BY <2>1, <2>2, <2>3, <2>4 DEF ProbeStep
<1>4. \A l \in LineType : SentLine(l) => SentLine(l)'
  BY <1>3, SentStays
<1>5. \A i \in 1..Len(lines') : SentLine(lines[i])'
  <2>1. CASE ProbeWrites(p)
    <3>1. call'[p] = "sent"
      BY <1>1, <2>1 DEF ProbeWrites, ProbeGoto
    <3>2. SentLine(Line("enqueue", Text(p)))'
      BY <3>1 DEF SentLine, Line
    <3>3. ReadsOrKeeps \/ Appends(Line("enqueue", Text(p)))
      BY <2>1 DEF ProbeWrites, Writes, ReadsOrKeeps, Appends
    <3>4. ReadsOrKeeps \/ \E l \in LineType : SentLine(l)' /\ Appends(l)
      BY <1>1, <3>2, <3>3, Zenon
    <3> QED BY <1>4, <3>4, LinesStay, Zenon
  <2>2. CASE UNCHANGED lines
    <3>1. ReadsOrKeeps
      BY <2>2 DEF ReadsOrKeeps
    <3> QED BY <1>4, <3>1, LinesStay, Zenon
  <2> QED BY <2>1, <2>2 DEF ProbeStep, ProbeRefused, Register, Discard
<1>6. ASSUME \A q \in Probes : call'[q] # "failed", NEW q \in Probes, call'[q] \in {"write", "sent"}
      PROVE  cur' # 0
  <2>1. CASE ProbeRefused(p)
    <3>1. /\ \A r \in Probes : call[r] # "failed" /\ q # p /\ call[q] \in {"write", "sent"}
          /\ cur' = cur
      <4>1. call' = [call EXCEPT ![p] = "refused"] /\ call[p] = "off" /\ cur' = cur
        BY <2>1 DEF ProbeRefused, ProbeGoto, NextProbe
      <4> QED BY <1>1, <1>6, <4>1
    <3> QED BY <3>1 DEF HungInv, LinesTell
  <2>2. CASE Register(p)
    BY <1>1, <2>2 DEF Register
  <2>3. CASE ProbeWrites(p)
    BY <1>1, <1>6, <2>3 DEF ProbeWrites, ProbeGoto, HungInv, LinesTell
  <2>4. CASE Discard(p)
    BY <1>1, <1>6, <2>4 DEF Discard, ProbeGoto
  <2> QED BY <2>1, <2>2, <2>3, <2>4 DEF ProbeStep
<1>7. LinesTell'
  BY <1>2, <1>5, <1>6 DEF HungInv, LinesTell
<1> QED BY <1>7 DEF HungInv

\* Everyone else leaves the calls and the tracked probe alone.
LEMMA HungAside ==
  ASSUME HungInv, TypeOK', UNCHANGED <<call, cur>>,
         session' = "recovering" => ~hung',
         ReadsOrKeeps \/ \E k \in {"work", "removal", "answer"} : Appends(Line(k, 0))
  PROVE  HungInv'
<1>1. \A l \in LineType : SentLine(l) => SentLine(l)'
  BY SentStays
<1>2. \A k \in {"work", "removal", "answer"} : Line(k, 0) \in LineType /\ SentLine(Line(k, 0))'
  BY DEF SentLine, Line, LineType
<1>3. \A i \in 1..Len(lines') : SentLine(lines[i])'
  <2>1. ReadsOrKeeps \/ \E l \in LineType : SentLine(l)' /\ Appends(l)
    BY <1>2, Zenon
  <2> QED BY <1>1, <2>1, LinesStay, Zenon
<1>4. LinesTell'
  BY <1>3 DEF HungInv, LinesTell
<1> QED BY <1>4 DEF HungInv

\* Every step keeps the invariant.
LEMMA HungSteps == HungInv /\ [Next]_vars => HungInv'
<1> SUFFICES ASSUME HungInv, [Next]_vars PROVE HungInv'
  OBVIOUS
<1>0. TypeOK' /\ (session = "recovering" => ~hung)
  BY StepTypes DEF HungInv, LinesTell
<1>1. CASE \E t \in Turns : TurnStep(t)
  <2>1. UNCHANGED <<call, cur, lines, hung>> /\ (session' = session \/ session' = "up")
    BY <1>1 DEF TurnStep, Submit, SubmitArm, SubmitFails, TurnEnds, installResumeTimer, probeVars, claudeVars
  <2>2. UNCHANGED <<call, cur>> /\ ReadsOrKeeps
    BY <2>1 DEF ReadsOrKeeps
  <2>3. session' = "recovering" => ~hung'
    BY <1>0, <2>1
  <2> QED BY <1>0, <2>2, <2>3, HungAside, Zenon
<1>2. CASE Tick \/ \E k \in Timers : markStallSuspected(k)
  <2>1. UNCHANGED <<call, cur, lines, hung, session>>
    BY <1>2 DEF Tick, markStallSuspected, turnVars, probeVars, claudeVars
  <2>2. UNCHANGED <<call, cur>> /\ ReadsOrKeeps
    BY <2>1 DEF ReadsOrKeeps
  <2>3. session' = "recovering" => ~hung'
    BY <1>0, <2>1
  <2> QED BY <1>0, <2>2, <2>3, HungAside, Zenon
<1>3. CASE ClaudeStep
  <2>1. UNCHANGED <<call, cur>>
    BY <1>3 DEF ClaudeStep, Crash, ClaudeWorks, ClaudeHangs, ClaudeTakes, ClaudeAnswers, ClaudeStay, probeVars
  <2>2. session' = "recovering" => ~hung'
    <3>1. CASE Crash
      BY <3>1 DEF Crash
    <3>2. CASE ~Crash
      BY <1>3, <3>2 DEF ClaudeStep, ClaudeWorks, ClaudeHangs, ClaudeTakes, ClaudeAnswers, ClaudeStay, turnVars
    <3> QED BY <3>1, <3>2
  <2>3. ReadsOrKeeps \/ \E k \in {"work", "removal", "answer"} : Appends(Line(k, 0))
    BY <1>3 DEF ClaudeStep, Crash, ClaudeWorks, ClaudeHangs, ClaudeTakes, ClaudeAnswers, Writes,
                ReadsOrKeeps, Appends
  <2> QED BY <1>0, <2>1, <2>2, <2>3, HungAside, Zenon
<1>4. CASE processLine
  <2>1. UNCHANGED <<call, cur, hung, session>> /\ lines # << >> /\ lines' = Tail(lines)
    BY <1>4 DEF processLine, turnVars, claudeVars
  <2>2. UNCHANGED <<call, cur>> /\ ReadsOrKeeps
    BY <2>1 DEF ReadsOrKeeps
  <2>3. session' = "recovering" => ~hung'
    BY <1>0, <2>1
  <2> QED BY <1>0, <2>2, <2>3, HungAside, Zenon
<1>5. CASE Shutdown \/ ShutdownCloses
  <2>1. UNCHANGED <<call, cur>> /\ session' # "recovering" /\ (UNCHANGED lines \/ lines' = << >>)
    BY <1>5 DEF Shutdown, ShutdownCloses, probeVars
  <2>2. UNCHANGED <<call, cur>> /\ ReadsOrKeeps
    BY <2>1 DEF ReadsOrKeeps
  <2> QED BY <1>0, <2>1, <2>2, HungAside, Zenon
<1>6. CASE \E p \in Probes : ProbeStep(p)
  BY <1>0, <1>6, ProbeLines
<1>7. CASE UNCHANGED vars
  <2>1. UNCHANGED <<call, cur, lines, hung, session>>
    BY <1>7 DEF vars, turnVars, probeVars, claudeVars
  <2>2. UNCHANGED <<call, cur>> /\ ReadsOrKeeps
    BY <2>1 DEF ReadsOrKeeps
  <2>3. session' = "recovering" => ~hung'
    BY <1>0, <2>1
  <2> QED BY <1>0, <2>2, <2>3, HungAside, Zenon
<1> QED BY <1>1, <1>2, <1>3, <1>4, <1>5, <1>6, <1>7 DEF Next

\* A step that clears the stamp of a hung agent with nothing of its own left
\* to read ends the turn, leaves the session or comes from its Submit.
LEMMA StampStays ==
  ASSUME SameText, HungInv, [Next]_vars,
         hung, OwnLines = {}, stall # 0, stall' # stall, \A p \in Probes : call[p] # "failed"
  PROVE  current' # current \/ session' # "up" \/ sub' # sub
<1>1. CASE \E t \in Turns : TurnStep(t)
  <2>1. PICK t \in Turns : TurnStep(t)
    BY <1>1
  <2>2. DOMAIN sub = Turns /\ t # 0
    BY DEF HungInv, TypeOK, Turns
  <2>3. CASE Submit(t)
    BY <2>3 DEF Submit, timerVars
  <2>4. CASE SubmitArm(t) \/ SubmitFails(t)
    BY <2>2, <2>4 DEF SubmitArm, SubmitFails
  <2>5. CASE TurnEnds(t)
    BY <2>2, <2>5 DEF TurnEnds, clearCurrentLocked
  <2>6. CASE installResumeTimer(t)
    BY <2>6 DEF installResumeTimer, HungInv, LinesTell
  <2> QED BY <2>1, <2>3, <2>4, <2>5, <2>6 DEF TurnStep
<1>2. CASE processLine
  <2>1. lines \in Seq(LineType) /\ lines # << >>
    BY <1>2 DEF processLine, HungInv, TypeOK
  <2>2. 1 \in 1..Len(lines) /\ DOMAIN lines = 1..Len(lines) /\ Head(lines) = lines[1]
    BY <2>1
  <2>3. lines[1].kind = "enqueue"
    BY <2>2 DEF OwnLines
  <2>4. PICK p \in Probes : lines[1].text = Text(p) /\ call[p] = "sent"
    BY <2>2, <2>3 DEF HungInv, LinesTell, SentLine
  <2>5. cur # 0
    BY <2>4 DEF HungInv, LinesTell
  <2>6. cur \in Probes
    BY <2>5 DEF HungInv, TypeOK, Probes
  <2>7. classifyProbeEnqueue(Head(lines))
    BY <2>2, <2>3, <2>4, <2>5, <2>6 DEF SameText, classifyProbeEnqueue, NoteEnqueue
  <2> QED BY <1>2, <2>7 DEF processLine, onTailerActivity
<1>3. CASE \E k \in Timers : markStallSuspected(k)
  BY <1>3 DEF markStallSuspected
<1>4. CASE Tick \/ ClaudeStep \/ Shutdown \/ ShutdownCloses
  BY <1>4 DEF Tick, ClaudeStep, Crash, ClaudeWorks, ClaudeHangs, ClaudeTakes, ClaudeAnswers, ClaudeStay,
              Shutdown, ShutdownCloses, timerVars
<1>5. CASE \E p \in Probes : ProbeStep(p)
  BY <1>5 DEF ProbeStep, ProbeRefused, Register, ProbeWrites, Discard, timerVars
<1>6. CASE UNCHANGED vars
  BY <1>6 DEF vars, timerVars
<1> QED BY <1>1, <1>2, <1>3, <1>4, <1>5, <1>6 DEF Next

\* When all probes ask with one text, probing a hung agent never clears its
\* stall stamp, however the writes and the reading of their enqueue lines
\* interleave (tailer.go classifyProbeEnqueue, session.go onTailerActivity).
THEOREM HungStaysReported == SameText => (Spec => ProbesDoNotRevive)
<1> SUFFICES ASSUME SameText PROVE Spec => ProbesDoNotRevive
  OBVIOUS
<1>1. Init => HungInv
  <2>1. Init => TypeOK
    BY InitTypes
  <2> QED BY <2>1 DEF Init, HungInv, LinesTell
<1>2. HungInv /\ [Next]_vars =>
        [/\ hung /\ OwnLines = {} /\ stall # 0 /\ stall' # stall
         /\ \A p \in Probes : call[p] # "failed"
         => current' # current \/ session' # "up" \/ sub' # sub]_vars
  BY StampStays
<1> QED BY <1>1, <1>2, HungSteps, PTL DEF Spec, ProbesDoNotRevive
=============================================================================
