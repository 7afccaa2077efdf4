---------------------------- MODULE Heartbeat ----------------------------
(***************************************************************************)
(* How the wrapper tells a silent turn from a working one: the inactivity  *)
(* timer of the session manager (internal/session/session.go), the         *)
(* liveness probes (Probe, internal/transcript/probe.go) and what a        *)
(* transcript line does to both (internal/transcript/tailer.go).           *)
(*                                                                         *)
(* mgr.timer points to the timer installed last; the timers it pointed to  *)
(* before live on until they are stopped or fire.  Time is a count of      *)
(* ticks; a fired timer's callback waits for mgr.mu like everybody else.   *)
(***************************************************************************)
EXTENDS Integers, Sequences, FiniteSets

CONSTANTS
  MaxTurns, MaxProbes,
  TurnTimeout,            \* in ticks
  Text(_),                \* the text of a probe
  MaxLines,               \* lines of work claude writes
  MaxUnread,              \* transcript lines the tailer may be behind
  MaxCrashes, CanStop

ASSUME BoundAssumption ==
  /\ MaxTurns \in Nat /\ MaxProbes \in Nat /\ MaxLines \in Nat /\ MaxUnread \in Nat
  /\ TurnTimeout \in Nat \ {0} /\ MaxCrashes \in Nat /\ CanStop \in BOOLEAN
ASSUME TextAssumption == \A p \in 1..MaxProbes : Text(p) \in Nat \ {0}

Turns == 1..MaxTurns
Probes == 1..MaxProbes
\* Submit installs one timer for its turn, a resume after a crash another.
Timers == Turns \X {"submit", "resume"}
NoTimer == <<0, "none">>
Off == 0

\* Only an enqueue says which message it is about.
Line(k, text) == [kind |-> k, text |-> text]
LineType == [kind : {"work", "enqueue", "removal", "answer"}, text : Nat]

VARIABLES
  \* the session manager
  session,    \* "up", "recovering" (dead or booting), "stopping", "closed"
  current, lastTurn, sub,
  timer,      \* mgr.timer
  left,       \* the ticks each timer has left, Off when it does not run
  rung,       \* timers that fired and whose callback waits for mgr.mu
  stall,      \* stallSuspectedSince: the turn it was stamped for, 0 when zero
  \* ProbeTracker and the Probe calls
  cur, probeState,
  outcomes,   \* how many outcomes each probe was counted with
  call,
  \* claude and its transcript
  hung, queued, answering, worked, crashes,
  lines,      \* written and not read by the tailer yet
  \* what happened
  quiet,      \* ticks since the turn was armed or did something
  overtaken,  \* in this turn, or after the last one, a Submit installed the
              \* timer of a turn that was over
  startled,   \* this turn's time started again while an older timer of it ran
              \* or had fired and its callback was waiting
  late        \* probes registered after Finalize

turnVars  == <<session, current, lastTurn, sub>>
timerVars == <<timer, left, rung, stall>>
probeVars == <<cur, probeState, outcomes, call>>
claudeVars == <<hung, queued, answering, worked, crashes>>
ghostVars == <<quiet, overtaken, startled, late>>
vars == <<turnVars, timerVars, probeVars, claudeVars, lines, ghostVars>>

TypeOK ==
  /\ session \in {"up", "recovering", "stopping", "closed"}
  /\ current \in 0..MaxTurns /\ lastTurn \in 0..MaxTurns
  /\ sub \in [Turns -> {"off", "writing", "done"}]
  /\ timer \in Timers \cup {NoTimer} /\ left \in [Timers -> Off..TurnTimeout]
  /\ rung \subseteq Timers /\ stall \in 0..MaxTurns
  /\ cur \in 0..MaxProbes /\ probeState \in {"pending", "delivered", "answered"}
  /\ outcomes \in [Probes -> Nat]
  /\ call \in [Probes -> {"off", "write", "sent", "failed", "refused"}]
  /\ hung \in BOOLEAN /\ queued \in Nat /\ answering \in Nat
  /\ worked \in 0..MaxLines /\ crashes \in 0..MaxCrashes /\ lines \in Seq(LineType)
  /\ quiet \in 0..TurnTimeout /\ overtaken \in BOOLEAN /\ startled \in BOOLEAN
  /\ late \subseteq Probes

Init ==
  /\ session = "up" /\ current = 0 /\ lastTurn = 0 /\ sub = [t \in Turns |-> "off"]
  /\ timer = NoTimer /\ left = [k \in Timers |-> Off] /\ rung = {} /\ stall = 0
  /\ cur = 0 /\ probeState = "pending"
  /\ outcomes = [p \in Probes |-> 0] /\ call = [p \in Probes |-> "off"]
  /\ hung = FALSE /\ queued = 0 /\ answering = 0 /\ worked = 0 /\ crashes = 0
  /\ lines = << >>
  /\ quiet = 0 /\ overtaken = FALSE /\ startled = FALSE /\ late = {}

----------------------------------------------------------------------------
\* Timers.
StopTimer == left' = IF timer = NoTimer THEN left ELSE [left EXCEPT ![timer] = Off]
NotReset == UNCHANGED left
Extended == left' = [left EXCEPT ![timer] = @ + TurnTimeout]
ResetTimer == left' = [left EXCEPT ![timer] = TurnTimeout]

\* The turn's time starts again, whether or not a callback is on its way.
FreshBudget(k) ==
  /\ stall' = 0 /\ quiet' = 0
  /\ startled' = (startled \/ \E j \in Timers :
                    j[1] = current /\ (j \in rung \/ (j # k /\ left[j] # Off)))

Install(k) ==
  /\ timer' = k /\ left' = [left EXCEPT ![k] = TurnTimeout]
  /\ FreshBudget(k)

\* Time passes and the timers that are due fire.
Tick ==
  /\ \E k \in Timers : left[k] # Off
  /\ left' = [k \in Timers |-> IF left[k] = Off THEN Off ELSE left[k] - 1]
  /\ rung' = rung \cup {k \in Timers : left[k] = 1}
  /\ quiet' = IF quiet < TurnTimeout THEN quiet + 1 ELSE quiet
  /\ UNCHANGED <<turnVars, timer, stall, probeVars, claudeVars, lines, overtaken, startled, late>>

\* The callback's turn is still the one in flight.
AnyInFlight(t) == current # 0
InFlight(t) == current = t

markStallSuspected(k) ==
  /\ k \in rung /\ rung' = rung \ {k}
  /\ IF InFlight(k[1]) /\ timer # NoTimer
     THEN /\ stall' = IF stall = 0 THEN k[1] ELSE stall
          /\ ResetTimer
     ELSE UNCHANGED <<stall, left>>
  /\ UNCHANGED <<turnVars, timer, probeVars, claudeVars, lines, ghostVars>>

----------------------------------------------------------------------------
\* Turns.
Submit(t) ==
  /\ session = "up" /\ current = 0 /\ t = lastTurn + 1
  /\ current' = t /\ lastTurn' = t /\ sub' = [sub EXCEPT ![t] = "writing"]
  /\ quiet' = 0 /\ overtaken' = FALSE /\ startled' = FALSE
  /\ UNCHANGED <<session, timerVars, probeVars, claudeVars, lines, late>>

\* The writes are done: the timer is installed without a look at current.
SubmitArm(t) ==
  /\ sub[t] = "writing" /\ sub' = [sub EXCEPT ![t] = "done"]
  /\ Install(<<t, "submit">>)
  /\ overtaken' = (overtaken \/ current # t)
  /\ UNCHANGED <<session, current, lastTurn, rung, probeVars, claudeVars, lines, late>>

clearCurrentLocked == current' = 0 /\ stall' = 0

\* failSubmitWrite: the timer is left alone.  The PTY was captured when the
\* turn was reserved: the write may fail after claude was relaunched, too.
SubmitFails(t) ==
  /\ sub[t] = "writing"
  /\ sub' = [sub EXCEPT ![t] = "done"]
  /\ IF current = t THEN clearCurrentLocked /\ session' = "up"
     ELSE UNCHANGED <<current, stall, session>>
  /\ UNCHANGED <<lastTurn, timer, left, rung, probeVars, claudeVars, lines, ghostVars>>

\* Complete, completeAfterInterrupt, completeFromTranscript or failTurn.
TurnEnds(t) ==
  /\ current = t
  /\ StopTimer /\ clearCurrentLocked
  /\ session' = "up"
  /\ UNCHANGED <<lastTurn, sub, timer, rung, probeVars, claudeVars, lines, ghostVars>>

\* claude dies; watch stops the timer and relaunches.  Its input is lost.
Crash ==
  /\ session = "up" /\ current # 0 /\ crashes < MaxCrashes /\ crashes' = crashes + 1
  /\ session' = "recovering" /\ StopTimer
  /\ hung' = FALSE /\ queued' = 0 /\ answering' = 0
  /\ UNCHANGED <<current, lastTurn, sub, timer, rung, stall, probeVars, worked, lines, ghostVars>>

installResumeTimer(t) ==
  /\ session = "recovering" /\ current = t
  /\ session' = "up" /\ Install(<<t, "resume">>)
  /\ UNCHANGED <<current, lastTurn, sub, rung, probeVars, claudeVars, lines, overtaken, late>>

----------------------------------------------------------------------------
\* ProbeTracker.  A finished probe has emitted its outcome.
NeverFinished(p) == p # 0
Unfinished(p) == p # 0 /\ outcomes[p] = 0

finishLocked ==
  outcomes' = IF Unfinished(cur) THEN [outcomes EXCEPT ![cur] = @ + 1] ELSE outcomes

ProbeGoto(p, pc) == call' = [call EXCEPT ![p] = pc]
NextProbe(p) == call[p] = "off" /\ \A q \in 1..(p - 1) : call[q] # "off"

ProbeRefused(p) ==
  /\ NextProbe(p) /\ session # "up" /\ ProbeGoto(p, "refused")
  /\ UNCHANGED <<turnVars, timerVars, cur, probeState, outcomes, claudeVars, lines, ghostVars>>

\* Register, before the write; it finalises the probe before.  The session
\* was looked at earlier: it may have changed since.
Register(p) ==
  /\ NextProbe(p) /\ ProbeGoto(p, "write")
  /\ finishLocked
  /\ cur' = p /\ probeState' = "pending"
  /\ late' = IF session \in {"stopping", "closed"} THEN late \cup {p} ELSE late
  /\ UNCHANGED <<turnVars, timerVars, claudeVars, lines, quiet, overtaken, startled>>

\* Enqueue lines and the rest of what claude appends to its transcript.
Writes(l) == Len(lines) < MaxUnread /\ lines' = Append(lines, l)

\* The paste and the Enter key, under ptyMu.  In a turn claude queues the
\* text and says so in its transcript at once; an idle one reads it.
ProbeWrites(p) ==
  /\ call[p] = "write" /\ session \in {"up", "stopping"} /\ ProbeGoto(p, "sent")
  /\ IF current # 0
     THEN queued' = queued + 1 /\ Writes(Line("enqueue", Text(p))) /\ UNCHANGED answering
     ELSE answering' = answering + 1 /\ UNCHANGED <<queued, lines>>
  /\ UNCHANGED <<turnVars, timerVars, cur, probeState, outcomes, hung, worked, crashes, ghostVars>>

\* The write failed, on a PTY captured earlier as in Submit.
Discard(p) ==
  /\ call[p] = "write" /\ ProbeGoto(p, "failed")
  /\ cur' = IF cur = p THEN 0 ELSE cur
  /\ UNCHANGED <<turnVars, timerVars, probeState, outcomes, claudeVars, lines, ghostVars>>

\* Shutdown cancels the tailer, which reads no further, and calls Finalize.
Shutdown ==
  /\ CanStop /\ session' = "stopping" /\ finishLocked /\ lines' = << >>
  /\ UNCHANGED <<current, lastTurn, sub, timerVars, cur, probeState, call, claudeVars, ghostVars>>

\* It then closes the PTY and kills claude.
ShutdownCloses ==
  /\ session = "stopping" /\ session' = "closed"
  /\ hung' = FALSE /\ queued' = 0 /\ answering' = 0
  /\ UNCHANGED <<current, lastTurn, sub, timerVars, probeVars, worked, crashes, lines, ghostVars>>

----------------------------------------------------------------------------
\* claude.
ClaudeStay == UNCHANGED <<turnVars, timerVars, probeVars, crashes, ghostVars>>

ClaudeWorks ==
  /\ session = "up" /\ current # 0 /\ ~hung /\ worked < MaxLines
  /\ worked' = worked + 1 /\ Writes(Line("work", 0))
  /\ ClaudeStay /\ UNCHANGED <<hung, queued, answering>>

ClaudeHangs ==
  /\ session = "up" /\ current # 0 /\ ~hung /\ hung' = TRUE
  /\ ClaudeStay /\ UNCHANGED <<queued, answering, worked, lines>>

\* A tool call is over: the oldest queued message goes to the model.
ClaudeTakes ==
  /\ session = "up" /\ ~hung /\ queued > 0
  /\ queued' = queued - 1 /\ answering' = answering + 1 /\ Writes(Line("removal", 0))
  /\ ClaudeStay /\ UNCHANGED <<hung, worked>>

ClaudeAnswers ==
  /\ session = "up" /\ ~hung /\ answering > 0 /\ answering' = answering - 1
  /\ Writes(Line("answer", 0))
  /\ ClaudeStay /\ UNCHANGED <<hung, queued, worked>>

----------------------------------------------------------------------------
\* The tailer.  The enqueue of the very text of the tracked probe is the
\* probe's own and no sign of life.
NoteEnqueue(l) == cur # 0 /\ l.text = Text(cur)
NeverOurs(l) == FALSE
classifyProbeEnqueue(l) == l.kind = "enqueue" /\ NoteEnqueue(l)

onTailerActivity(l) ==
  IF ~classifyProbeEnqueue(l) /\ current # 0 /\ timer # NoTimer
  THEN FreshBudget(timer) /\ ResetTimer
  ELSE UNCHANGED <<stall, quiet, left, startled>>

\* Any removal is taken for the probe's.
NoteRemoval ==
  /\ probeState' = IF cur # 0 /\ probeState = "pending" THEN "delivered" ELSE probeState
  /\ UNCHANGED outcomes

NoteAssistantText ==
  IF cur # 0 /\ probeState = "delivered"
  THEN probeState' = "answered" /\ finishLocked
  ELSE UNCHANGED <<probeState, outcomes>>

processQueueOperation(l) ==
  IF l.kind = "removal" THEN NoteRemoval ELSE UNCHANGED <<probeState, outcomes>>

\* processLine.  The turn is captured at its start; a line that finds it
\* changed by the time it has mgr.mu moves nothing.
processLine ==
  /\ lines # << >> /\ lines' = Tail(lines)
  /\ onTailerActivity(Head(lines))
  /\ IF Head(lines).kind = "answer" THEN NoteAssistantText
     ELSE processQueueOperation(Head(lines))
  /\ UNCHANGED <<turnVars, timer, rung, cur, call, claudeVars, overtaken, late>>

----------------------------------------------------------------------------
TurnStep(t) ==
  \/ Submit(t) \/ SubmitArm(t) \/ SubmitFails(t) \/ TurnEnds(t) \/ installResumeTimer(t)
ProbeStep(p) == ProbeRefused(p) \/ Register(p) \/ ProbeWrites(p) \/ Discard(p)
ClaudeStep == Crash \/ ClaudeWorks \/ ClaudeHangs \/ ClaudeTakes \/ ClaudeAnswers

\* After Shutdown only the probes are followed.
Running == session \in {"up", "recovering"}
Next ==
  \/ /\ Running
     /\ \/ \E t \in Turns : TurnStep(t)
        \/ \E k \in Timers : markStallSuspected(k)
        \/ Tick \/ ClaudeStep \/ processLine \/ Shutdown
  \/ \E p \in Probes : ProbeStep(p)
  \/ ShutdownCloses

Spec == Init /\ [][Next]_vars

\* Time passes, due timers fire and their callbacks run, a Submit and a
\* recovery come to their end.  claude owes nothing.
Fairness ==
  /\ WF_vars(Running /\ Tick)
  /\ \A k \in Timers : WF_vars(Running /\ markStallSuspected(k))
  /\ \A t \in Turns : /\ WF_vars(Running /\ (SubmitArm(t) \/ SubmitFails(t)))
                      /\ WF_vars(Running /\ installResumeTimer(t))
FairSpec == Spec /\ Fairness

----------------------------------------------------------------------------
\* A stall stamp is about the turn in flight, and that turn did nothing for a
\* full TurnTimeout - unless an older timer of it was running, or its callback
\* waiting, when the turn woke or was resumed.
StampEarned == stall # 0 => stall = current /\ (quiet = TurnTimeout \/ startled)

\* A turn is over or reported as silent in the end (claude's work is bounded
\* here) unless a Submit put the timer of a finished turn over its own: the
\* wrapper kills no turn, so the report is all the operator has to go by.
SilentReported ==
  \A t \in Turns :
    []<>(current # t \/ stall = t \/ overtaken \/ ~Running)

\* Asking a hung agent does not make it look alive: with nothing of its own
\* left to read, its stamp stays until the turn ends, however often it is
\* probed and whenever the probe's own line is read (after the failed write of
\* a later probe there is nothing to recognise that line by).
OwnLines == {k \in DOMAIN lines : lines[k].kind # "enqueue"}
ProbesDoNotRevive ==
  [][/\ hung /\ OwnLines = {} /\ stall # 0 /\ stall' # stall
     /\ \A p \in Probes : call[p] # "failed"
     => current' # current \/ session' # "up" \/ sub' # sub]_vars

\* ccw_probe_outcomes_total counts a probe once, and misses none that was
\* superseded or still tracked at shutdown - except those whose write failed
\* and those registered after Finalize.
OneOutcome ==
  \A p \in Probes :
    /\ outcomes[p] <= 1
    /\ call[p] \in {"write", "sent"} /\ p \notin late /\ (p # cur \/ ~Running)
         => outcomes[p] = 1
=============================================================================
