------------------------------ MODULE Session ------------------------------
(***************************************************************************)
(* The session manager (internal/session): one supervised claude process   *)
(* behind a PTY, one turn slot, and the goroutines that race for both:     *)
(* Submit calls, the Stop-hook handler, the per-process watch goroutine    *)
(* with its relaunch and resume, bootWait, Interrupt and Shutdown.         *)
(*                                                                         *)
(* A step is one critical section of mgr.mu or one PTY write.  Everything  *)
(* claude does, the keystrokes it interprets and the lines it appends to   *)
(* its transcript are external and modelled from how the manager uses      *)
(* them.  The inactivity timer changes nothing but the stall report and is *)
(* left out.                                                               *)
(***************************************************************************)
EXTENDS Integers, Sequences, FiniteSets

CONSTANTS
  Turns,          \* Submit calls, each with the turn id it would be given
  Handoffs,       \* the calls among them that carry handoff:true
  Interrupts,     \* POST /v1/interrupt calls
  None,           \* no turn: the empty id
  MaxRestarts,    \* Config.MaxRestarts: consecutive relaunches allowed
  MaxPosts,       \* cc-stop-hook's maxPostAttempts
  LogTranscript,  \* CCW_LOG_TRANSCRIPT: whether a transcript tailer exists
  CanShutdown,    \* whether Shutdown is ever called
  DeadlinePasses, \* whether the pod reaches its TTL
  MaxProcs,       \* bound: claude processes ever spawned
  MaxCrashes,     \* bound: spontaneous exits of claude
  MaxLosses       \* bound: Stop-hook requests or responses lost

ASSUME ConstantsAssumption ==
  /\ IsFiniteSet(Turns)
  /\ None \notin Turns
  /\ Handoffs \subseteq Turns
  /\ MaxRestarts \in Nat
  /\ MaxPosts \in Nat \ {0}
  /\ MaxProcs \in Nat \ {0}
  /\ MaxCrashes \in Nat
  /\ MaxLosses \in Nat
  /\ LogTranscript \in BOOLEAN /\ CanShutdown \in BOOLEAN
  /\ DeadlinePasses \in BOOLEAN

Procs == 1..MaxProcs
TurnOrNone == Turns \union {None}

VARIABLES
  \* Manager fields, guarded by mgr.mu
  state, current, stopping, restarts,
  proc,             \* the process mgr.proc and mgr.w refer to
  path,             \* transcriptPath is known
  tailing,          \* tailerStarted
  turnsCompleted, turnsSucceeded,
  handoffAdmitted,
  \* turn.Store, and the OnTurnDone calls
  rec,              \* rec[t]: state of t's record
  answer,           \* answer[t]: the turn whose answer t's record carries
  fired,            \* fired[t]: OnTurnDone calls for t
  \* goroutines
  sub,              \* sub[t]: where the Submit call t is
  subW,             \* subW[t]: the writer it captured
  late,             \* the Submit calls admitted past the pod deadline
  watch,            \* watch[p]: where the watch goroutine of process p is
  inFlight,         \* inFlight[p]: the turn it found in flight
  resumed,          \* resumed[p]: whether it relaunched with --continue
  resumeW,          \* resumeW[p]: the writer resumeTurn captured
  said,             \* said[p]: whose answer it read off the transcript
  boot,             \* boot[p]: bootWait for process p
  intr,             \* intr[i]: where the Interrupt call i or its poll loop is
  intrTurn,         \* intrTurn[i]: the turn it found in flight
  intrW,            \* intrW[i]: the writer it captured
  shut,             \* Shutdown
  \* outside the manager
  clock,            \* the pod's age relative to its TTL
  claude,           \* the running claude
  closed,           \* processes whose PTY master has been closed
  tr,               \* the last conversation entry of the transcript
  hook,             \* hook[t]: POST attempts left for t's answer
  crashes, losses   \* how much of the bounds is used

mgrVars   == <<state, current, stopping, restarts, proc, path, tailing,
               turnsCompleted, turnsSucceeded, handoffAdmitted>>
storeVars == <<rec, answer, fired>>
subVars   == <<sub, subW>>
watchVars == <<watch, inFlight, resumed, resumeW, said>>
intrVars  == <<intr, intrTurn, intrW>>
goVars    == <<subVars, late, watchVars, boot, intrVars, shut>>
envVars   == <<clock, claude, closed, tr, hook, crashes, losses>>
vars      == <<mgrVars, storeVars, goVars, envVars>>

----------------------------------------------------------------------------
(* Types *)

\* turn.State; "none": no record was created.
RecState == {"none", "running", "complete", "failed"}
Terminal == {"complete", "failed"}

SubPC   == {"idle", "expired", "admitted", "rejected", "paste", "enter",
            "arm", "ok", "fail", "err"}
WatchPC == {"off", "wait", "spawn", "swap", "close", "boot", "paste",
            "enter", "nudge", "finish", "arm", "giveup", "done"}
BootPC  == {"off", "wait", "accept", "accepted", "done"}
IntrPC  == {"idle", "esc", "poll", "resolve", "done"}

Writer == 0..MaxProcs

ClaudeType ==
  [live : Writer, screen : {"dialog", "noconv", "up"},
   composer : TurnOrNone, running : TurnOrNone, queue : Seq(Turns)]

TypeMgr ==
  /\ state \in {"booting", "ready", "busy", "dead"}
  /\ current \in TurnOrNone
  /\ stopping \in BOOLEAN
  /\ restarts \in Nat
  /\ proc \in Procs
  /\ path \in BOOLEAN
  /\ tailing \in BOOLEAN
  /\ turnsCompleted \in Nat
  /\ turnsSucceeded \in Nat
  /\ handoffAdmitted \in BOOLEAN

TypeStore ==
  /\ rec \in [Turns -> RecState]
  /\ answer \in [Turns -> TurnOrNone]
  /\ fired \in [Turns -> Nat]

TypeSub ==
  /\ sub \in [Turns -> SubPC]
  /\ subW \in [Turns -> Writer]
  /\ late \subseteq Turns

TypeWatch ==
  /\ watch \in [Procs -> WatchPC]
  /\ inFlight \in [Procs -> TurnOrNone]
  /\ resumed \in [Procs -> BOOLEAN]
  /\ resumeW \in [Procs -> Writer]
  /\ said \in [Procs -> TurnOrNone]
  /\ boot \in [Procs -> BootPC]

TypeIntr ==
  /\ intr \in [Interrupts -> IntrPC]
  /\ intrTurn \in [Interrupts -> TurnOrNone]
  /\ intrW \in [Interrupts -> Writer]
  /\ shut \in {"no", "mark", "done"}

TypeClaude ==
  /\ claude \in ClaudeType
  /\ closed \subseteq Procs
  /\ tr \in [turn : TurnOrNone, kind : {"none", "user", "end", "interrupted"}]

TypeEnv ==
  /\ clock \in {"before", "grace", "after"}
  /\ hook \in [Turns -> 0..MaxPosts]
  /\ crashes \in 0..MaxCrashes
  /\ losses \in 0..MaxLosses

\* The type invariant of the manager, its goroutines and its surroundings.
TypeOK ==
  /\ TypeMgr /\ TypeStore
  /\ TypeSub /\ TypeWatch /\ TypeIntr
  /\ TypeClaude /\ TypeEnv

----------------------------------------------------------------------------
(* The PTY and claude's side of it (external) *)

\* Process p showing screen s, prompt c in its composer, working on r with
\* the prompts q queued behind it.
Claude(p, s, c, r, q) ==
  [live |-> p, screen |-> s, composer |-> c, running |-> r, queue |-> q]

\* No process.
NoProcess == Claude(0, "up", None, None, << >>)

\* A process just started: claude shows the bypass-permissions dialog on
\* every boot, unless --continue finds no conversation and it exits.
Spawned(p, resume) ==
  Claude(p, IF resume /\ tr.kind = "none" THEN "noconv" ELSE "dialog",
         None, None, << >>)

\* Pasted text lands in the composer; a dialog swallows it.
Pasted(w, t) ==
  IF claude.live = w /\ claude.screen = "up"
  THEN Claude(w, "up", t, claude.running, claude.queue) ELSE claude

\* The submit key.  At the dialog its default choice is to exit.  Otherwise
\* it sends the composer, which waits in claude's queue while a turn runs;
\* with an empty composer and nothing running claude goes on with the
\* conversation it has.
Entered(w) ==
  IF claude.live # w \/ claude.screen = "noconv" THEN claude
  ELSE IF claude.screen = "dialog" THEN NoProcess
  ELSE IF claude.running = None
  THEN Claude(w, "up", None,
              IF claude.composer = None THEN tr.turn ELSE claude.composer,
              claude.queue)
  ELSE Claude(w, "up", None, claude.running,
              IF claude.composer = None THEN claude.queue
              ELSE Append(claude.queue, claude.composer))

\* bootWait's two keys: down (to "Yes, I accept"), then submit.
Accepted(w) ==
  IF claude.live = w /\ claude.screen = "dialog"
  THEN Claude(w, "up", claude.composer, claude.running, claude.queue)
  ELSE Entered(w)

\* ESC stops the running turn; text waiting in the composer is lost.
Escaped(w) ==
  IF claude.live = w
  THEN Claude(w, claude.screen, None, None, claude.queue) ELSE claude

\* A write to a closed PTY fails; to a live process it succeeds; to a dead
\* process whose PTY is still open it may do either.
WriteOK(w)  == w \notin closed
WriteErr(w) == w # claude.live

\* Faulty variants: no ptyMu at all; an Interrupt that never unlocks it.
PtyNeverLocked == TRUE
PtyKeptByInterrupt ==
  /\ \A t \in Turns : sub[t] # "enter"
  /\ \A i \in Interrupts : intr[i] \in {"idle", "esc"}

\* ptyMu is held exactly from a paste to the submit key that follows it.
PtyFree ==
  /\ \A t \in Turns : sub[t] # "enter"
  /\ \A p \in Procs : watch[p] # "enter"

----------------------------------------------------------------------------
Init ==
  /\ state = "booting" /\ current = None /\ stopping = FALSE /\ restarts = 0
  /\ proc = 1 /\ path = FALSE /\ tailing = FALSE
  /\ turnsCompleted = 0 /\ turnsSucceeded = 0 /\ handoffAdmitted = FALSE
  /\ rec = [t \in Turns |-> "none"]
  /\ answer = [t \in Turns |-> None]
  /\ fired = [t \in Turns |-> 0]
  /\ sub = [t \in Turns |-> "idle"]
  /\ subW = [t \in Turns |-> 0]
  /\ late = {}
  /\ watch = [p \in Procs |-> IF p = 1 THEN "wait" ELSE "off"]
  /\ inFlight = [p \in Procs |-> None]
  /\ resumed = [p \in Procs |-> FALSE]
  /\ resumeW = [p \in Procs |-> 0]
  /\ said = [p \in Procs |-> None]
  /\ boot = [p \in Procs |-> IF p = 1 THEN "wait" ELSE "off"]
  /\ intr = [i \in Interrupts |-> "idle"]
  /\ intrTurn = [i \in Interrupts |-> None]
  /\ intrW = [i \in Interrupts |-> 0]
  /\ shut = "no"
  /\ clock = "before"
  /\ claude = Claude(1, "dialog", None, None, << >>)
  /\ closed = {}
  /\ tr = [turn |-> None, kind |-> "none"]
  /\ hook = [t \in Turns |-> 0]
  /\ crashes = 0 /\ losses = 0

\* Faulty variant: only successful turns are counted as finished.
ResolveUncounted(t, outcome, text, next) ==
  /\ rec' = [rec EXCEPT ![t] = outcome]
  /\ answer' = [answer EXCEPT ![t] = text]
  /\ current' = None
  /\ turnsCompleted' = turnsCompleted + (IF outcome = "failed" THEN 0 ELSE 1)
  /\ state' = next

\* store.Complete, store.Fail or store.Interrupt followed by
\* clearCurrentLocked: the turn in the slot becomes terminal.
Resolve(t, outcome, text, next) ==
  /\ rec' = [rec EXCEPT ![t] = outcome]
  /\ answer' = [answer EXCEPT ![t] = text]
  /\ current' = None
  /\ turnsCompleted' = turnsCompleted + 1
  /\ state' = next

fireDone(t) == fired' = [fired EXCEPT ![t] = @ + 1]

\* Faulty variant: no re-check.
NeverRechecked(t) == t # None

\* A goroutine that dropped mgr.mu re-checks on re-entry that the turn it
\* works for still holds the slot.
StillCurrent(t) == t # None /\ current = t

----------------------------------------------------------------------------
(* Submit *)

SubGoto(t, pc) == sub' = [sub EXCEPT ![t] = pc] /\ UNCHANGED subW

\* Faulty variant: the slot is tried before the deadline is.
TakesHandoffSlotEarly(t) ==
  clock # "after" /\ t \in Handoffs /\ ~handoffAdmitted

\* The one exception past the deadline: the CompareAndSwap on the handoff
\* slot, tried only for a handoff call and only until the hard cap.
TakesHandoffSlot(t) == clock = "grace" /\ t \in Handoffs /\ ~handoffAdmitted

\* admit.
Admit(t) ==
  /\ sub[t] = "idle"
  /\ \/ /\ clock = "before"
        /\ SubGoto(t, "admitted")
        /\ UNCHANGED <<handoffAdmitted, late>>
     \/ /\ TakesHandoffSlot(t)
        /\ handoffAdmitted' = TRUE
        /\ late' = late \union {t}
        /\ SubGoto(t, "admitted")
     \/ /\ clock # "before"
        /\ ~TakesHandoffSlot(t)
        /\ SubGoto(t, "expired")
        /\ UNCHANGED <<handoffAdmitted, late>>
  /\ UNCHANGED <<state, current, stopping, restarts, proc, path, tailing,
                 turnsCompleted, turnsSucceeded, storeVars, watchVars, boot,
                 intrVars, shut, envVars>>

\* Faulty variant: the turn in flight is forgotten.
SlotIgnored == state \in {"dead", "booting"}

\* Submit's refusals: session dead, session not ready, ErrBusy.
SlotTaken == state \in {"dead", "booting"} \/ current # None

SubmitReject(t) ==
  /\ sub[t] = "admitted"
  /\ SlotTaken
  /\ SubGoto(t, "rejected")
  /\ UNCHANGED <<mgrVars, storeVars, late, watchVars, boot, intrVars, shut,
                 envVars>>

SubmitReserve(t) ==
  /\ sub[t] = "admitted"
  /\ ~SlotTaken
  /\ rec' = [rec EXCEPT ![t] = "running"]
  /\ current' = t
  /\ state' = "busy"
  /\ sub' = [sub EXCEPT ![t] = "paste"]
  /\ subW' = [subW EXCEPT ![t] = proc]
  /\ UNCHANGED <<stopping, restarts, proc, path, tailing, turnsCompleted,
                 turnsSucceeded, handoffAdmitted, answer, fired, late,
                 watchVars, boot, intrVars, shut, envVars>>

SubmitPaste(t) ==
  /\ sub[t] = "paste"
  /\ PtyFree
  /\ \/ /\ WriteOK(subW[t])
        /\ SubGoto(t, "enter")
        /\ claude' = Pasted(subW[t], t)
     \/ /\ WriteErr(subW[t])
        /\ SubGoto(t, "fail")
        /\ UNCHANGED claude
  /\ UNCHANGED <<mgrVars, storeVars, late, watchVars, boot, intrVars, shut,
                 clock, closed, tr, hook, crashes, losses>>

SubmitEnter(t) ==
  /\ sub[t] = "enter"
  /\ \/ /\ WriteOK(subW[t])
        /\ SubGoto(t, "arm")
        /\ claude' = Entered(subW[t])
     \/ /\ WriteErr(subW[t])
        /\ SubGoto(t, "fail")
        /\ UNCHANGED claude
  /\ UNCHANGED <<mgrVars, storeVars, late, watchVars, boot, intrVars, shut,
                 clock, closed, tr, hook, crashes, losses>>

\* The turn is armed and ensureTailerFollowing latches.
SubmitArm(t) ==
  /\ sub[t] = "arm"
  /\ SubGoto(t, "ok")
  /\ tailing' = (tailing \/ LogTranscript)
  /\ UNCHANGED <<state, current, stopping, restarts, proc, path,
                 turnsCompleted, turnsSucceeded, handoffAdmitted, storeVars,
                 late, watchVars, boot, intrVars, shut, envVars>>

\* The caller gets the error; OnTurnDone is not fired.
failSubmitWrite(t) ==
  /\ sub[t] = "fail"
  /\ SubGoto(t, "err")
  /\ \/ /\ StillCurrent(t)
        /\ Resolve(t, "failed", None, "ready")
     \/ /\ ~StillCurrent(t)
        /\ UNCHANGED <<rec, answer, current, turnsCompleted, state>>
  /\ UNCHANGED <<stopping, restarts, proc, path, tailing, turnsSucceeded,
                 handoffAdmitted, fired, late, watchVars, boot, intrVars,
                 shut, envVars>>

----------------------------------------------------------------------------
(* The Stop hook and Complete *)

\* Faulty variant: the hook never stops trying.
CompleteRejectForever(t) ==
  /\ current = None \/ state \in {"dead", "booting"}
  /\ hook' = [hook EXCEPT ![t] = @ - 1]
  /\ UNCHANGED <<mgrVars, storeVars, goVars, clock, claude, closed, tr,
                 crashes, losses>>

\* Complete rejects: no turn, or crash recovery is under way.  The hook
\* tries again, like after a response it never saw.
CompleteReject(t) ==
  /\ hook[t] > 0
  /\ current = None \/ state \in {"dead", "booting"}
  /\ hook' = [hook EXCEPT ![t] = @ - 1]
  /\ UNCHANGED <<mgrVars, storeVars, goVars, clock, claude, closed, tr,
                 crashes, losses>>

\* Complete resolves whatever turn holds the slot.  (currentSessionID is
\* set and cleared inside this one critical section, so the mismatch check
\* in front of it never sees it set.)
Complete(t) ==
  /\ hook[t] > 0
  /\ current # None /\ state \notin {"dead", "booting"}
  /\ path' = TRUE
  /\ tailing' = (tailing \/ LogTranscript)
  /\ Resolve(current, "complete", t, "ready")
  /\ turnsSucceeded' = turnsSucceeded + 1
  /\ restarts' = 0
  /\ fireDone(current)
  /\ \/ hook' = [hook EXCEPT ![t] = 0] /\ UNCHANGED losses
     \/ /\ losses < MaxLosses
        /\ losses' = losses + 1
        /\ hook' = [hook EXCEPT ![t] = @ - 1]
  /\ UNCHANGED <<stopping, proc, handoffAdmitted, goVars, clock, claude,
                 closed, tr, crashes>>

\* A hook request that never reaches the wrapper.
HookLost(t) ==
  /\ hook[t] > 0
  /\ losses < MaxLosses
  /\ losses' = losses + 1
  /\ hook' = [hook EXCEPT ![t] = @ - 1]
  /\ UNCHANGED <<mgrVars, storeVars, goVars, clock, claude, closed, tr,
                 crashes>>

----------------------------------------------------------------------------
(* Supervision: watch, relaunch, resumeTurn *)

WatchStay == UNCHANGED <<inFlight, resumed, resumeW, said>>
WatchGoto(p, pc) == watch' = [watch EXCEPT ![p] = pc] /\ WatchStay

\* proc.Wait returned.
WatchExit(p) ==
  /\ watch[p] = "wait"
  /\ claude.live # p
  /\ state' = "dead"
  /\ \/ /\ stopping
        /\ WatchGoto(p, "done")
        /\ UNCHANGED restarts
     \/ /\ ~stopping
        /\ restarts' = restarts + 1
        /\ inFlight' = [inFlight EXCEPT ![p] = current]
        /\ watch' = [watch EXCEPT ![p] =
                        IF restarts + 1 > MaxRestarts
                        THEN "giveup" ELSE "spawn"]
        /\ UNCHANGED <<resumed, resumeW, said>>
  /\ UNCHANGED <<current, stopping, proc, path, tailing, turnsCompleted,
                 turnsSucceeded, handoffAdmitted, storeVars, subVars, late,
                 boot, intrVars, shut, envVars>>

shouldResume == turnsCompleted > 0 \/ path \/ tr.kind # "none"

\* relaunch, first half: decide on --continue and spawn.
WatchSpawn(p) ==
  /\ watch[p] = "spawn"
  /\ \/ /\ p < MaxProcs
        /\ claude' = Spawned(p + 1, shouldResume)
        /\ watch' = [watch EXCEPT ![p] = "swap"]
        /\ resumed' = [resumed EXCEPT ![p] = shouldResume]
        /\ UNCHANGED <<inFlight, resumeW, said>>
        /\ UNCHANGED state
     \/ /\ state' = "dead"
        /\ WatchGoto(p, "giveup")
        /\ UNCHANGED claude
  /\ UNCHANGED <<current, stopping, restarts, proc, path, tailing,
                 turnsCompleted, turnsSucceeded, handoffAdmitted, storeVars,
                 subVars, late, boot, intrVars, shut, clock, closed, tr,
                 hook, crashes, losses>>

\* Faulty variant: relaunch does not look again.
ShutdownMissed == FALSE

\* relaunch's second look at stopping.
ShutdownRan == stopping

\* relaunch, under the lock again: a Shutdown that ran meanwhile wins and
\* the new process is closed; else it becomes the supervised one.
WatchSwap(p) ==
  /\ watch[p] = "swap"
  /\ \/ /\ ShutdownRan
        /\ closed' = closed \union {p + 1}
        /\ claude' = NoProcess
        /\ state' = "dead"
        /\ WatchGoto(p, "giveup")
        /\ UNCHANGED proc
     \/ /\ ~ShutdownRan
        /\ proc' = p + 1
        /\ state' = "booting"
        /\ WatchGoto(p, "close")
        /\ UNCHANGED <<closed, claude>>
  /\ UNCHANGED <<current, stopping, restarts, path, tailing, turnsCompleted,
                 turnsSucceeded, handoffAdmitted, storeVars, subVars, late,
                 boot, intrVars, shut, clock, tr, hook, crashes, losses>>

\* Faulty variant: the new process gets no watch goroutine.
Unwatched(p) == [watch EXCEPT ![p] = "boot"]

\* watch itself goes on to bootWait, a new watch starts on the new process.
WatchHandedOver(p) ==
  [watch EXCEPT ![p] = "boot", ![p + 1] = "wait"]

\* relaunch: close the dead PTY, start the new watch, enter bootWait.
WatchClose(p) ==
  /\ watch[p] = "close"
  /\ closed' = closed \union {p}
  /\ watch' = WatchHandedOver(p)
  /\ WatchStay
  /\ boot' = [boot EXCEPT ![p + 1] = "wait"]
  /\ UNCHANGED <<mgrVars, storeVars, subVars, late, intrVars, shut, clock,
                 claude, tr, hook, crashes, losses>>

\* Faulty variant: a fresh conversation is nudged too.
ResumeByNudge(p) == IF path /\ tr.kind = "end" THEN "finish" ELSE "nudge"

\* How an interrupted turn goes on: re-send the prompt when --continue
\* restored nothing, finish from a transcript that ends in a terminal
\* answer, or nudge.
ResumeMode(p) ==
  IF ~resumed[p] THEN "paste"
  ELSE IF path /\ tr.kind = "end" THEN "finish" ELSE "nudge"

\* resumeTurn; nothing to do when the turn was resolved or the session is
\* not ready.
WatchResume(p) ==
  /\ watch[p] = "boot"
  /\ boot[p + 1] = "done"
  /\ \/ /\ ~StillCurrent(inFlight[p]) \/ state # "ready"
        /\ WatchGoto(p, "done")
     \/ /\ StillCurrent(inFlight[p]) /\ state = "ready"
        /\ watch' = [watch EXCEPT ![p] = ResumeMode(p)]
        /\ resumeW' = [resumeW EXCEPT ![p] = proc]
        /\ said' = [said EXCEPT ![p] = tr.turn]
        /\ UNCHANGED <<inFlight, resumed>>
  /\ UNCHANGED <<mgrVars, storeVars, subVars, late, boot, intrVars, shut,
                 envVars>>

\* resubmitOriginalPrompt.
WatchPaste(p) ==
  /\ watch[p] = "paste"
  /\ PtyFree
  /\ \/ /\ WriteOK(resumeW[p])
        /\ claude' = Pasted(resumeW[p], inFlight[p])
        /\ WatchGoto(p, "enter")
     \/ /\ WriteErr(resumeW[p])
        /\ WatchGoto(p, "giveup")
        /\ UNCHANGED claude
  /\ UNCHANGED <<mgrVars, storeVars, subVars, late, boot, intrVars, shut,
                 clock, closed, tr, hook, crashes, losses>>

\* The submit key of a re-sent prompt, under the lock its paste took, or
\* the bare nudge, under a lock of its own.
WatchEnter(p) ==
  /\ \/ watch[p] = "enter"
     \/ watch[p] = "nudge" /\ PtyFree
  /\ \/ /\ WriteOK(resumeW[p])
        /\ claude' = Entered(resumeW[p])
        /\ WatchGoto(p, "arm")
     \/ /\ WriteErr(resumeW[p])
        /\ WatchGoto(p, "giveup")
        /\ UNCHANGED claude
  /\ UNCHANGED <<mgrVars, storeVars, subVars, late, boot, intrVars, shut,
                 clock, closed, tr, hook, crashes, losses>>

\* Faulty variant: busy, whatever became of the turn meanwhile.
BusyAnyway(p) == "busy"

BusyIfCurrent(p) == IF StillCurrent(inFlight[p]) THEN "busy" ELSE state

installResumeTimer(p) ==
  /\ watch[p] = "arm"
  /\ state' = BusyIfCurrent(p)
  /\ WatchGoto(p, "done")
  /\ UNCHANGED <<current, stopping, restarts, proc, path, tailing,
                 turnsCompleted, turnsSucceeded, handoffAdmitted, storeVars,
                 subVars, late, boot, intrVars, shut, envVars>>

completeFromTranscript(p) ==
  /\ watch[p] = "finish"
  /\ WatchGoto(p, "done")
  /\ \/ /\ StillCurrent(inFlight[p])
        /\ Resolve(inFlight[p], "complete", said[p], "ready")
        /\ turnsSucceeded' = turnsSucceeded + 1
        /\ restarts' = 0
        /\ fireDone(inFlight[p])
     \/ /\ ~StillCurrent(inFlight[p])
        /\ UNCHANGED <<rec, answer, current, turnsCompleted, state, fired,
                       turnsSucceeded, restarts>>
  /\ UNCHANGED <<stopping, proc, path, tailing, handoffAdmitted, subVars,
                 late, boot, intrVars, shut, envVars>>

\* The tail of watch that cannot go on: the turn it found in flight fails.
failTurn(p) ==
  /\ watch[p] = "giveup"
  /\ WatchGoto(p, "done")
  /\ \/ /\ StillCurrent(inFlight[p])
        /\ Resolve(inFlight[p], "failed", None, "dead")
        /\ fireDone(inFlight[p])
     \/ /\ ~StillCurrent(inFlight[p])
        /\ UNCHANGED <<rec, answer, current, turnsCompleted, state, fired>>
  /\ UNCHANGED <<stopping, restarts, proc, path, tailing, turnsSucceeded,
                 handoffAdmitted, subVars, late, boot, intrVars, shut,
                 envVars>>

----------------------------------------------------------------------------
(* bootWait *)

AtDialog(p) == claude.live = p /\ claude.screen = "dialog"

BootGoto(p, pc) == boot' = [boot EXCEPT ![p] = pc]

\* The loop checks that p is still wanted, then finds the dialog's text in
\* the ring, where it stays when p dies or the dialog is already answered.
BootSee(p) ==
  /\ boot[p] = "wait"
  /\ state # "dead" /\ proc = p
  /\ claude.live = p => claude.screen # "noconv"
  /\ BootGoto(p, "accept")
  /\ UNCHANGED <<mgrVars, storeVars, subVars, late, watchVars, intrVars,
                 shut, envVars>>

\* writeRaw goes to mgr.w of this moment, and without ptyMu.  The arrow and the
\* submit key are one step: no relaunch fits into the 250 ms between them.
BootAccept(p) ==
  /\ boot[p] = "accept"
  /\ BootGoto(p, "accepted")
  /\ claude' = IF WriteOK(proc) THEN Accepted(proc) ELSE claude
  /\ UNCHANGED <<mgrVars, storeVars, subVars, late, watchVars, intrVars,
                 shut, clock, closed, tr, hook, crashes, losses>>

\* The TUI is quiet: Ready, if this process is still the one booting.  The
\* dialog comes up within minBoot, so a process that shows it is not quiet; the
\* BootTimeout, many times longer, is taken not to pass before it is answered.
BootReady(p) ==
  /\ boot[p] = "accepted" \/ (boot[p] = "wait" /\ ~AtDialog(p))
  /\ BootGoto(p, "done")
  /\ state' = IF state = "booting" /\ proc = p THEN "ready" ELSE state
  /\ UNCHANGED <<current, stopping, restarts, proc, path, tailing,
                 turnsCompleted, turnsSucceeded, handoffAdmitted, storeVars,
                 subVars, late, watchVars, intrVars, shut, envVars>>

BootAbort(p) ==
  /\ boot[p] \in {"wait", "accepted"}
  /\ state = "dead" \/ proc # p
  /\ BootGoto(p, "done")
  /\ UNCHANGED <<mgrVars, storeVars, subVars, late, watchVars, intrVars,
                 shut, envVars>>

----------------------------------------------------------------------------
(* Interrupt *)

IntrGoto(i, pc) ==
  intr' = [intr EXCEPT ![i] = pc] /\ UNCHANGED <<intrTurn, intrW>>

InterruptBegin(i) ==
  /\ intr[i] = "idle"
  /\ \/ /\ stopping \/ state \in {"dead", "booting"}
        /\ IntrGoto(i, "done")
     \/ /\ ~stopping /\ state \notin {"dead", "booting"}
        /\ intr' = [intr EXCEPT ![i] = "esc"]
        /\ intrTurn' = [intrTurn EXCEPT ![i] = current]
        /\ intrW' = [intrW EXCEPT ![i] = proc]
  /\ UNCHANGED <<mgrVars, storeVars, subVars, late, watchVars, boot, shut,
                 envVars>>

\* The ESC byte.  claude stops the turn it runs and records a marker.
InterruptEscape(i) ==
  /\ intr[i] = "esc"
  /\ PtyFree
  /\ \/ /\ WriteOK(intrW[i])
        /\ IntrGoto(i, IF intrTurn[i] = None THEN "done" ELSE "poll")
        /\ claude' = Escaped(intrW[i])
        /\ tr' = IF claude.live = intrW[i] /\ claude.running # None
                 THEN [turn |-> claude.running, kind |-> "interrupted"]
                 ELSE tr
     \/ /\ WriteErr(intrW[i])
        /\ IntrGoto(i, "done")
        /\ UNCHANGED <<tr, claude>>
  /\ UNCHANGED <<mgrVars, storeVars, subVars, late, watchVars, boot, shut,
                 clock, closed, hook, crashes, losses>>

\* Faulty variant: looks for a terminal answer, which an ESC never leaves.
WasAnswered == path /\ tr.kind = "end"

\* The last conversation entry is the interruption marker.
WasInterrupted == path /\ tr.kind = "interrupted"

\* awaitInterruptedTurn, one round of its loop.  A tailer learns the path of
\* a transcript within a poll interval, so with one the settle timeout finds
\* no marker only when there is none.
InterruptPoll(i) ==
  /\ intr[i] = "poll"
  /\ \/ /\ stopping \/ current # intrTurn[i]
        /\ IntrGoto(i, "done")
     \/ /\ ~stopping /\ current = intrTurn[i]
        /\ WasInterrupted
        /\ IntrGoto(i, "resolve")
     \/ /\ ~stopping /\ current = intrTurn[i]
        /\ ~WasInterrupted
        /\ ~(LogTranscript /\ tr.kind = "interrupted")
        /\ IntrGoto(i, "done")
  /\ UNCHANGED <<mgrVars, storeVars, subVars, late, watchVars, boot, shut,
                 envVars>>

completeAfterInterrupt(i) ==
  /\ intr[i] = "resolve"
  /\ IntrGoto(i, "done")
  /\ \/ /\ StillCurrent(intrTurn[i])
        /\ Resolve(intrTurn[i], "failed", None, "ready")
        /\ fireDone(intrTurn[i])
     \/ /\ ~StillCurrent(intrTurn[i])
        /\ UNCHANGED <<rec, answer, current, turnsCompleted, state, fired>>
  /\ UNCHANGED <<stopping, restarts, proc, path, tailing, turnsSucceeded,
                 handoffAdmitted, subVars, late, watchVars, boot, shut,
                 envVars>>

----------------------------------------------------------------------------
(* Shutdown, and the discovery of the transcript *)

ShutdownMark ==
  /\ CanShutdown /\ shut = "no"
  /\ shut' = "mark"
  /\ stopping' = TRUE
  /\ state' = "dead"
  /\ UNCHANGED <<current, restarts, proc, path, tailing, turnsCompleted,
                 turnsSucceeded, handoffAdmitted, storeVars, subVars, late,
                 watchVars, boot, intrVars, envVars>>

\* Close the PTY and kill the process.  proc cannot have moved since the
\* mark: only relaunch moves it, and not while stopping.
ShutdownKill ==
  /\ shut = "mark"
  /\ shut' = "done"
  /\ closed' = closed \union {proc}
  /\ claude' = IF claude.live = proc THEN NoProcess ELSE claude
  /\ UNCHANGED <<mgrVars, storeVars, subVars, late, watchVars, boot,
                 intrVars, clock, tr, hook, crashes, losses>>

\* ensureTailerFollowing's goroutine finds the transcript file.
TailerDiscover ==
  /\ tailing /\ ~path /\ ~stopping
  /\ tr.kind # "none"
  /\ path' = TRUE
  /\ UNCHANGED <<state, current, stopping, restarts, proc, tailing,
                 turnsCompleted, turnsSucceeded, handoffAdmitted, storeVars,
                 goVars, envVars>>

----------------------------------------------------------------------------
(* claude and time (external) *)

\* The prompt claude works on reaches the transcript file.
ClaudePersist ==
  /\ claude.running # None
  /\ tr # [turn |-> claude.running, kind |-> "user"]
  /\ tr' = [turn |-> claude.running, kind |-> "user"]
  /\ UNCHANGED <<mgrVars, storeVars, goVars, clock, claude, closed, hook,
                 crashes, losses>>

\* The final answer; the Stop hook process starts.
ClaudeAnswer ==
  /\ claude.running # None
  /\ tr = [turn |-> claude.running, kind |-> "user"]
  /\ tr' = [turn |-> claude.running, kind |-> "end"]
  /\ hook' = [hook EXCEPT ![claude.running] = MaxPosts]
  /\ claude' = Claude(claude.live, claude.screen, claude.composer, None,
                      claude.queue)
  /\ UNCHANGED <<mgrVars, storeVars, goVars, clock, closed, crashes, losses>>

\* A queued prompt is taken up: by the turn that runs, at a tool-call
\* boundary, or as a turn of its own.
ClaudeDequeue ==
  /\ claude.queue # << >>
  /\ claude' = Claude(claude.live, claude.screen, claude.composer,
                      Head(claude.queue), Tail(claude.queue))
  /\ UNCHANGED <<mgrVars, storeVars, goVars, clock, closed, tr, hook,
                 crashes, losses>>

ClaudeCrash ==
  /\ claude.live # 0
  /\ crashes < MaxCrashes
  /\ crashes' = crashes + 1
  /\ claude' = NoProcess
  /\ UNCHANGED <<mgrVars, storeVars, goVars, clock, closed, tr, hook,
                 losses>>

\* "No conversation found to continue".
ClaudeNoConversation ==
  /\ claude.screen = "noconv"
  /\ claude' = NoProcess
  /\ UNCHANGED <<mgrVars, storeVars, goVars, clock, closed, tr, hook,
                 crashes, losses>>

ClockTick ==
  /\ DeadlinePasses /\ clock # "after"
  /\ clock' = IF clock = "before" THEN "grace" ELSE "after"
  /\ UNCHANGED <<mgrVars, storeVars, goVars, claude, closed, tr, hook,
                 crashes, losses>>

----------------------------------------------------------------------------
SubmitStep(t) ==
  \/ SubmitReject(t) \/ SubmitReserve(t) \/ SubmitPaste(t)
  \/ SubmitEnter(t) \/ SubmitArm(t) \/ failSubmitWrite(t)
HookStep(t) == CompleteReject(t) \/ Complete(t)
WatchStep(p) ==
  \/ WatchExit(p) \/ WatchSpawn(p) \/ WatchSwap(p) \/ WatchClose(p)
  \/ WatchResume(p) \/ WatchPaste(p) \/ WatchEnter(p)
  \/ installResumeTimer(p) \/ completeFromTranscript(p) \/ failTurn(p)
BootStep(p) == BootSee(p) \/ BootAccept(p) \/ BootReady(p) \/ BootAbort(p)
InterruptStep(i) ==
  InterruptEscape(i) \/ InterruptPoll(i) \/ completeAfterInterrupt(i)
ClaudeStep ==
  ClaudePersist \/ ClaudeAnswer \/ ClaudeDequeue \/ ClaudeNoConversation

Next ==
  \/ \E t \in Turns : Admit(t) \/ SubmitStep(t) \/ HookStep(t) \/ HookLost(t)
  \/ \E p \in Procs : WatchStep(p) \/ BootStep(p)
  \/ \E i \in Interrupts : InterruptBegin(i) \/ InterruptStep(i)
  \/ ShutdownMark \/ ShutdownKill \/ TailerDiscover
  \/ ClaudeStep \/ ClaudeCrash \/ ClockTick

Spec == Init /\ [][Next]_vars

\* Goroutines run, the Stop hook posts, claude works: what is never assumed
\* is that somebody calls the API, that claude crashes, that a message is
\* lost or that the pod ages.
Fairness ==
  /\ \A t \in Turns : WF_vars(SubmitStep(t)) /\ WF_vars(HookStep(t))
  /\ \A p \in Procs : WF_vars(WatchStep(p)) /\ WF_vars(BootStep(p))
  /\ \A i \in Interrupts : WF_vars(InterruptStep(i))
  /\ WF_vars(ShutdownKill) /\ WF_vars(TailerDiscover)
  /\ WF_vars(ClaudeStep)

FairSpec == Spec /\ Fairness

----------------------------------------------------------------------------
(* Safety *)

\* The slot and the store agree: the record of turn t says running exactly
\* while mgr.current is t.  A crash, a failed write, a late hook or an
\* interrupt that resolves one without the other would leave a turn the
\* operator sees running and nobody can end, or a second turn beside it.
SlotMatchesStore == \A t \in Turns : rec[t] = "running" <=> current = t

\* A session that says busy has a turn to be busy with; else POST
\* /v1/messages could never succeed again.
BusyHasTurn == state = "busy" => current # None

\* OnTurnDone is called at most once for a turn, never before it ended, and
\* it is missed only by a turn whose Submit call returned the error itself.
NotifiedOnce ==
  \A t \in Turns :
    /\ fired[t] <= 1
    /\ fired[t] = 1 => rec[t] \in Terminal
    /\ rec[t] \in Terminal /\ fired[t] = 0 => sub[t] = "err"

\* The counters Snapshot reports: TurnsFinished and TurnsCompleted are the
\* numbers of records that ended and that ended well.
CountersMatchStore ==
  /\ turnsCompleted = Cardinality({t \in Turns : rec[t] \in Terminal})
  /\ turnsSucceeded = Cardinality({t \in Turns : rec[t] = "complete"})

\* Whichever of hook, crash recovery, interrupt and failing Submit comes
\* first decides how a turn ended; the others never touch it again (the
\* store itself would let them).
EndedForGood ==
  [][\A t \in Turns : rec[t] \in Terminal =>
       rec'[t] = rec[t] /\ answer'[t] = answer[t]]_vars

\* The text a Submit pasted is still the whole of the composer when its
\* submit key is due: no other PTY writer gets between the two.
PromptIntact ==
  /\ \A t \in Turns :
       sub[t] = "enter" /\ claude.live = subW[t] => claude.composer = t
  /\ \A p \in Procs :
       watch[p] = "enter" /\ claude.live = resumeW[p]
         => claude.composer = inFlight[p]

\* Shutdown leaves no claude behind, not even one a relaunch was spawning
\* when it ran.
NoOrphanClaude ==
  shut = "done" /\ (\A p \in Procs : watch[p] \notin {"spawn", "swap"})
    => claude.live = 0

\* A live claude is supervised: somebody will notice when it exits.
Supervised ==
  claude.live # 0 =>
    \/ watch[claude.live] = "wait"
    \/ watch[claude.live - 1] \in {"swap", "close"}

\* The handoff allowance: at most one turn is admitted past the deadline, it
\* is a handoff turn, and none sent before the deadline uses the slot up.
HandoffAllowance ==
  /\ Cardinality(late) <= 1
  /\ late \subseteq Handoffs
  /\ handoffAdmitted <=> late # {}
  /\ clock = "before" => ~handoffAdmitted

\* A turn reported complete carries its own answer.
OwnAnswer == \A t \in Turns : rec[t] = "complete" => answer[t] = t

----------------------------------------------------------------------------
(* The abstract specification, and liveness *)

\* The records and the callbacks are the abstract state; everything else, from
\* the slot to the PTY, is how the manager keeps the promise.
Lifecycle == INSTANCE TurnLifecycle WITH Turns <- Turns, rec <- rec, fired <- fired

\* The manager implements TurnLifecycle, whatever crashes.
ImplementsLifecycle == Lifecycle!Spec

\* And with one claude crash at any moment of a turn, from its submission to
\* its resumption, the turn still ends, complete or failed.
ImplementsFairLifecycle == Lifecycle!FairSpec

\* Every admitted Submit call returns: no writer keeps ptyMu for ever.
SubmitReturns ==
  \A t \in Turns :
    sub[t] = "admitted" ~> sub[t] \in {"rejected", "ok", "err"}

\* An ESC that stopped the turn its Interrupt call was about frees the slot.
InterruptFreesSlot ==
  \A i \in Interrupts, t \in Turns :
    /\ intr[i] = "poll" /\ intrTurn[i] = t /\ current = t
    /\ tr = [turn |-> t, kind |-> "interrupted"]
    ~> current # t

============================================================================
