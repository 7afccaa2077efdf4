----------------------------- MODULE Tailer -----------------------------
(***************************************************************************)
(* The transcript tailer (internal/transcript/tailer.go) and the parts of  *)
(* the session manager around it (internal/session/session.go): how        *)
(* followers are started, cancelled and replaced, and how the finaliser    *)
(* waits for the tailer before it drains a turn's internal-issue reports.  *)
(*                                                                         *)
(* claude appends lines to the file at its transcript path.  A line is two *)
(* bytes long and may lie on disk half written; a replaced file has a new  *)
(* inode.  The Tailer object is shared by all followers: readPos, the      *)
(* report accumulator and the outstanding Task calls.                      *)
(***************************************************************************)
EXTENDS Integers, Sequences, FiniteSets

CONSTANTS
  Script,      \* the lines claude may write: [kind, id], each at most once
  MaxLines,    \* how many of them it writes at most
  MaxTurns, MaxFiles, MaxFollows,
  MaxFaults    \* read errors, restarts of claude and turns submitted early

Kinds == {"report", "huge", "call", "result"}

ASSUME ScriptAssumption ==
  Script \subseteq [kind : Kinds, id : Nat]
ASSUME BoundAssumption ==
  /\ MaxLines \in Nat /\ MaxTurns \in Nat /\ MaxFiles \in Nat \ {0} /\ MaxFollows \in Nat \ {0}
  /\ MaxFaults \in Nat

Turns == 1..MaxTurns
Files == 1..MaxFiles
Paths == {1, 2}           \* claude's conversation, and the one a crash makes it start
Follows == 1..MaxFollows
NoLine == [kind |-> "none", id |-> 0]
LineOrNone == Script \cup {NoLine}

VARIABLES
  \* claude and the disk
  writes,     \* the path claude writes to
  inodes,     \* the files created so far
  at,         \* the file (inode) at a path, 0 when there is none
  file, torn, \* its complete lines, and the line it ends in without a newline
  by,         \* the turn a line was written in, 0 when it was not yet
  todo,
  \* the session manager
  current, lastCompleted,
  ensure,     \* Submits that have yet to call ensureTailerFollowing with effect
  transcriptPath, tailerStarted,
  fol,        \* the followers, one per goroutine running Follow
  \* the Tailer object
  readPos, issues, iiTurnID, taskUseIDs, taskCalls, taskTurnID,
  \* the finaliser's DrainInternalIssues, one call per turn
  drain,
  \* what happened
  seen,       \* lines processed
  overlap,    \* a cancelled follower was busy when the next one started
  disturbed,  \* lines read again, a drain that did not catch up on claude's file,
              \* or a turn submitted before the drain of the last one caught up
  faults, crashed

diskVars  == <<writes, inodes, at, file, torn, by, todo>>
mgrVars   == <<current, lastCompleted, ensure, transcriptPath, tailerStarted>>
accVars   == <<issues, iiTurnID>>
taskVars  == <<taskUseIDs, taskCalls, taskTurnID>>
ghostVars == <<seen, overlap, disturbed, faults, crashed>>
vars == <<diskVars, mgrVars, fol, readPos, accVars, taskVars, drain, ghostVars>>

Follower == [pc : {"off", "await", "open", "read", "process", "advance", "done"},
             cancelled : BOOLEAN,
             path : 0..2, file : 0..MaxFiles,
             pos : Nat,             \* complete lines handed to processLine
             partial : BOOLEAN,     \* the first byte of the next line is off the file
             line : LineOrNone, bytes : {1, 2}, turn : 0..MaxTurns]

Idle == [pc |-> "off", cancelled |-> FALSE, path |-> 0, file |-> 0, pos |-> 0,
         partial |-> FALSE, line |-> NoLine, bytes |-> 2, turn |-> 0]

TypeDisk ==
  /\ writes \in Paths /\ inodes \in 0..MaxFiles /\ at \in [Paths -> 0..MaxFiles]
  /\ file \in [Files -> Seq(Script)] /\ torn \in [Files -> LineOrNone]
  /\ by \in [Script -> 0..MaxTurns] /\ todo \subseteq Script
TypeMgr ==
  /\ current \in 0..MaxTurns /\ lastCompleted \in 0..MaxTurns
  /\ ensure \subseteq Turns /\ transcriptPath \in 0..2 /\ tailerStarted \in BOOLEAN
TypeFol == fol \in [Follows -> Follower] /\ readPos \in Nat
TypeAcc == issues \subseteq Script /\ iiTurnID \in 0..MaxTurns
TypeTask ==
  taskUseIDs \subseteq Nat /\ taskCalls \in Nat /\ taskTurnID \in 0..MaxTurns
TypeDrain ==
  drain \in [Turns -> [pc : {"off", "stat", "wait", "drain", "done"},
                       target : Nat, file : 0..MaxFiles,
                       caught : 0..MaxFiles, got : SUBSET Script]]
TypeGhost ==
  /\ seen \subseteq Script /\ overlap \in BOOLEAN /\ disturbed \in BOOLEAN
  /\ faults \in 0..MaxFaults /\ crashed \in BOOLEAN

\* The type invariant of claude's files, the manager, the followers and the
\* Tailer object they share.
TypeOK ==
  /\ TypeDisk /\ TypeMgr /\ TypeFol /\ TypeAcc /\ TypeTask /\ TypeDrain /\ TypeGhost

Init ==
  /\ writes = 1 /\ inodes = 0 /\ torn = [f \in Files |-> NoLine]
  /\ by = [l \in Script |-> 0] /\ todo = Script
  /\ at = [p \in Paths |-> 0] /\ file = [f \in Files |-> << >>]
  /\ current = 0 /\ lastCompleted = 0 /\ ensure = {}
  /\ transcriptPath = 0 /\ tailerStarted = FALSE
  /\ fol = [i \in Follows |-> Idle] /\ readPos = 0
  /\ issues = {} /\ iiTurnID = 0
  /\ taskUseIDs = {} /\ taskCalls = 0 /\ taskTurnID = 0
  /\ drain = [t \in Turns |-> [pc |-> "off", target |-> 0, file |-> 0,
                               caught |-> 0, got |-> {}]]
  /\ seen = {} /\ overlap = FALSE /\ disturbed = FALSE /\ faults = 0 /\ crashed = FALSE

----------------------------------------------------------------------------
\* claude, the environment: a new inode is the next file number.
Fresh == inodes + 1

Contains(f, l) == \E k \in DOMAIN file[f] : file[f][k] = l

\* A subagent returns after it was called.
InOrder(l) ==
  l.kind = "result" => \E f \in Files : Contains(f, [kind |-> "call", id |-> l.id])

\* The first bytes of a line reach the disk; the rest may come after the
\* turn's end.
ClaudeWrites ==
  /\ current # 0
  /\ Cardinality(Script \ todo) < MaxLines
  /\ at[writes] # 0 => torn[at[writes]] = NoLine
  /\ \E l \in todo :
       /\ InOrder(l)
       /\ todo' = todo \ {l}
       /\ by' = [by EXCEPT ![l] = current]
       /\ \/ at[writes] # 0 /\ UNCHANGED <<at, inodes>>
          \/ /\ at[writes] = 0 /\ Fresh \in Files
             /\ at' = [at EXCEPT ![writes] = Fresh] /\ inodes' = Fresh
       /\ torn' = [torn EXCEPT ![at'[writes]] = l]
  /\ UNCHANGED <<writes, file, mgrVars, fol, readPos, accVars, taskVars, drain, ghostVars>>

\* The rest of it, with the newline.
ClaudeEndsLine ==
  /\ at[writes] # 0
  /\ LET f == at[writes] IN
       /\ torn[f] # NoLine
       /\ file' = [file EXCEPT ![f] = Append(@, torn[f])]
       /\ torn' = [torn EXCEPT ![f] = NoLine]
  /\ UNCHANGED <<writes, inodes, at, by, todo, mgrVars, fol, readPos, accVars, taskVars, drain, ghostVars>>

\* A restarted claude writes its transcript anew (what it had of it, or
\* nothing), or starts another conversation at another path.
ClaudeRestarts ==
  /\ current # 0 /\ faults < MaxFaults /\ faults' = faults + 1
  /\ \/ /\ at[writes] # 0 /\ Fresh \in Files
        /\ \E keep \in BOOLEAN :
             file' = [file EXCEPT ![Fresh] = IF keep THEN file[at[writes]] ELSE << >>]
        /\ at' = [at EXCEPT ![writes] = Fresh] /\ inodes' = Fresh
        /\ UNCHANGED writes
     \/ /\ writes = 1
        /\ writes' = 2 /\ UNCHANGED <<inodes, at, file>>
  /\ UNCHANGED <<torn, by, todo, mgrVars, fol, readPos, accVars, taskVars, drain,
                 seen, overlap, disturbed, crashed>>

----------------------------------------------------------------------------
\* The session manager.  It takes the next turn as soon as no turn is in
\* flight: an operator that polls for Ready may submit it early, before the
\* finaliser of the last one has drained the reports or even caught up with
\* the transcript.
DrainAt(t, pcs) == t > 1 /\ drain[t - 1].pc \in pcs
Early(t) == DrainAt(t, {"stat", "wait", "drain"})

Submit(t) ==
  /\ current = 0 /\ t = lastCompleted + 1
  /\ current' = t
  /\ Early(t) => faults < MaxFaults
  /\ faults' = faults + IF Early(t) THEN 1 ELSE 0
  /\ disturbed' = (disturbed \/ DrainAt(t, {"stat", "wait"}))
  /\ ensure' = IF tailerStarted THEN ensure ELSE ensure \cup {t}
  /\ UNCHANGED <<diskVars, lastCompleted, transcriptPath, tailerStarted, fol, readPos,
                 accVars, taskVars, drain, seen, overlap, crashed>>

Free == {i \in Follows : fol[i].pc = "off"}
NextFree == CHOOSE i \in Free : \A j \in Free : i <= j
Started(path, pc) == [Idle EXCEPT !.pc = pc, !.path = path]

\* At the end of Submit; tailerStarted latches.
ensureTailerFollowing(t) ==
  /\ t \in ensure /\ ensure' = ensure \ {t}
  /\ \/ /\ tailerStarted
        /\ UNCHANGED <<tailerStarted, fol>>
     \/ /\ ~tailerStarted /\ Free # {}
        /\ tailerStarted' = TRUE
        /\ fol' = [fol EXCEPT ![NextFree] = Started(0, "await")]
  /\ UNCHANGED <<diskVars, current, lastCompleted, transcriptPath, readPos, accVars,
                 taskVars, drain, ghostVars>>

\* The discovery goroutine finds the newest transcript; a path the Stop hook
\* named meanwhile stands.
awaitTranscriptFile(i) ==
  /\ fol[i].pc = "await"
  /\ \/ /\ fol[i].cancelled
        /\ fol' = [fol EXCEPT ![i].pc = "done"] /\ UNCHANGED transcriptPath
     \/ /\ ~fol[i].cancelled
        /\ LET newest == IF at[writes] # 0 THEN writes ELSE 1 IN
             /\ at[newest] # 0
             /\ IF transcriptPath \notin {0, newest}
                THEN fol' = [fol EXCEPT ![i].pc = "done"] /\ UNCHANGED transcriptPath
                ELSE /\ fol' = [fol EXCEPT ![i].pc = "open", ![i].path = newest]
                     /\ transcriptPath' = newest
  /\ UNCHANGED <<diskVars, current, lastCompleted, ensure, tailerStarted, readPos, accVars,
                 taskVars, drain, ghostVars>>

\* clearCurrentLocked, then OnTurnDone: the finaliser of the turn starts.
TurnEnds(t) ==
  /\ current = t /\ current' = 0 /\ lastCompleted' = t
  /\ drain' = [drain EXCEPT ![t].pc = "stat"]

Running == {i \in Follows : fol[i].pc \notin {"off", "done"}}

\* The Stop hook names the transcript: the first start, or a restart on the
\* new path.  The old follower is cancelled and not waited for.
Complete(t) ==
  /\ TurnEnds(t)
  /\ transcriptPath' = writes /\ tailerStarted' = TRUE
  /\ IF tailerStarted /\ transcriptPath = writes
     THEN UNCHANGED fol
     ELSE /\ Free # {}
          /\ fol' = [i \in Follows |->
               IF i = NextFree THEN Started(writes, "open")
               ELSE [fol[i] EXCEPT !.cancelled = i \in Running]]
  /\ UNCHANGED <<diskVars, ensure, readPos, accVars, taskVars, ghostVars>>

\* Every other ending: a failed write, an interrupt, a failed recovery.
Fail(t) ==
  /\ TurnEnds(t)
  /\ UNCHANGED <<diskVars, ensure, transcriptPath, tailerStarted, fol, readPos, accVars,
                 taskVars, ghostVars>>

----------------------------------------------------------------------------
\* Follow.
Stay == UNCHANGED <<diskVars, mgrVars, accVars, taskVars, drain>>

\* openFile.  The context is looked at before the first opening, which the
\* cancellation may still come ahead of, and after every one.
FollowOpen(i) ==
  /\ fol[i].pc = "open" /\ at[fol[i].path] # 0
  /\ fol' = [fol EXCEPT ![i].pc = IF fol[i].cancelled THEN "done" ELSE "read",
                       ![i].file = at[fol[i].path], ![i].pos = 0]
  /\ readPos' = 0
  /\ disturbed' = (disturbed \/ seen # {})   \* its lines are read again
  /\ overlap' = (overlap \/ \E j \in Follows \ {i} : fol[j].pc \in {"read", "process", "advance"})
  /\ Stay /\ UNCHANGED <<seen, faults, crashed>>

\* currentTurnID, called once per line.
InFlightOnly == current
currentTurnID == IF current # 0 THEN current ELSE lastCompleted

HandOver(i, l, n) ==
  fol' = [fol EXCEPT ![i].pc = "process", ![i].line = l, ![i].bytes = n,
                     ![i].turn = currentTurnID]

\* A newline: what is left of the line goes to processLine.  Of a line whose
\* first maxPartialBytes went there already, only the rest is left.
FollowRead(i) ==
  /\ fol[i].pc = "read" /\ fol[i].pos < Len(file[fol[i].file])
  /\ LET l == file[fol[i].file][fol[i].pos + 1] IN
       HandOver(i, l, IF l.kind = "huge" /\ fol[i].partial THEN 1 ELSE 2)
  /\ Stay /\ UNCHANGED <<readPos, ghostVars>>

\* What readPos gains by bytes that are merely buffered.
BufferedCounted(i) ==
  IF torn[fol[i].file] # NoLine /\ ~fol[i].partial THEN 1 ELSE 0
Buffered(i) == 0

\* The end of the file, perhaps inside a line: a partial line too long for
\* the buffer is processed as it is, a shorter one waits.  Then the inode is
\* compared, and a replaced file is read from its start.
NeverReplaced(i) == FALSE
Replaced(i) == at[fol[i].path] \notin {0, fol[i].file}

FollowEOF(i) ==
  /\ fol[i].pc = "read" /\ fol[i].pos = Len(file[fol[i].file])
  /\ LET l == torn[fol[i].file] IN
       \/ /\ l.kind = "huge" /\ ~fol[i].partial
          /\ HandOver(i, l, 1)
          /\ UNCHANGED readPos
       \/ /\ l.kind # "huge" \/ fol[i].partial
          /\ readPos' = readPos + Buffered(i)
          /\ fol' = [fol EXCEPT
               ![i].pc = IF Replaced(i) THEN "open"
                         ELSE IF fol[i].cancelled THEN "done" ELSE "read",
               ![i].partial = l # NoLine /\ ~Replaced(i)]
  /\ Stay /\ UNCHANGED ghostVars

FollowError(i) ==
  /\ fol[i].pc = "read" /\ faults < MaxFaults
  /\ faults' = faults + 1
  /\ fol' = [fol EXCEPT ![i].pc = "open", ![i].partial = FALSE]
  /\ Stay /\ UNCHANGED <<readPos, seen, overlap, disturbed, crashed>>

FollowCancelled(i) ==
  /\ fol[i].pc = "open" /\ fol[i].cancelled
  /\ fol[i].file = 0 \/ at[fol[i].path] = 0
  /\ fol' = [fol EXCEPT ![i].pc = "done"]
  /\ Stay /\ UNCHANGED <<readPos, ghostVars>>

----------------------------------------------------------------------------
\* processLine, for the turn captured with the line.
accumulateInternalIssue(t, l) ==
  /\ issues' = (IF t = iiTurnID THEN issues ELSE {}) \cup {l}
  /\ iiTurnID' = t

\* Outstanding Task calls do not outlive their turn.
TasksOf(t) == IF t = taskTurnID THEN taskUseIDs ELSE {}
CallsOf(t) == IF t = taskTurnID THEN taskCalls ELSE 0

AnyCall(t, id) == TRUE
NewCall(t, id) == id \notin TasksOf(t)
OpenCall(t, id) == id \in TasksOf(t)

TaskLaunched(t, id) ==
  /\ taskUseIDs' = TasksOf(t) \cup {id}
  /\ taskCalls' = CallsOf(t) + IF NewCall(t, id) THEN 1 ELSE 0

TaskReturned(t, id) ==
  /\ taskUseIDs' = TasksOf(t) \ {id}
  /\ taskCalls' = CallsOf(t) - IF OpenCall(t, id) THEN 1 ELSE 0

processLine(l, t, whole) ==
  /\ taskTurnID' = t
  /\ IF whole /\ l.kind = "call" THEN TaskLaunched(t, l.id)
     ELSE IF whole /\ l.kind = "result" THEN TaskReturned(t, l.id)
     ELSE taskUseIDs' = TasksOf(t) /\ taskCalls' = CallsOf(t)
  /\ IF whole /\ l.kind \in {"report", "huge"} THEN accumulateInternalIssue(t, l)
     ELSE UNCHANGED accVars

FollowProcess(i) ==
  /\ fol[i].pc = "process"
  /\ fol' = [fol EXCEPT ![i].pc = "advance"]
  /\ processLine(fol[i].line, fol[i].turn, fol[i].bytes = 2)
  /\ seen' = seen \cup {fol[i].line}
  /\ UNCHANGED <<diskVars, mgrVars, readPos, drain, overlap, disturbed, faults, crashed>>

\* readPos.Add, then the check of the context at the top of the loop.
FollowAdvance(i) ==
  /\ fol[i].pc = "advance"
  /\ readPos' = readPos + fol[i].bytes
  /\ LET piece == fol[i].bytes = 1 /\ ~fol[i].partial IN
       fol' = [fol EXCEPT ![i].pc = IF fol[i].cancelled THEN "done" ELSE "read",
                          ![i].partial = piece, ![i].line = NoLine,
                          ![i].bytes = 2, ![i].turn = 0,
                          ![i].pos = IF piece THEN @ ELSE @ + 1]
  /\ Stay /\ UNCHANGED ghostVars

\* Two followers inside processLine write the same maps without a lock: the
\* Go runtime may notice, and then the wrapper is gone.
ConcurrentMapWrites ==
  /\ \E i, j \in Follows : i # j /\ fol[i].pc = "process" /\ fol[j].pc = "process"
  /\ crashed' = TRUE
  /\ UNCHANGED <<diskVars, mgrVars, fol, readPos, accVars, taskVars, drain,
                 seen, overlap, disturbed, faults>>

----------------------------------------------------------------------------
\* Manager.DrainInternalIssues.
Size(f) == 2 * Len(file[f]) + IF torn[f] = NoLine THEN 0 ELSE 1

FinStay == UNCHANGED <<diskVars, mgrVars, fol, readPos, taskVars, seen, overlap, faults, crashed>>

DrainStat(t) ==
  /\ drain[t].pc = "stat"
  /\ IF transcriptPath # 0 /\ at[transcriptPath] # 0
     THEN LET f == at[transcriptPath] IN
          /\ drain' = [drain EXCEPT ![t].pc = "wait", ![t].target = Size(f), ![t].file = f]
          /\ disturbed' = (disturbed \/ transcriptPath # writes)
     ELSE /\ drain' = [drain EXCEPT ![t].pc = "drain"]
          /\ disturbed' = TRUE
  /\ FinStay /\ UNCHANGED accVars

\* The file the last opened follower reads.
ReaderFile ==
  LET open == {i \in Follows : fol[i].file # 0}
  IN  IF open = {} THEN 0 ELSE fol[CHOOSE i \in open : \A j \in open : j <= i].file

CaughtUpTo(t) ==
  /\ drain[t].pc = "wait" /\ readPos >= drain[t].target
  /\ drain' = [drain EXCEPT ![t].pc = "drain", ![t].caught = ReaderFile]
  /\ disturbed' = (disturbed \/ ReaderFile # drain[t].file)
  /\ FinStay /\ UNCHANGED accVars

DrainTimeout(t) ==
  /\ drain[t].pc = "wait" /\ readPos < drain[t].target
  /\ drain' = [drain EXCEPT ![t].pc = "drain"]
  /\ disturbed' = TRUE
  /\ FinStay /\ UNCHANGED accVars

DrainInternalIssues(t) ==
  /\ drain[t].pc = "drain"
  /\ drain' = [drain EXCEPT ![t] = [@ EXCEPT !.pc = "done", !.target = 0, !.file = 0,
                       !.caught = 0, !.got = IF iiTurnID = t THEN issues ELSE {}]]
  /\ IF iiTurnID = t THEN issues' = {} /\ iiTurnID' = 0 ELSE UNCHANGED accVars
  /\ FinStay /\ UNCHANGED disturbed

----------------------------------------------------------------------------
TurnStep(t) == Submit(t) \/ ensureTailerFollowing(t) \/ Complete(t) \/ Fail(t)
DrainStep(t) == DrainStat(t) \/ CaughtUpTo(t) \/ DrainTimeout(t) \/ DrainInternalIssues(t)
FollowStep(i) ==
  \/ awaitTranscriptFile(i) \/ FollowOpen(i) \/ FollowRead(i) \/ FollowEOF(i)
  \/ FollowCancelled(i) \/ FollowProcess(i) \/ FollowAdvance(i)

Next ==
  /\ ~crashed
  /\ \/ ClaudeWrites \/ ClaudeEndsLine \/ ClaudeRestarts
     \/ \E t \in Turns : TurnStep(t) \/ DrainStep(t)
     \/ \E i \in Follows : FollowStep(i) \/ FollowError(i)
     \/ ConcurrentMapWrites

Spec == Init /\ [][Next]_vars

\* A follower never stops polling; a half-written line is not ended by
\* anybody's promise, and claude owes no line.
FairSpec ==
  /\ Spec
  /\ \A i \in Follows : WF_vars(~crashed /\ FollowStep(i))
  /\ \A t \in Turns : WF_vars(~crashed /\ ensureTailerFollowing(t))

----------------------------------------------------------------------------
\* The point of readPos: a drain that caught up, on the file it had looked
\* at, delivers every report the turn had on disk by then.  Two things take
\* reports from it: a cancelled follower that was still busy when its
\* successor started, and the next turn.  That one may be submitted on Ready,
\* before this drain is over; a report read after it is booked on it, and the
\* first it files drops what is not drained yet.
CaughtUpDelivers ==
  [][\A t \in Turns :
       LET d == drain[t] IN
       /\ d.pc = "drain" /\ drain'[t].pc = "done"
       /\ d.caught # 0 /\ d.caught = d.file /\ ~overlap
       /\ current = 0 /\ lastCompleted = t
       => \A k \in DOMAIN file[d.file] :
            LET l == file[d.file][k] IN
            2 * k <= d.target /\ l.kind = "report" /\ by[l] = t => l \in drain'[t].got]_vars

\* Reports are booked on the turn that is current when their line is read.
\* As long as every drain caught up before the next turn was submitted, no file
\* was read twice and followers did not overlap, that is the turn that wrote
\* them: none goes out with a later one.
OwnReports ==
  ~disturbed /\ ~overlap => \A t \in Turns : \A l \in drain[t].got : by[l] = t

\* OutstandingTaskCalls: the counter mirrors the set, and once a follower
\* has read the whole file no subagent that reported back there is in it,
\* unless a cancelled follower was still busy when it started.
FinishedTasksGone ==
  /\ taskCalls = Cardinality(taskUseIDs)
  /\ \A i \in Follows :
       fol[i].pc = "read" /\ fol[i].pos = Len(file[fol[i].file]) /\ ~overlap =>
         \A id \in taskUseIDs : ~ Contains(fol[i].file, [kind |-> "result", id |-> id])

\* Again and again every complete line of the transcript the session knows
\* of has been processed, whatever was replaced, misread or restarted.
Known(l) ==
  /\ transcriptPath # 0 /\ at[transcriptPath] # 0
  /\ Contains(at[transcriptPath], l)
EveryLineSeen == []<>(crashed \/ \A l \in Script : Known(l) => l \in seen)
=============================================================================
