---------------------------- MODULE TailerProofs ----------------------------
(***************************************************************************)
(* Proofs about Tailer, for any script of lines and any of the bounds: its *)
(* types, that no subagent that reported back stays outstanding, that a    *)
(* drain that caught up delivers its turn's reports, and that those it     *)
(* delivers are its turn's.                                                *)
(***************************************************************************)
EXTENDS Tailer, FiniteSetTheorems, WellFoundedInduction, TLAPS

(* Typing *)

\* A follower that opens has a path, one that reads has a file, and one that
\* processes has a line.
WellFormed(r) ==
  /\ r.pc \in {"open", "read", "process", "advance"} => r.path \in Paths
  /\ r.pc \in {"read", "process", "advance"} => r.file \in Files
  /\ r.pc \in {"process", "advance"} => r.line \in Script

FolShape == \A i \in Follows : WellFormed(fol[i])

\* The counter of outstanding Task calls mirrors the set; without that a
\* return could take it below zero.
TasksCounted ==
  IsFiniteSet(taskUseIDs) /\ taskCalls = Cardinality(taskUseIDs)

TypeInv == TypeOK /\ FolShape /\ TasksCounted

\* The constants, and the sets built from them.
LEMMA Constants ==
  /\ MaxTurns \in Nat /\ MaxFiles \in Nat \ {0} /\ MaxFollows \in Nat \ {0}
  /\ MaxFaults \in Nat
  /\ NoLine \notin Script /\ Script \subseteq [kind : Kinds, id : Nat]
  /\ \A l \in Script : l.kind \in Kinds /\ l.id \in Nat
  /\ \A x \in 0..MaxFiles : x # 0 => x \in Files
  /\ Turns \subseteq 0..MaxTurns /\ Files \subseteq 0..MaxFiles
<1>1. /\ MaxTurns \in Nat /\ MaxFiles \in Nat \ {0} /\ MaxFollows \in Nat \ {0}
      /\ MaxFaults \in Nat
  BY BoundAssumption DEF BoundAssumption
<1>2. Script \subseteq [kind : Kinds, id : Nat]
  BY ScriptAssumption DEF ScriptAssumption
<1>3. \A l \in Script : l.kind \in Kinds /\ l.id \in Nat
  BY <1>2
<1>4. NoLine.kind \notin Kinds
  BY DEF NoLine, Kinds
<1> QED BY <1>1, <1>2, <1>3, <1>4 DEF Turns, Files

\* The fields of a follower.
LEMMA FollowerFields ==
  ASSUME NEW r \in Follower
  PROVE  /\ r.pc \in {"off", "await", "open", "read", "process", "advance", "done"}
         /\ r.path \in 0..2 /\ r.file \in 0..MaxFiles /\ r.pos \in Nat
         /\ r.line \in LineOrNone /\ r.bytes \in {1, 2} /\ r.turn \in 0..MaxTurns
BY DEF Follower

\* A follower that starts is one.
LEMMA StartedFollower ==
  ASSUME NEW path \in 0..2, NEW pc \in {"await", "open"}
  PROVE  /\ Idle \in Follower /\ Started(path, pc) \in Follower
         /\ Idle.pc = "off" /\ Idle.pos = 0 /\ Idle.file = 0
         /\ Started(path, pc).pc = pc /\ Started(path, pc).path = path
         /\ Started(path, pc).file = 0
<1>1. Idle \in Follower
  BY Constants DEF Idle, Follower, LineOrNone
<1> QED BY <1>1 DEF Idle, Follower, Started

\* Parts of the state that a step leaves alone keep their type.
LEMMA FrameDisk == ASSUME TypeDisk, UNCHANGED diskVars PROVE TypeDisk'
BY DEF TypeDisk, diskVars
\* The manager's fields.
LEMMA FrameMgr == ASSUME TypeMgr, UNCHANGED mgrVars PROVE TypeMgr'
BY DEF TypeMgr, mgrVars
\* The followers.
LEMMA FrameFol ==
  ASSUME TypeFol, FolShape, UNCHANGED <<fol, readPos>>
  PROVE  TypeFol' /\ FolShape'
BY DEF TypeFol, FolShape
\* The accumulated reports.
LEMMA FrameAcc == ASSUME TypeAcc, UNCHANGED accVars PROVE TypeAcc'
BY DEF TypeAcc, accVars
\* The outstanding Task calls.
LEMMA FrameTask ==
  ASSUME TypeTask, TasksCounted, UNCHANGED taskVars
  PROVE  TypeTask' /\ TasksCounted'
BY DEF TypeTask, TasksCounted, taskVars
\* The finalisers' drains.
LEMMA FrameDrain == ASSUME TypeDrain, UNCHANGED drain PROVE TypeDrain'
BY DEF TypeDrain
\* The history.
LEMMA FrameGhost == ASSUME TypeGhost, UNCHANGED ghostVars PROVE TypeGhost'
BY DEF TypeGhost, ghostVars

\* The initial state is well typed.
LEMMA TypeInit == ASSUME Init PROVE TypeInv
<1>1. TypeDisk
  BY Constants DEF Init, TypeDisk, Paths, LineOrNone
<1>2. TypeMgr /\ TypeAcc
  <2>1. tailerStarted \in BOOLEAN
    BY DEF Init
  <2> QED BY <2>1, Constants DEF Init, TypeMgr, TypeAcc
<1>3. TypeFol /\ FolShape
  BY StartedFollower DEF Init, TypeFol, FolShape, WellFormed
<1>4. TypeTask /\ TasksCounted
  BY Constants, FS_EmptySet DEF Init, TypeTask, TasksCounted
<1>5. TypeDrain
  BY Constants DEF Init, TypeDrain
<1>6. TypeGhost
  <2>1. overlap \in BOOLEAN /\ disturbed \in BOOLEAN /\ crashed \in BOOLEAN
    BY DEF Init
  <2> QED BY <2>1, Constants DEF Init, TypeGhost
<1> QED BY <1>1, <1>2, <1>3, <1>4, <1>5, <1>6 DEF TypeInv, TypeOK

\* A line that claude appends to a file.
LEMMA Appended ==
  ASSUME NEW s \in Seq(Script), NEW l \in Script
  PROVE  /\ Append(s, l) \in Seq(Script) /\ Len(Append(s, l)) = Len(s) + 1
         /\ DOMAIN Append(s, l) = 1..(Len(s) + 1) /\ Len(s) \in Nat
         /\ \A k \in 1..Len(s) : Append(s, l)[k] = s[k]
         /\ Append(s, l)[Len(s) + 1] = l
OBVIOUS

\* What claude writes keeps the types of its files.
LEMMA DiskStep ==
  ASSUME TypeInv, ClaudeWrites \/ ClaudeEndsLine \/ ClaudeRestarts
  PROVE  TypeDisk'
<1>1. TypeDisk /\ TypeMgr
  BY DEF TypeInv, TypeOK
<1>2. CASE ClaudeWrites
  <2>1. PICK l \in todo :
          /\ todo' = todo \ {l} /\ by' = [by EXCEPT ![l] = current]
          /\ \/ at[writes] # 0 /\ UNCHANGED <<at, inodes>>
             \/ /\ at[writes] = 0 /\ Fresh \in Files
                /\ at' = [at EXCEPT ![writes] = Fresh] /\ inodes' = Fresh
          /\ torn' = [torn EXCEPT ![at'[writes]] = l]
    BY <1>2 DEF ClaudeWrites
  <2>2. at' \in [Paths -> 0..MaxFiles] /\ inodes' \in 0..MaxFiles
    BY <1>1, <2>1, Constants DEF TypeDisk
  <2>3. torn' \in [Files -> LineOrNone]
    BY <1>1, <2>1 DEF TypeDisk, LineOrNone
  <2>4. by' \in [Script -> 0..MaxTurns] /\ todo' \subseteq Script
    BY <1>1, <2>1 DEF TypeDisk, TypeMgr
  <2> QED BY <1>1, <1>2, <2>2, <2>3, <2>4 DEF TypeDisk, ClaudeWrites
<1>3. CASE ClaudeEndsLine
  <2>1. at[writes] \in Files /\ torn[at[writes]] \in Script
    BY <1>1, <1>3, Constants DEF TypeDisk, ClaudeEndsLine, LineOrNone
  <2>2. Append(file[at[writes]], torn[at[writes]]) \in Seq(Script)
    BY <1>1, <2>1 DEF TypeDisk
  <2>3. file' \in [Files -> Seq(Script)] /\ torn' \in [Files -> LineOrNone]
    BY <1>1, <1>3, <2>1, <2>2 DEF TypeDisk, ClaudeEndsLine, LineOrNone
  <2> QED BY <1>1, <1>3, <2>3 DEF TypeDisk, ClaudeEndsLine
<1>4. CASE ClaudeRestarts
  <2>1. ASSUME at[writes] # 0, Fresh \in Files, NEW keep \in BOOLEAN,
               file' = [file EXCEPT ![Fresh] =
                          IF keep THEN file[at[writes]] ELSE << >>],
               at' = [at EXCEPT ![writes] = Fresh], inodes' = Fresh,
               UNCHANGED writes
        PROVE  TypeDisk'
    <3>1. at[writes] \in Files
      BY <1>1, <2>1, Constants DEF TypeDisk
    <3>2. file' \in [Files -> Seq(Script)]
      BY <1>1, <2>1, <3>1 DEF TypeDisk
    <3> QED BY <1>1, <1>4, <2>1, <3>2, Constants DEF TypeDisk, ClaudeRestarts
  <2>2. CASE writes' = 2 /\ UNCHANGED <<inodes, at, file>>
    BY <1>1, <1>4, <2>2 DEF TypeDisk, ClaudeRestarts, Paths
  <2> QED BY <1>4, <2>1, <2>2 DEF ClaudeRestarts
<1> QED BY <1>2, <1>3, <1>4

\* A step that replaces one follower by a well-formed one.
LEMMA OneFollower ==
  ASSUME TypeFol, FolShape, NEW i, NEW r \in Follower, WellFormed(r),
         fol' = [fol EXCEPT ![i] = r], readPos' \in Nat
  PROVE  TypeFol' /\ FolShape'
BY DEF TypeFol, FolShape

\* Whatever a step does to the followers keeps them well formed.
LEMMA FollowersStep ==
  ASSUME TypeInv,
         \/ \E t \in Turns : ensureTailerFollowing(t) \/ Complete(t)
         \/ \E i \in Follows : FollowStep(i) \/ FollowError(i)
  PROVE  TypeFol' /\ FolShape'
<1>1. TypeFol /\ FolShape /\ TypeDisk /\ TypeMgr
  BY DEF TypeInv, TypeOK
<1>2. ASSUME NEW t \in Turns, ensureTailerFollowing(t)
      PROVE  TypeFol' /\ FolShape'
  <2>1. Started(0, "await") \in Follower /\ WellFormed(Started(0, "await"))
    BY StartedFollower DEF WellFormed
  <2> QED BY <1>1, <1>2, <2>1, OneFollower, FrameFol
          DEF ensureTailerFollowing, TypeFol
<1>3. ASSUME NEW t \in Turns, Complete(t) PROVE TypeFol' /\ FolShape'
  <2>1. Started(writes, "open") \in Follower /\ WellFormed(Started(writes, "open"))
    BY <1>1, StartedFollower DEF WellFormed, TypeDisk, Paths
  <2>2. ASSUME NEW i \in Follows
        PROVE  /\ [fol[i] EXCEPT !.cancelled = i \in Running] \in Follower
               /\ WellFormed([fol[i] EXCEPT !.cancelled = i \in Running])
    <3>1. fol[i] \in Follower /\ WellFormed(fol[i]) /\ (i \in Running) \in BOOLEAN
      BY <1>1 DEF TypeFol, FolShape
    <3> QED BY <3>1 DEF Follower, WellFormed
  <2>3. CASE UNCHANGED fol
    BY <1>1, <1>3, <2>3, FrameFol DEF Complete
  <2>4. CASE fol' = [i \in Follows |->
               IF i = NextFree THEN Started(writes, "open")
               ELSE [fol[i] EXCEPT !.cancelled = i \in Running]]
    <3> DEFINE g(i) == [fol[i] EXCEPT !.cancelled = i \in Running]
               h == Started(writes, "open")
    <3>1. \A i \in Follows : g(i) \in Follower /\ WellFormed(g(i))
      BY <2>2
    <3>2. h \in Follower /\ WellFormed(h)
      BY <2>1
    <3>3. fol' = [i \in Follows |-> IF i = NextFree THEN h ELSE g(i)]
      BY <2>4
    <3>4. readPos' = readPos
      BY <1>3 DEF Complete
    <3> HIDE DEF g, h
    <3> QED BY <1>1, <3>1, <3>2, <3>3, <3>4 DEF TypeFol, FolShape
  <2> QED BY <1>3, <2>3, <2>4 DEF Complete
<1>4. ASSUME NEW i \in Follows
      PROVE  /\ fol[i] \in Follower /\ WellFormed(fol[i]) /\ readPos \in Nat
             /\ fol \in [Follows -> Follower]
  BY <1>1 DEF TypeFol, FolShape
<1>5. ASSUME NEW i \in Follows, awaitTranscriptFile(i)
      PROVE  TypeFol' /\ FolShape'
  <2>1. ASSUME NEW q \in Paths, fol' = [fol EXCEPT ![i].pc = "open", ![i].path = q]
        PROVE  TypeFol' /\ FolShape'
    <3> DEFINE r == [fol[i] EXCEPT !.pc = "open", !.path = q]
    <3>1. q \in 0..2
      BY DEF Paths
    <3>2. r \in Follower /\ WellFormed(r)
      BY <1>4, <3>1 DEF Follower, WellFormed
    <3>3. fol' = [fol EXCEPT ![i] = r]
      BY <1>4, <2>1
    <3> QED BY <1>1, <1>4, <1>5, <3>2, <3>3, OneFollower DEF awaitTranscriptFile
  <2>2. CASE fol' = [fol EXCEPT ![i].pc = "done"]
    <3> DEFINE r == [fol[i] EXCEPT !.pc = "done"]
    <3>1. r \in Follower /\ WellFormed(r)
      BY <1>4 DEF Follower, WellFormed
    <3>2. fol' = [fol EXCEPT ![i] = r]
      BY <1>4, <2>2
    <3> QED BY <1>1, <1>4, <1>5, <3>1, <3>2, OneFollower DEF awaitTranscriptFile
  <2>3. (IF at[writes] # 0 THEN writes ELSE 1) \in Paths
    BY <1>1 DEF TypeDisk, Paths
  <2> QED BY <1>5, <2>1, <2>2, <2>3 DEF awaitTranscriptFile
<1>6. ASSUME NEW i \in Follows, FollowOpen(i) PROVE TypeFol' /\ FolShape'
  <2> DEFINE pc == IF fol[i].cancelled THEN "done" ELSE "read"
             r == [fol[i] EXCEPT !.pc = pc, !.file = at[fol[i].path], !.pos = 0]
  <2>1. fol[i].path \in Paths /\ at[fol[i].path] \in Files
    BY <1>1, <1>4, <1>6, Constants DEF FollowOpen, WellFormed, TypeDisk
  <2>2. pc \in {"done", "read"}
    OBVIOUS
  <2>3. fol' = [fol EXCEPT ![i] = r] /\ readPos' = 0
    BY <1>4, <1>6 DEF FollowOpen
  <2> HIDE DEF pc
  <2>4. r \in Follower /\ WellFormed(r)
    BY <1>4, <2>1, <2>2, Constants DEF Follower, WellFormed
  <2> QED BY <1>1, <2>3, <2>4, OneFollower
<1>7. currentTurnID \in 0..MaxTurns
  BY <1>1 DEF currentTurnID, TypeMgr
<1>8. ASSUME NEW i \in Follows, fol[i].pc = "read", NEW l \in Script,
             NEW n \in {1, 2}, HandOver(i, l, n), UNCHANGED readPos
      PROVE  TypeFol' /\ FolShape'
  <2> DEFINE r == [fol[i] EXCEPT !.pc = "process", !.line = l, !.bytes = n,
                                 !.turn = currentTurnID]
  <2>1. fol' = [fol EXCEPT ![i] = r]
    BY <1>4, <1>8 DEF HandOver
  <2>2. r \in Follower /\ WellFormed(r)
    BY <1>4, <1>7, <1>8 DEF Follower, WellFormed, LineOrNone
  <2> QED BY <1>1, <1>4, <1>8, <2>1, <2>2, OneFollower
<1>9. ASSUME NEW i \in Follows, FollowRead(i) PROVE TypeFol' /\ FolShape'
  <2>1. fol[i].file \in Files /\ fol[i].pos \in Nat
    BY <1>4, <1>9, FollowerFields DEF FollowRead, WellFormed
  <2>2. file[fol[i].file] \in Seq(Script)
    BY <1>1, <2>1 DEF TypeDisk
  <2>3. file[fol[i].file][fol[i].pos + 1] \in Script
    BY <1>9, <2>1, <2>2 DEF FollowRead
  <2> QED BY <1>8, <1>9, <2>3 DEF FollowRead
<1>10. ASSUME NEW i \in Follows, FollowEOF(i) PROVE TypeFol' /\ FolShape'
  <2>1. fol[i].pc = "read" /\ fol[i].file \in Files
    BY <1>4, <1>10 DEF FollowEOF, WellFormed
  <2>2. torn[fol[i].file] \in LineOrNone
    BY <1>1, <2>1 DEF TypeDisk
  <2>3. CASE /\ torn[fol[i].file].kind = "huge" /\ HandOver(i, torn[fol[i].file], 1)
             /\ UNCHANGED readPos
    <3>1. torn[fol[i].file] \in Script
      BY <2>2, <2>3 DEF LineOrNone, NoLine
    <3> QED BY <1>8, <2>1, <2>3, <3>1
  <2>4. ASSUME readPos' = readPos + Buffered(i),
               fol' = [fol EXCEPT
                 ![i].pc = IF Replaced(i) THEN "open"
                           ELSE IF fol[i].cancelled THEN "done" ELSE "read",
                 ![i].partial = torn[fol[i].file] # NoLine /\ ~Replaced(i)]
        PROVE  TypeFol' /\ FolShape'
    <3> DEFINE pc == IF Replaced(i) THEN "open"
                     ELSE IF fol[i].cancelled THEN "done" ELSE "read"
               b == torn[fol[i].file] # NoLine /\ ~Replaced(i)
               r == [fol[i] EXCEPT !.pc = pc, !.partial = b]
    <3>1. pc \in {"open", "done", "read"} /\ b \in BOOLEAN
      OBVIOUS
    <3>2. fol' = [fol EXCEPT ![i] = r]
      BY <1>4, <2>4
    <3>3. readPos' \in Nat
      BY <1>4, <2>4 DEF Buffered
    <3> HIDE DEF pc, b
    <3>4. r \in Follower /\ WellFormed(r)
      BY <1>4, <2>1, <3>1 DEF Follower, WellFormed
    <3> QED BY <1>1, <3>2, <3>3, <3>4, OneFollower
  <2> QED BY <1>10, <2>3, <2>4 DEF FollowEOF
<1>11. ASSUME NEW i \in Follows, FollowError(i) PROVE TypeFol' /\ FolShape'
  <2> DEFINE b == FALSE
             r == [fol[i] EXCEPT !.pc = "open", !.partial = b]
  <2>1. fol' = [fol EXCEPT ![i] = r] /\ readPos' = readPos
    BY <1>4, <1>11 DEF FollowError
  <2>2. b \in BOOLEAN
    OBVIOUS
  <2> HIDE DEF b
  <2>3. fol[i].path \in Paths /\ fol[i] \in Follower
    BY <1>4, <1>11 DEF WellFormed, FollowError
  <2>4. r \in Follower
    BY <2>2, <2>3 DEF Follower
  <2>5. r.pc = "open" /\ r.path = fol[i].path
    BY <2>3 DEF Follower
  <2>6. WellFormed(r)
    BY <2>3, <2>5 DEF WellFormed
  <2> QED BY <1>1, <1>4, <2>1, <2>4, <2>6, OneFollower
<1>12. ASSUME NEW i \in Follows, FollowCancelled(i) PROVE TypeFol' /\ FolShape'
  <2> DEFINE r == [fol[i] EXCEPT !.pc = "done"]
  <2>1. fol' = [fol EXCEPT ![i] = r] /\ readPos' = readPos
    BY <1>4, <1>12 DEF FollowCancelled
  <2>2. r \in Follower /\ WellFormed(r)
    BY <1>4 DEF Follower, WellFormed
  <2> QED BY <1>1, <1>4, <2>1, <2>2, OneFollower
<1>13. ASSUME NEW i \in Follows, FollowProcess(i) PROVE TypeFol' /\ FolShape'
  <2> DEFINE r == [fol[i] EXCEPT !.pc = "advance"]
  <2>1. fol' = [fol EXCEPT ![i] = r] /\ readPos' = readPos
    BY <1>4, <1>13 DEF FollowProcess
  <2>2. r \in Follower /\ WellFormed(r)
    BY <1>4, <1>13 DEF Follower, WellFormed, FollowProcess
  <2> QED BY <1>1, <1>4, <2>1, <2>2, OneFollower
<1>14. ASSUME NEW i \in Follows, FollowAdvance(i) PROVE TypeFol' /\ FolShape'
  <2> DEFINE pc == IF fol[i].cancelled THEN "done" ELSE "read"
             piece == fol[i].bytes = 1 /\ ~fol[i].partial
             pos == IF piece THEN fol[i].pos ELSE fol[i].pos + 1
             r == [fol[i] EXCEPT !.pc = pc, !.partial = piece, !.line = NoLine,
                                 !.bytes = 2, !.turn = 0, !.pos = pos]
  <2>1. pc \in {"done", "read"} /\ piece \in BOOLEAN
    OBVIOUS
  <2>2. fol[i].pos \in Nat /\ fol[i].bytes \in {1, 2}
    BY <1>4, FollowerFields
  <2>3. pos \in Nat /\ readPos' \in Nat
    BY <1>4, <1>14, <2>2 DEF FollowAdvance
  <2>4. fol' = [fol EXCEPT ![i] = r]
    BY <1>4, <1>14 DEF FollowAdvance
  <2> HIDE DEF pc, piece, pos
  <2>5. r \in Follower /\ WellFormed(r)
    BY <1>4, <1>14, <2>1, <2>3, Constants
       DEF Follower, WellFormed, FollowAdvance, LineOrNone
  <2> QED BY <1>1, <2>3, <2>4, <2>5, OneFollower
<1> QED BY <1>2, <1>3, <1>5, <1>6, <1>9, <1>10, <1>11, <1>12, <1>13, <1>14
        DEF FollowStep

\* The set of outstanding Task calls and its counter go together.
LEMMA TaskStep ==
  ASSUME TypeInv, NEW i \in Follows, FollowProcess(i)
  PROVE  TypeTask' /\ TasksCounted'
<1> DEFINE l == fol[i].line
           t == fol[i].turn
           whole == fol[i].bytes = 2
<1>1. /\ taskUseIDs \subseteq Nat /\ taskCalls \in Nat /\ IsFiniteSet(taskUseIDs)
      /\ taskCalls = Cardinality(taskUseIDs)
      /\ l \in Script /\ t \in 0..MaxTurns /\ l.id \in Nat
  BY FollowerFields, Constants DEF TypeInv, TypeOK, TypeTask, TasksCounted,
     TypeFol, FolShape, WellFormed, FollowProcess
<1>2. processLine(l, t, whole)
  BY DEF FollowProcess
<1>3. /\ TasksOf(t) \subseteq Nat /\ IsFiniteSet(TasksOf(t))
      /\ CallsOf(t) = Cardinality(TasksOf(t)) /\ CallsOf(t) \in Nat
  BY <1>1, FS_EmptySet DEF TasksOf, CallsOf
<1> HIDE DEF l, t, whole
<1>4. CASE TaskLaunched(t, l.id)
  <2>1. /\ IsFiniteSet(TasksOf(t) \cup {l.id})
        /\ Cardinality(TasksOf(t) \cup {l.id}) =
             IF l.id \in TasksOf(t) THEN Cardinality(TasksOf(t))
             ELSE Cardinality(TasksOf(t)) + 1
    BY <1>3, FS_AddElement
  <2>2. taskCalls' = Cardinality(TasksOf(t) \cup {l.id}) /\ taskCalls' \in Nat
    BY <1>3, <1>4, <2>1 DEF TaskLaunched, NewCall
  <2> QED BY <1>1, <1>2, <1>3, <1>4, <2>1, <2>2
          DEF TaskLaunched, TypeTask, TasksCounted, processLine
<1>5. CASE TaskReturned(t, l.id)
  <2>1. /\ IsFiniteSet(TasksOf(t) \ {l.id})
        /\ Cardinality(TasksOf(t) \ {l.id}) =
             IF l.id \in TasksOf(t) THEN Cardinality(TasksOf(t)) - 1
             ELSE Cardinality(TasksOf(t))
    BY <1>3, FS_RemoveElement
  <2>2. Cardinality(TasksOf(t) \ {l.id}) \in Nat
    BY <2>1, FS_CardinalityType
  <2>3. taskCalls' = Cardinality(TasksOf(t) \ {l.id}) /\ taskCalls' \in Nat
    BY <1>3, <1>5, <2>1, <2>2 DEF TaskReturned, OpenCall
  <2> QED BY <1>1, <1>2, <1>3, <1>5, <2>1, <2>3
          DEF TaskReturned, TypeTask, TasksCounted, processLine
<1>6. CASE taskUseIDs' = TasksOf(t) /\ taskCalls' = CallsOf(t)
  BY <1>1, <1>2, <1>3, <1>6 DEF TypeTask, TasksCounted, processLine
<1> QED BY <1>2, <1>4, <1>5, <1>6 DEF processLine

\* A report is booked on the turn captured with its line.
LEMMA AccStep ==
  ASSUME TypeInv,
         \/ \E i \in Follows : FollowProcess(i)
         \/ \E t \in Turns : DrainInternalIssues(t)
  PROVE  TypeAcc'
<1>1. TypeAcc
  BY DEF TypeInv, TypeOK
<1>2. ASSUME NEW i \in Follows, FollowProcess(i) PROVE TypeAcc'
  <2>1. fol[i].line \in Script /\ fol[i].turn \in 0..MaxTurns
    BY <1>2, FollowerFields DEF TypeInv, TypeOK, TypeFol, FolShape, WellFormed,
       FollowProcess
  <2>2. processLine(fol[i].line, fol[i].turn, fol[i].bytes = 2)
    BY <1>2 DEF FollowProcess
  <2> QED BY <1>1, <2>1, <2>2 DEF processLine, accumulateInternalIssue, TypeAcc,
          accVars
<1>3. ASSUME NEW t \in Turns, DrainInternalIssues(t) PROVE TypeAcc'
  <2>1. 0 \in 0..MaxTurns
    BY Constants
  <2>2. CASE iiTurnID = t
    BY <1>1, <1>3, <2>1, <2>2 DEF DrainInternalIssues, TypeAcc
  <2>3. CASE iiTurnID # t
    BY <1>1, <1>3, <2>3 DEF DrainInternalIssues, TypeAcc, accVars
  <2> QED BY <2>2, <2>3
<1> QED BY <1>2, <1>3

\* A set of natural numbers that is not empty has a smallest one.
LEMMA Smallest ==
  ASSUME NEW T \in SUBSET Nat, T # {} PROVE \E x \in T : \A y \in T : x <= y
<1> DEFINE R == OpToRel(<, Nat)
<1>1. IsWellFoundedOn(R, Nat)
  BY NatLessThanWellFounded
<1>2. \A x, y \in Nat : x < y => <<x, y>> \in R
  BY DEF OpToRel
<1> HIDE DEF R
<1>3. PICK x \in T : \A y \in T : ~(<<y, x>> \in R)
  BY <1>1, WFMin
<1>4. ASSUME NEW y \in T PROVE x <= y
  <2>1. x \in Nat /\ y \in Nat /\ ~(y < x)
    BY <1>2, <1>3
  <2> QED BY <2>1
<1> QED BY <1>4

\* And when it is bounded, a largest one.
LEMMA Largest ==
  ASSUME NEW n \in Nat, NEW T \in SUBSET (0..n), T # {}
  PROVE  \E x \in T : \A y \in T : y <= x
<1> DEFINE U == {n - x : x \in T}
<1>1. U \in SUBSET Nat /\ U # {}
  <2>1. \A x \in T : x \in 0..n
    OBVIOUS
  <2>2. \A x \in 0..n : n - x \in Nat
    OBVIOUS
  <2>3. U \subseteq Nat
    BY <2>1, <2>2
  <2>4. PICK x \in T : TRUE
    OBVIOUS
  <2>5. n - x \in U
    BY <2>4
  <2> QED BY <2>3, <2>5
<1>2. PICK u \in U : \A v \in U : u <= v
  BY <1>1, Smallest
<1>3. PICK x \in T : u = n - x
  BY <1>2
<1>4. ASSUME NEW y \in T PROVE y <= x
  <2>1. n - y \in U
    OBVIOUS
  <2>2. n - x <= n - y
    BY <1>2, <1>3, <2>1
  <2> QED BY <2>2
<1> QED BY <1>4

\* The follower opened last is one of the followers.
LEMMA ReaderTyped == ASSUME TypeFol PROVE ReaderFile \in 0..MaxFiles
<1> DEFINE open == {i \in Follows : fol[i].file # 0}
           last == CHOOSE i \in open : \A j \in open : j <= i
<1>1. CASE open = {}
  BY <1>1, Constants DEF ReaderFile
<1>2. CASE open # {}
  <2>1. open \in SUBSET (0..MaxFollows) /\ MaxFollows \in Nat
    BY Constants DEF Follows
  <2>2. \E i \in open : \A j \in open : j <= i
    BY <1>2, <2>1, Largest
  <2>3. last \in open
    BY <2>2
  <2>4. fol[last].file \in 0..MaxFiles
    BY <2>3, FollowerFields DEF TypeFol
  <2> QED BY <1>2, <2>4 DEF ReaderFile
<1> QED BY <1>1, <1>2

\* The finalisers' drains stay typed.
LEMMA DrainsStep ==
  ASSUME TypeInv, NEW t \in Turns, DrainStep(t) \/ TurnEnds(t)
  PROVE  TypeDrain'
<1> DEFINE D == [pc : {"off", "stat", "wait", "drain", "done"}, target : Nat,
                 file : 0..MaxFiles, caught : 0..MaxFiles, got : SUBSET Script]
<1>1. TypeDrain /\ TypeDisk /\ TypeMgr /\ TypeFol /\ TypeAcc
  BY DEF TypeInv, TypeOK
<1>2. drain \in [Turns -> D] /\ drain[t] \in D
  BY <1>1 DEF TypeDrain
<1>3. ASSUME NEW r \in D, drain' = [drain EXCEPT ![t] = r] PROVE TypeDrain'
  BY <1>2, <1>3 DEF TypeDrain
<1>4. CASE TurnEnds(t)
  <2> DEFINE r == [drain[t] EXCEPT !.pc = "stat"]
  <2>1. r \in D /\ drain' = [drain EXCEPT ![t] = r]
    BY <1>2, <1>4 DEF TurnEnds
  <2> QED BY <1>3, <2>1
<1>5. CASE drain' = [drain EXCEPT ![t].pc = "drain"]
  <2> DEFINE r == [drain[t] EXCEPT !.pc = "drain"]
  <2>1. r \in D /\ drain' = [drain EXCEPT ![t] = r]
    BY <1>2, <1>5
  <2> QED BY <1>3, <2>1
<1>6. ASSUME NEW f \in Files,
             drain' = [drain EXCEPT ![t].pc = "wait", ![t].target = Size(f), ![t].file = f]
      PROVE  TypeDrain'
  <2> DEFINE r == [drain[t] EXCEPT !.pc = "wait", !.target = Size(f), !.file = f]
  <2>1. file[f] \in Seq(Script)
    BY <1>1 DEF TypeDisk
  <2>2. Size(f) \in Nat
    <3> DEFINE n == Len(file[f])
               b == IF torn[f] = NoLine THEN 0 ELSE 1
    <3>1. n \in Nat /\ b \in Nat
      BY <2>1
    <3>2. Size(f) = 2 * n + b
      BY DEF Size
    <3> HIDE DEF n, b
    <3> QED BY <3>1, <3>2
  <2>3. r \in D
    BY <1>2, <2>2, Constants
  <2>4. drain' = [drain EXCEPT ![t] = r]
    BY <1>2, <1>6
  <2> QED BY <1>3, <2>3, <2>4
<1>7. CASE DrainStat(t)
  <2>1. CASE transcriptPath # 0 /\ at[transcriptPath] # 0
    <3>1. at[transcriptPath] \in Files
      BY <1>1, <2>1, Constants DEF TypeDisk, TypeMgr, Paths
    <3> QED BY <1>6, <1>7, <2>1, <3>1 DEF DrainStat
  <2> QED BY <1>5, <1>7, <2>1 DEF DrainStat
<1>8. CASE DrainTimeout(t)
  BY <1>5, <1>8 DEF DrainTimeout
<1>9. CASE CaughtUpTo(t)
  <2> DEFINE r == [drain[t] EXCEPT !.pc = "drain", !.caught = ReaderFile]
  <2>1. ReaderFile \in 0..MaxFiles
    BY <1>1, ReaderTyped
  <2>2. r \in D /\ drain' = [drain EXCEPT ![t] = r]
    BY <1>2, <1>9, <2>1 DEF CaughtUpTo
  <2> QED BY <1>3, <2>2
<1>10. CASE DrainInternalIssues(t)
  <2> DEFINE g == IF iiTurnID = t THEN issues ELSE {}
             r == [drain[t] EXCEPT !.pc = "done", !.target = 0, !.file = 0,
                                   !.caught = 0, !.got = g]
  <2>1. g \in SUBSET Script
    BY <1>1 DEF TypeAcc
  <2>2. drain' = [drain EXCEPT ![t] = r]
    BY <1>2, <1>10 DEF DrainInternalIssues
  <2> HIDE DEF g
  <2>3. 0 \in Nat /\ 0 \in 0..MaxFiles
    BY Constants
  <2>4. r \in D
    BY <1>2, <2>1, <2>3
  <2> QED BY <1>3, <2>2, <2>4
<1> QED BY <1>4, <1>7, <1>8, <1>9, <1>10 DEF DrainStep

\* The manager's fields stay typed.
LEMMA MgrStep ==
  ASSUME TypeInv,
         \/ \E t \in Turns : TurnStep(t)
         \/ \E i \in Follows : awaitTranscriptFile(i)
  PROVE  TypeMgr'
<1>1. TypeMgr /\ writes \in Paths /\ Turns \subseteq 0..MaxTurns /\ 0 \in 0..MaxTurns
      /\ Paths \subseteq 0..2
  BY Constants DEF TypeInv, TypeOK, TypeDisk, Paths
<1>2. ASSUME NEW t \in Turns, Submit(t) PROVE TypeMgr'
  BY <1>1, <1>2 DEF TypeMgr, Submit
<1>3. ASSUME NEW t \in Turns, ensureTailerFollowing(t) PROVE TypeMgr'
  <2>1. tailerStarted' \in BOOLEAN
    BY <1>1, <1>3 DEF TypeMgr, ensureTailerFollowing
  <2> QED BY <1>1, <1>3, <2>1 DEF TypeMgr, ensureTailerFollowing
<1>4. ASSUME NEW t \in Turns, Complete(t) PROVE TypeMgr'
  <2>1. tailerStarted' \in BOOLEAN
    BY <1>4 DEF Complete
  <2> QED BY <1>1, <1>4, <2>1 DEF TypeMgr, Complete, TurnEnds
<1>5. ASSUME NEW t \in Turns, Fail(t) PROVE TypeMgr'
  BY <1>1, <1>5 DEF TypeMgr, Fail, TurnEnds
<1>6. ASSUME NEW i \in Follows, awaitTranscriptFile(i) PROVE TypeMgr'
  <2>1. transcriptPath' \in 0..2
    <3> DEFINE newest == IF at[writes] # 0 THEN writes ELSE 1
    <3>1. newest \in 0..2
      BY <1>1
    <3>2. transcriptPath' \in {transcriptPath, newest}
      BY <1>6 DEF awaitTranscriptFile
    <3> HIDE DEF newest
    <3> QED BY <1>1, <3>1, <3>2 DEF TypeMgr
  <2> QED BY <1>1, <1>6, <2>1 DEF TypeMgr, awaitTranscriptFile
<1> QED BY <1>2, <1>3, <1>4, <1>5, <1>6 DEF TurnStep

\* What happened stays typed.
LEMMA GhostStep ==
  ASSUME TypeInv,
         \/ ClaudeRestarts \/ ConcurrentMapWrites
         \/ \E t \in Turns : Submit(t) \/ DrainStat(t) \/ CaughtUpTo(t) \/ DrainTimeout(t)
         \/ \E i \in Follows : FollowOpen(i) \/ FollowError(i) \/ FollowProcess(i)
  PROVE  TypeGhost'
<1>1. /\ seen \subseteq Script /\ overlap \in BOOLEAN /\ disturbed \in BOOLEAN
      /\ faults \in 0..MaxFaults /\ crashed \in BOOLEAN /\ MaxFaults \in Nat
  BY Constants DEF TypeInv, TypeOK, TypeGhost
<1>2. overlap' \in BOOLEAN /\ crashed' \in BOOLEAN
  BY <1>1 DEF ClaudeRestarts, ConcurrentMapWrites, Submit, DrainStat, CaughtUpTo,
     DrainTimeout, FollowOpen, FollowError, FollowProcess, FinStay
<1>3. disturbed' \in BOOLEAN
  BY <1>1 DEF ClaudeRestarts, ConcurrentMapWrites, Submit, DrainStat, CaughtUpTo,
     DrainTimeout, FollowOpen, FollowError, FollowProcess
<1>4. faults' \in 0..MaxFaults
  <2>1. ASSUME NEW t \in Turns, Submit(t)
        PROVE  faults' = faults \/ (faults < MaxFaults /\ faults' = faults + 1)
    <3>1. CASE Early(t)
      BY <2>1, <3>1 DEF Submit
    <3>2. CASE ~Early(t)
      BY <1>1, <2>1, <3>2 DEF Submit
    <3> QED BY <3>1, <3>2
  <2>2. faults' = faults \/ (faults < MaxFaults /\ faults' = faults + 1)
    BY <2>1 DEF ClaudeRestarts, ConcurrentMapWrites, DrainStat, CaughtUpTo,
       DrainTimeout, FollowOpen, FollowError, FollowProcess, FinStay
  <2> QED BY <1>1, <2>2
<1>5. seen' \subseteq Script
  <2>1. ASSUME NEW i \in Follows, FollowProcess(i) PROVE seen' \subseteq Script
    BY <1>1, <2>1 DEF TypeInv, FolShape, WellFormed, FollowProcess
  <2>2. seen' = seen \/ \E i \in Follows : FollowProcess(i)
    BY DEF ClaudeRestarts, ConcurrentMapWrites, Submit, DrainStat, CaughtUpTo,
       DrainTimeout, FollowOpen, FollowError, FinStay
  <2> QED BY <1>1, <2>1, <2>2
<1> QED BY <1>2, <1>3, <1>4, <1>5 DEF TypeGhost

\* Every step keeps the types: per action, the parts it changes by the lemmas
\* above, the others by the frames.
LEMMA TypeStep == ASSUME TypeInv, [Next]_vars PROVE TypeInv'
<1> USE FrameDisk, FrameMgr, FrameFol, FrameAcc, FrameTask, FrameDrain,
        FrameGhost
<1> USE DEF TypeInv, TypeOK
<1>1. CASE ClaudeWrites \/ ClaudeEndsLine
  BY <1>1, DiskStep DEF ClaudeWrites, ClaudeEndsLine
<1>2. CASE ClaudeRestarts
  BY <1>2, DiskStep, GhostStep DEF ClaudeRestarts
<1>3. ASSUME NEW t \in Turns, Submit(t) PROVE TypeInv'
  <2>1. TypeMgr'
    BY <1>3, MgrStep DEF TurnStep
  <2>2. TypeGhost'
    BY <1>3, GhostStep
  <2> QED BY <1>3, <2>1, <2>2 DEF Submit
<1>4. ASSUME NEW t \in Turns, ensureTailerFollowing(t) PROVE TypeInv'
  <2>1. TypeMgr' /\ TypeFol' /\ FolShape'
    BY <1>4, MgrStep, FollowersStep DEF TurnStep
  <2> QED BY <1>4, <2>1 DEF ensureTailerFollowing
<1>5. ASSUME NEW t \in Turns, Complete(t) PROVE TypeInv'
  <2>1. TypeMgr' /\ TypeFol' /\ FolShape'
    BY <1>5, MgrStep, FollowersStep DEF TurnStep
  <2>2. TypeDrain'
    BY <1>5, DrainsStep DEF Complete
  <2> QED BY <1>5, <2>1, <2>2 DEF Complete
<1>6. ASSUME NEW t \in Turns, Fail(t) PROVE TypeInv'
  <2>1. TypeMgr' /\ TypeDrain'
    BY <1>6, MgrStep, DrainsStep DEF TurnStep, Fail
  <2> QED BY <1>6, <2>1 DEF Fail
<1>7. ASSUME NEW t \in Turns, DrainStep(t) PROVE TypeInv'
  <2>1. TypeDrain'
    BY <1>7, DrainsStep
  <2>2. CASE DrainStat(t) \/ CaughtUpTo(t) \/ DrainTimeout(t)
    <3>1. TypeGhost'
      BY <2>2, GhostStep
    <3> QED BY <2>1, <2>2, <3>1 DEF DrainStat, CaughtUpTo, DrainTimeout, FinStay
  <2>3. CASE DrainInternalIssues(t)
    <3>1. TypeAcc'
      BY <2>3, AccStep
    <3> QED BY <2>1, <2>3, <3>1 DEF DrainInternalIssues, FinStay, ghostVars
  <2> QED BY <1>7, <2>2, <2>3 DEF DrainStep
<1>8. ASSUME NEW i \in Follows, FollowStep(i) \/ FollowError(i) PROVE TypeInv'
  <2>1. TypeFol' /\ FolShape'
    BY <1>8, FollowersStep
  <2>2. CASE awaitTranscriptFile(i)
    <3>1. TypeMgr'
      BY <2>2, MgrStep
    <3> QED BY <2>1, <2>2, <3>1 DEF awaitTranscriptFile
  <2>3. CASE FollowOpen(i) \/ FollowError(i)
    <3>1. TypeGhost'
      BY <2>3, GhostStep
    <3> QED BY <2>1, <2>3, <3>1 DEF FollowOpen, FollowError, Stay
  <2>4. CASE FollowRead(i) \/ FollowEOF(i) \/ FollowCancelled(i) \/ FollowAdvance(i)
    BY <2>1, <2>4 DEF FollowRead, FollowEOF, FollowCancelled, FollowAdvance, Stay
  <2>5. CASE FollowProcess(i)
    <3>1. TypeGhost' /\ TypeAcc' /\ TypeTask' /\ TasksCounted'
      BY <2>5, GhostStep, AccStep, TaskStep
    <3> QED BY <2>1, <2>5, <3>1 DEF FollowProcess
  <2> QED BY <1>8, <2>2, <2>3, <2>4, <2>5 DEF FollowStep
<1>9. CASE ConcurrentMapWrites
  BY <1>9, GhostStep DEF ConcurrentMapWrites
<1>10. CASE UNCHANGED vars
  BY <1>10 DEF vars
<1> QED BY <1>1, <1>2, <1>3, <1>4, <1>5, <1>6, <1>7, <1>8, <1>9, <1>10
        DEF Next, TurnStep

\* Types hold throughout.
LEMMA TypeInvariance == Spec => []TypeInv
<1>1. Init => TypeInv
  BY TypeInit
<1>2. TypeInv /\ [Next]_vars => TypeInv'
  BY TypeStep
<1> QED BY <1>1, <1>2, PTL DEF Spec

\* The tailer's types, among them that the counter of outstanding Task calls
\* never falls below zero.
THEOREM TypeCorrect == Spec => []TypeOK
<1>1. TypeInv => TypeOK
  BY DEF TypeInv
<1> QED BY <1>1, TypeInvariance, PTL

----------------------------------------------------------------------------
(* Files: a line is written once, a file in use is only appended to, and a  *)
(* subagent's return comes after its call in every file that has both.      *)

Call(id) == [kind |-> "call", id |-> id]
Return(id) == [kind |-> "result", id |-> id]

\* Only files created so far have contents, a path or a reader.
Created ==
  /\ \A p \in Paths : at[p] <= inodes
  /\ \A i \in Follows : fol[i].file <= inodes
  /\ \A f \in Files : f > inodes => file[f] = << >> /\ torn[f] = NoLine

\* A line on disk was taken off claude's script; a half-written one is in no
\* file yet and half written in one file only.
WrittenOnce ==
  /\ \A f \in Files : /\ torn[f] \notin todo
                      /\ \A k \in DOMAIN file[f] : file[f][k] \notin todo
  /\ \A f, g \in Files : torn[f] # NoLine =>
       /\ torn[f] = torn[g] => f = g
       /\ ~Contains(g, torn[f])

\* A return that was written has its call on disk, complete.
CalledFirst ==
  \A id \in Nat : Return(id) \in Script \ todo => \E f \in Files : Contains(f, Call(id))

\* And in a file that has both, the call comes first.
CallsInOrder ==
  \A f \in Files : \A id \in Nat : \A k, m \in DOMAIN file[f] :
    file[f][k] = Return(id) /\ file[f][m] = Call(id) => m < k

FilesInv == TypeInv /\ Created /\ WrittenOnce /\ CalledFirst /\ CallsInOrder

\* Nothing is on disk at the start.
LEMMA FilesInit == ASSUME Init PROVE FilesInv
<1>1. TypeInv
  BY TypeInit
<1>2. Created
  BY Constants, StartedFollower DEF Init, Created, Paths
<1>3. WrittenOnce
  BY Constants DEF Init, WrittenOnce, Contains
<1>4. CalledFirst
  BY DEF Init, CalledFirst
<1>5. CallsInOrder
  BY DEF Init, CallsInOrder
<1> QED BY <1>1, <1>2, <1>3, <1>4, <1>5 DEF FilesInv

\* The files a step of anybody but claude leaves alone.
LEMMA FilesFrame ==
  ASSUME WrittenOnce, CalledFirst, CallsInOrder, UNCHANGED diskVars
  PROVE  WrittenOnce' /\ CalledFirst' /\ CallsInOrder'
BY DEF WrittenOnce, CalledFirst, CallsInOrder, Contains, diskVars

\* A follower reads a file that was created.
LEMMA ReadersStep ==
  ASSUME FilesInv, [Next]_vars
  PROVE  \A i \in Follows :
           fol'[i].file <= inodes /\ fol'[i].file \in 0..MaxFiles
<1>1. /\ TypeInv /\ Created /\ TypeInv' /\ fol \in [Follows -> Follower]
      /\ fol' \in [Follows -> Follower]
  BY TypeStep DEF FilesInv, TypeInv, TypeOK, TypeFol
<1>2. /\ \A i \in Follows : fol[i].file <= inodes /\ fol[i] \in Follower
      /\ \A i \in Follows : fol'[i].file \in 0..MaxFiles
  BY <1>1, FollowerFields DEF Created
<1>3. ASSUME UNCHANGED fol PROVE \A i \in Follows : fol'[i].file <= inodes
  BY <1>2, <1>3
<1>4. ASSUME NEW i \in Follows,
             \A j \in Follows : j # i => fol'[j] = fol[j],
             fol'[i].file <= inodes
      PROVE  \A j \in Follows : fol'[j].file <= inodes
  BY <1>2, <1>4
<1>5. inodes \in Nat /\ 0 <= inodes /\ 0 \in 0..2
  BY <1>1, Constants DEF TypeInv, TypeOK, TypeDisk
<1>6. ASSUME NEW t \in Turns, ensureTailerFollowing(t)
      PROVE  \A i \in Follows : fol'[i].file <= inodes
  <2>1. Started(0, "await").file = 0
    BY <1>5, StartedFollower
  <2> QED BY <1>1, <1>2, <1>3, <1>5, <1>6, <2>1 DEF ensureTailerFollowing
<1>7. ASSUME NEW t \in Turns, Complete(t)
      PROVE  \A i \in Follows : fol'[i].file <= inodes
  <2>1. Started(writes, "open").file = 0
    BY <1>1, StartedFollower DEF TypeInv, TypeOK, TypeDisk, Paths
  <2>2. \A i \in Follows : [fol[i] EXCEPT !.cancelled = i \in Running].file = fol[i].file
    BY <1>2 DEF Follower
  <2> QED BY <1>2, <1>3, <1>5, <1>7, <2>1, <2>2 DEF Complete
<1>8. ASSUME NEW i \in Follows, FollowOpen(i)
      PROVE  \A j \in Follows : fol'[j].file <= inodes
  <2>1. fol[i].path \in Paths
    BY <1>1, <1>8 DEF TypeInv, FolShape, WellFormed, FollowOpen
  <2>2. fol'[i].file = at[fol[i].path] /\ \A j \in Follows : j # i => fol'[j] = fol[j]
    BY <1>1, <1>8 DEF FollowOpen, Follower
  <2> QED BY <1>1, <1>4, <2>1, <2>2 DEF Created
<1>9. ASSUME NEW i \in Follows,
             \/ awaitTranscriptFile(i) \/ FollowRead(i) \/ FollowEOF(i)
             \/ FollowCancelled(i) \/ FollowProcess(i) \/ FollowAdvance(i)
             \/ FollowError(i)
      PROVE  \A j \in Follows : fol'[j].file <= inodes
  <2>1. \A j \in Follows : j # i => fol'[j] = fol[j]
    BY <1>1, <1>9 DEF awaitTranscriptFile, FollowRead, FollowEOF, FollowCancelled,
       FollowProcess, FollowAdvance, FollowError, HandOver
  <2>2. fol'[i].file = fol[i].file
    <3>1. CASE awaitTranscriptFile(i)
      BY <1>1, <3>1 DEF awaitTranscriptFile, Follower
    <3>2. CASE FollowRead(i)
      BY <1>1, <3>2 DEF FollowRead, HandOver, Follower
    <3>3. CASE FollowEOF(i)
      BY <1>1, <3>3 DEF FollowEOF, HandOver, Follower
    <3>4. CASE FollowCancelled(i) \/ FollowProcess(i) \/ FollowError(i)
      BY <1>1, <3>4 DEF FollowCancelled, FollowProcess, FollowError, Follower
    <3>5. CASE FollowAdvance(i)
      BY <1>1, <3>5 DEF FollowAdvance, Follower
    <3> QED BY <1>9, <3>1, <3>2, <3>3, <3>4, <3>5
  <2> QED BY <1>2, <1>4, <2>1, <2>2
<1>10. \/ UNCHANGED fol
       \/ \E t \in Turns : ensureTailerFollowing(t) \/ Complete(t)
       \/ \E i \in Follows : FollowStep(i) \/ FollowError(i)
  BY DEF Next, TurnStep, DrainStep, ClaudeWrites, ClaudeEndsLine, ClaudeRestarts,
     Submit, Fail, DrainStat, CaughtUpTo, DrainTimeout, DrainInternalIssues,
     FinStay, ConcurrentMapWrites, vars
<1> QED BY <1>2, <1>3, <1>6, <1>7, <1>8, <1>9, <1>10 DEF FollowStep

\* claude's steps keep the order of calls and returns; nobody else writes.
LEMMA FilesStep == ASSUME FilesInv, [Next]_vars PROVE FilesInv'
<1>1. /\ TypeInv /\ Created /\ WrittenOnce /\ CalledFirst /\ CallsInOrder
      /\ TypeInv'
  BY TypeStep DEF FilesInv
<1>2. /\ writes \in Paths /\ inodes \in Nat /\ inodes \in 0..MaxFiles
      /\ at \in [Paths -> 0..MaxFiles]
      /\ file \in [Files -> Seq(Script)] /\ torn \in [Files -> LineOrNone]
      /\ todo \subseteq Script
      /\ \A f \in Files : DOMAIN file[f] = 1..Len(file[f]) /\ Len(file[f]) \in Nat
      /\ \A f \in Files : f \in Nat
  BY <1>1, Constants DEF TypeInv, TypeOK, TypeDisk, Files
<1>3. \A i \in Follows : fol'[i].file <= inodes /\ fol'[i].file \in Nat
  BY ReadersStep, Constants
<1>4. CASE UNCHANGED diskVars
  <2>1. Created'
    BY <1>1, <1>3, <1>4 DEF Created, diskVars
  <2> QED BY <1>1, <1>4, <2>1, FilesFrame DEF FilesInv
<1>5. CASE ClaudeWrites
  <2>1. PICK l \in todo :
          /\ InOrder(l) /\ todo' = todo \ {l}
          /\ \/ at[writes] # 0 /\ UNCHANGED <<at, inodes>>
             \/ /\ at[writes] = 0 /\ Fresh \in Files
                /\ at' = [at EXCEPT ![writes] = Fresh] /\ inodes' = Fresh
          /\ torn' = [torn EXCEPT ![at'[writes]] = l]
    BY <1>5 DEF ClaudeWrites
  <2>2. /\ file' = file /\ l \in Script /\ l # NoLine
        /\ \A f \in Files : torn[f] # l /\ ~Contains(f, l)
    BY <1>1, <1>2, <1>5, <2>1, Constants DEF ClaudeWrites, WrittenOnce, Contains
  <2>3. /\ at'[writes] \in Files /\ inodes' >= inodes /\ inodes' \in Nat
        /\ at'[writes] <= inodes' /\ \A p \in Paths : at'[p] <= inodes'
    <3>1. CASE at[writes] # 0 /\ UNCHANGED <<at, inodes>>
      BY <1>1, <1>2, <3>1, Constants DEF Created
    <3>2. CASE /\ at[writes] = 0 /\ Fresh \in Files
               /\ at' = [at EXCEPT ![writes] = Fresh] /\ inodes' = Fresh
      BY <1>1, <1>2, <3>2 DEF Created, Fresh
    <3> QED BY <2>1, <3>1, <3>2
  <2>4. Created'
    <3>1. \A i \in Follows : fol'[i].file <= inodes'
      BY <1>2, <1>3, <2>3
    <3>2. ASSUME NEW f \in Files, f > inodes'
          PROVE  file'[f] = << >> /\ torn'[f] = NoLine
      BY <1>1, <1>2, <2>1, <2>2, <2>3, <3>2 DEF Created
    <3> QED BY <2>3, <3>1, <3>2 DEF Created
  <2>5. WrittenOnce'
    <3>1. \A f \in Files : torn'[f] \in {torn[f], l}
      BY <1>2, <2>1
    <3>2. \A f \in Files : torn'[f] \notin todo'
      BY <1>1, <2>1, <3>1 DEF WrittenOnce
    <3>3. \A f \in Files : \A k \in DOMAIN file'[f] : file'[f][k] \notin todo'
      BY <1>1, <2>1, <2>2 DEF WrittenOnce
    <3>4. ASSUME NEW f \in Files, NEW g \in Files, torn'[f] # NoLine
          PROVE  /\ torn'[f] = torn'[g] => f = g
                 /\ \A k \in DOMAIN file'[g] : file'[g][k] # torn'[f]
      <4>1. torn'[f] = torn'[g] => f = g
        BY <1>1, <1>2, <2>1, <2>2, <2>3, <3>4 DEF WrittenOnce
      <4>2. \A k \in DOMAIN file[g] : file[g][k] # torn'[f]
        BY <1>1, <2>2, <3>1, <3>4 DEF WrittenOnce, Contains
      <4> QED BY <2>2, <4>1, <4>2
    <3> QED BY <3>2, <3>3, <3>4 DEF WrittenOnce, Contains
  <2>6. CalledFirst'
    <3>1. ASSUME NEW id \in Nat, Return(id) \in Script \ todo'
          PROVE  \E f \in Files : Contains(f, Call(id))
      <4>1. CASE Return(id) = l
        <5>1. l.kind = "result" /\ l.id = id
          BY <4>1 DEF Return
        <5> QED BY <2>1, <5>1 DEF InOrder, Call
      <4>2. CASE Return(id) # l
        BY <1>1, <2>1, <3>1, <4>2 DEF CalledFirst
      <4> QED BY <4>1, <4>2
    <3> QED BY <2>2, <3>1 DEF CalledFirst, Contains
  <2>7. CallsInOrder'
    BY <1>1, <2>2 DEF CallsInOrder
  <2> QED BY <1>1, <2>4, <2>5, <2>6, <2>7 DEF FilesInv
<1>6. CASE ClaudeEndsLine
  <2> DEFINE f == at[writes]
             l == torn[f]
             n == Len(file[f]) + 1
  <2>1. /\ f \in Files /\ l \in Script /\ l # NoLine /\ n \in Nat
        /\ file' = [file EXCEPT ![f] = Append(file[f], l)]
        /\ torn' = [torn EXCEPT ![f] = NoLine]
        /\ UNCHANGED <<writes, inodes, at, todo>>
    BY <1>2, <1>6, Constants DEF ClaudeEndsLine, LineOrNone
  <2>2. /\ DOMAIN file'[f] = 1..n /\ file'[f][n] = l
        /\ \A k \in DOMAIN file[f] : file'[f][k] = file[f][k] /\ k < n
        /\ \A k \in DOMAIN file'[f] : k \in DOMAIN file[f] \/ k = n
        /\ \A k \in DOMAIN file[f] : k \in DOMAIN file'[f]
        /\ \A g \in Files : g # f => file'[g] = file[g]
    <3>1. file[f] \in Seq(Script) /\ file'[f] = Append(file[f], l)
      BY <1>2, <2>1
    <3>2. /\ DOMAIN file'[f] = 1..n /\ file'[f][n] = l
          /\ \A k \in 1..Len(file[f]) : file'[f][k] = file[f][k]
      BY <2>1, <3>1, Appended
    <3> QED BY <1>2, <2>1, <3>2
  <2>3. /\ l \notin todo
        /\ \A g \in Files : ~Contains(g, l) /\ (torn[g] = l => g = f)
    BY <1>1, <2>1 DEF WrittenOnce
  <2>4. \A g \in Files : torn'[g] = IF g = f THEN NoLine ELSE torn[g]
    BY <1>2, <2>1
  <2> HIDE DEF f, l, n
  <2>5. Created'
    <3>1. f <= inodes
      BY <1>1, <1>2 DEF Created, f
    <3>2. ASSUME NEW g \in Files, g > inodes PROVE file'[g] = << >> /\ torn'[g] = NoLine
      BY <1>1, <1>2, <2>1, <2>2, <2>4, <3>1, <3>2 DEF Created
    <3> QED BY <1>1, <1>3, <2>1, <3>2 DEF Created
  <2>6. \A g \in Files : \A x : Contains(g, x) => Contains(g, x)'
    BY <2>1, <2>2 DEF Contains
  <2>7. WrittenOnce'
    <3>1. NoLine \notin todo
      BY <1>2, Constants
    <3>2. \A g \in Files : torn'[g] \notin todo'
      BY <1>1, <2>1, <2>4, <3>1 DEF WrittenOnce
    <3>3. \A g \in Files : \A k \in DOMAIN file'[g] : file'[g][k] \notin todo'
      BY <1>1, <2>1, <2>2, <2>3 DEF WrittenOnce
    <3>4. ASSUME NEW g \in Files, NEW h \in Files, torn'[g] # NoLine
          PROVE  /\ torn'[g] = torn'[h] => g = h
                 /\ \A k \in DOMAIN file'[h] : file'[h][k] # torn'[g]
      <4>1. g # f /\ torn'[g] = torn[g] /\ torn[g] # l
        BY <2>3, <2>4, <3>4
      <4>2. torn'[g] = torn'[h] => g = h
        BY <1>1, <2>4, <3>4, <4>1 DEF WrittenOnce
      <4>3. ~Contains(h, torn[g]) /\ torn'[g] # l
        BY <1>1, <3>4, <4>1 DEF WrittenOnce
      <4>4. \A k \in DOMAIN file'[h] : file'[h][k] # torn[g]
        BY <2>2, <4>1, <4>3 DEF Contains
      <4> QED BY <4>1, <4>2, <4>4
    <3> QED BY <3>2, <3>3, <3>4 DEF WrittenOnce, Contains
  <2>8. CalledFirst'
    BY <1>1, <2>1, <2>6 DEF CalledFirst
  <2>9. CallsInOrder'
    <3>1. ASSUME NEW g \in Files, NEW id \in Nat, NEW k \in DOMAIN file'[g],
                 NEW m \in DOMAIN file'[g],
                 file'[g][k] = Return(id), file'[g][m] = Call(id)
          PROVE  m < k
      <4>1. CASE g # f
        BY <1>1, <2>2, <3>1, <4>1 DEF CallsInOrder
      <4>2. CASE g = f /\ m \in DOMAIN file[f] /\ k \in DOMAIN file[f]
        BY <1>1, <2>1, <2>2, <3>1, <4>2 DEF CallsInOrder
      <4>3. CASE g = f /\ m \in DOMAIN file[f] /\ k = n
        BY <2>2, <4>3
      <4>4. CASE g = f /\ m = n
        <5>1. l = Call(id) /\ Call(id) # Return(id)
          BY <2>2, <3>1, <4>4 DEF Call, Return
        <5>2. k \in DOMAIN file[f] /\ file[f][k] = Return(id)
          BY <2>2, <3>1, <4>4, <5>1
        <5>3. Return(id) \in Script \ todo
          BY <1>1, <1>2, <2>1, <5>2 DEF WrittenOnce
        <5>4. \E h \in Files : Contains(h, Call(id))
          BY <1>1, <5>3 DEF CalledFirst
        <5> QED BY <2>3, <5>1, <5>4
      <4> QED BY <2>2, <3>1, <4>1, <4>2, <4>3, <4>4
    <3> QED BY <3>1 DEF CallsInOrder
  <2> QED BY <1>1, <2>5, <2>7, <2>8, <2>9 DEF FilesInv
<1>7. CASE ClaudeRestarts
  <2>1. torn' = torn /\ todo' = todo
    BY <1>7 DEF ClaudeRestarts
  <2>2. CASE UNCHANGED <<inodes, at, file>>
    <3>1. Created'
      BY <1>1, <1>3, <2>1, <2>2 DEF Created
    <3>2. WrittenOnce' /\ CalledFirst' /\ CallsInOrder'
      BY <1>1, <2>1, <2>2 DEF WrittenOnce, CalledFirst, CallsInOrder, Contains
    <3> QED BY <1>1, <3>1, <3>2 DEF FilesInv
  <2>3. ASSUME at[writes] # 0, Fresh \in Files, NEW keep \in BOOLEAN,
               file' = [file EXCEPT ![Fresh] =
                          IF keep THEN file[at[writes]] ELSE << >>],
               at' = [at EXCEPT ![writes] = Fresh], inodes' = Fresh
        PROVE  FilesInv'
    <3>1. /\ at[writes] \in Files /\ Fresh > inodes /\ inodes' >= inodes
          /\ inodes' \in Nat /\ file[Fresh] = << >>
      BY <1>1, <1>2, <2>3, Constants DEF Fresh, Created
    <3>2. /\ file'[Fresh] = file[at[writes]] \/ file'[Fresh] = << >>
          /\ \A g \in Files : g # Fresh => file'[g] = file[g]
      BY <1>2, <2>3
    <3>3. Created'
      <4>1. \A p \in Paths : at'[p] <= inodes'
        BY <1>1, <1>2, <2>3, <3>1 DEF Created
      <4>2. \A i \in Follows : fol'[i].file <= inodes'
        BY <1>2, <1>3, <3>1
      <4>3. ASSUME NEW g \in Files, g > inodes' PROVE file'[g] = << >> /\ torn'[g] = NoLine
        <5>1. g # Fresh /\ g > inodes
          BY <1>2, <2>3, <3>1, <4>3
        <5> QED BY <1>1, <2>1, <3>2, <5>1 DEF Created
      <4> QED BY <4>1, <4>2, <4>3 DEF Created
    <3>4. \A g \in Files : \A k \in DOMAIN file'[g] :
            \E h \in Files : k \in DOMAIN file[h] /\ file'[g][k] = file[h][k]
      BY <3>1, <3>2
    <3>5. WrittenOnce'
      <4>1. \A g \in Files : \A k \in DOMAIN file'[g] : file'[g][k] \notin todo'
        BY <1>1, <2>1, <3>4 DEF WrittenOnce
      <4>2. ASSUME NEW g \in Files, NEW h \in Files, torn'[h] # NoLine
            PROVE  \A k \in DOMAIN file'[g] : file'[g][k] # torn'[h]
        BY <1>1, <2>1, <3>4, <4>2 DEF WrittenOnce, Contains
      <4> QED BY <1>1, <2>1, <4>1, <4>2 DEF WrittenOnce, Contains
    <3>6. CalledFirst'
      <4>1. \A g \in Files : \A x : Contains(g, x) => Contains(g, x)'
        BY <3>1, <3>2 DEF Contains
      <4> QED BY <1>1, <2>1, <4>1 DEF CalledFirst
    <3>7. CallsInOrder'
      BY <1>1, <3>1, <3>2 DEF CallsInOrder
    <3> QED BY <1>1, <3>3, <3>5, <3>6, <3>7 DEF FilesInv
  <2> QED BY <1>7, <2>2, <2>3 DEF ClaudeRestarts
<1>8. ClaudeWrites \/ ClaudeEndsLine \/ ClaudeRestarts \/ UNCHANGED diskVars
  BY DEF Next, TurnStep, DrainStep, FollowStep, Submit, ensureTailerFollowing,
     Complete, Fail, DrainStat, CaughtUpTo, DrainTimeout, DrainInternalIssues,
     awaitTranscriptFile, FollowOpen, FollowRead, FollowEOF, FollowCancelled,
     FollowProcess, FollowAdvance, FollowError, Stay, FinStay,
     ConcurrentMapWrites, vars
<1> QED BY <1>4, <1>5, <1>6, <1>7, <1>8

\* A file that was created is only appended to.
LEMMA FilesGrow ==
  ASSUME FilesInv, [Next]_vars, NEW f \in Files, f <= inodes
  PROVE  /\ Len(file[f]) \in Nat /\ Len(file'[f]) \in Nat
         /\ Len(file[f]) <= Len(file'[f])
         /\ \A k \in 1..Len(file[f]) : file'[f][k] = file[f][k]
<1>1. /\ file \in [Files -> Seq(Script)] /\ inodes \in Nat
      /\ file[f] \in Seq(Script) /\ f \in Nat
      /\ at \in [Paths -> 0..MaxFiles] /\ torn \in [Files -> LineOrNone]
      /\ writes \in Paths /\ Created
  BY Constants DEF FilesInv, TypeInv, TypeOK, TypeDisk, Files
<1>2. CASE file'[f] = file[f]
  BY <1>1, <1>2
<1>3. CASE ClaudeEndsLine
  <2>1. at[writes] \in Files /\ torn[at[writes]] \in Script
    BY <1>1, <1>3, Constants DEF ClaudeEndsLine, LineOrNone
  <2>2. \/ file'[f] = file[f]
        \/ file'[f] = Append(file[f], torn[at[writes]])
    BY <1>1, <1>3, <2>1 DEF ClaudeEndsLine
  <2>3. CASE file'[f] = Append(file[f], torn[at[writes]])
    BY <1>1, <2>1, <2>3, Appended
  <2> QED BY <1>2, <2>2, <2>3
<1>4. CASE ClaudeRestarts
  <2>1. Fresh # f
    BY <1>1 DEF Fresh
  <2> QED BY <1>1, <1>2, <1>4, <2>1 DEF ClaudeRestarts
<1>5. ClaudeEndsLine \/ ClaudeRestarts \/ file' = file
  BY DEF Next, TurnStep, DrainStep, FollowStep, ClaudeWrites, Submit,
     ensureTailerFollowing, Complete, Fail, DrainStat, CaughtUpTo,
     DrainTimeout, DrainInternalIssues, awaitTranscriptFile, FollowOpen,
     FollowRead, FollowEOF, FollowCancelled, FollowProcess, FollowAdvance,
     FollowError, Stay, FinStay, ConcurrentMapWrites, vars, diskVars
<1> QED BY <1>2, <1>3, <1>4, <1>5

----------------------------------------------------------------------------
(* Reading, and the Task calls a follower leaves outstanding *)

Busy(r) == r.pc \in {"read", "process", "advance"}

\* A first part of a huge line, handed over before the line was complete.
Piece(r) == r.bytes = 1 /\ ~r.partial

\* The follower is within its file s, the line it works on is the next one,
\* and only a huge line is handed over in parts.
ReadsWell(r, s) ==
  /\ r.pos <= Len(s)
  /\ r.pc \in {"process", "advance"} =>
       /\ Piece(r) \/ (r.pos < Len(s) /\ r.line = s[r.pos + 1])
       /\ r.bytes = 1 => r.line.kind = "huge"

\* None of the calls ids has returned among the lines read so far.
NoneReturned(r, s, ids) ==
  \A id \in ids : /\ \A k \in 1..r.pos : s[k] # Return(id)
                  /\ r.pc = "advance" => r.line # Return(id)

OneReader ==
  ~overlap => \A i, j \in Follows : Busy(fol[i]) /\ Busy(fol[j]) => i = j
Reading ==
  \A i \in Follows : Busy(fol[i]) => ReadsWell(fol[i], file[fol[i].file])
Outstanding ==
  ~overlap => \A i \in Follows : Busy(fol[i]) =>
                NoneReturned(fol[i], file[fol[i].file], taskUseIDs)

\* The inductive invariant.  That a call read now has not returned already
\* needs the order of the lines on disk; that the line a follower reports as
\* read is the one it processed needs that files are only appended to.
ReadInv == FilesInv /\ OneReader /\ Reading /\ Outstanding

\* Nobody reads at the start.
LEMMA ReadInit == ASSUME Init PROVE ReadInv
<1>1. FilesInv
  BY FilesInit
<1>2. \A i \in Follows : ~Busy(fol[i])
  BY StartedFollower DEF Init, Busy
<1> QED BY <1>1, <1>2 DEF ReadInv, OneReader, Reading, Outstanding

\* A busy follower's file was created, so it keeps what was read of it.
LEMMA ReaderKeeps ==
  ASSUME ReadInv, [Next]_vars, NEW i \in Follows, Busy(fol[i])
  PROVE  /\ ReadsWell(fol[i], file'[fol[i].file])
         /\ ~overlap => NoneReturned(fol[i], file'[fol[i].file], taskUseIDs)
         /\ fol[i].file \in Files /\ fol[i].pos \in Nat
<1>1. /\ FilesInv /\ fol[i] \in Follower
      /\ ReadsWell(fol[i], file[fol[i].file])
      /\ ~overlap => NoneReturned(fol[i], file[fol[i].file], taskUseIDs)
  BY DEF ReadInv, FilesInv, TypeInv, TypeOK, TypeFol, Reading, Outstanding
<1>2. fol[i].file \in Files /\ fol[i].pos \in Nat /\ fol[i].file <= inodes
  BY <1>1, FollowerFields DEF FilesInv, TypeInv, FolShape, WellFormed, Busy, Created
<1>3. /\ Len(file[fol[i].file]) \in Nat /\ Len(file'[fol[i].file]) \in Nat
      /\ Len(file[fol[i].file]) <= Len(file'[fol[i].file])
      /\ \A k \in 1..Len(file[fol[i].file]) :
           file'[fol[i].file][k] = file[fol[i].file][k]
  BY <1>1, <1>2, FilesGrow
<1>4. ReadsWell(fol[i], file'[fol[i].file])
  <2> DEFINE s == file[fol[i].file]
             z == file'[fol[i].file]
             p == fol[i].pos
  <2>1. p \in Nat /\ Len(s) \in Nat /\ Len(z) \in Nat /\ Len(s) <= Len(z) /\ p <= Len(s)
    BY <1>1, <1>2, <1>3 DEF ReadsWell
  <2>2. p < Len(s) => s[p + 1] = z[p + 1]
    <3>1. p < Len(s) => p + 1 \in 1..Len(s)
      BY <2>1
    <3> QED BY <1>3, <3>1
  <2>3. p <= Len(z) /\ (p < Len(s) => p < Len(z))
    BY <2>1
  <2>4. /\ p <= Len(s)
        /\ fol[i].pc \in {"process", "advance"} =>
             /\ Piece(fol[i]) \/ (p < Len(s) /\ fol[i].line = s[p + 1])
             /\ fol[i].bytes = 1 => fol[i].line.kind = "huge"
    BY <1>1 DEF ReadsWell
  <2>5. /\ p <= Len(z)
        /\ fol[i].pc \in {"process", "advance"} =>
             /\ Piece(fol[i]) \/ (p < Len(z) /\ fol[i].line = z[p + 1])
             /\ fol[i].bytes = 1 => fol[i].line.kind = "huge"
    <3> HIDE DEF s, z, p
    <3> QED BY <2>2, <2>3, <2>4
  <2> QED BY <2>5 DEF ReadsWell
<1>5. ~overlap => NoneReturned(fol[i], file'[fol[i].file], taskUseIDs)
  BY <1>1, <1>2, <1>3 DEF ReadsWell, NoneReturned
<1> QED BY <1>2, <1>4, <1>5

\* A step that leaves a follower busy only as it was.
Idles(i) ==
  \/ ~Busy(fol'[i])
  \/ /\ fol'[i].pc = fol[i].pc /\ fol'[i].pos = fol[i].pos
     /\ fol'[i].file = fol[i].file /\ fol'[i].line = fol[i].line
     /\ fol'[i].bytes = fol[i].bytes /\ fol'[i].partial = fol[i].partial
  \/ fol'[i] = fol[i]

\* Such a step keeps what is known of it.
LEMMA IdleKeeps ==
  ASSUME ReadInv, [Next]_vars, NEW i \in Follows, Idles(i), Busy(fol'[i])
  PROVE  /\ Busy(fol[i]) /\ ReadsWell(fol'[i], file'[fol'[i].file])
         /\ ~overlap => NoneReturned(fol'[i], file'[fol'[i].file], taskUseIDs)
<1>1. Busy(fol[i]) /\ fol'[i].file = fol[i].file
  BY DEF Idles, Busy
<1>2. /\ ReadsWell(fol[i], file'[fol[i].file])
      /\ ~overlap => NoneReturned(fol[i], file'[fol[i].file], taskUseIDs)
  BY <1>1, ReaderKeeps
<1> HIDE DEF Busy
<1>3. ReadsWell(fol'[i], file'[fol'[i].file])
  BY <1>1, <1>2 DEF Idles, ReadsWell, Piece
<1>4. ~overlap => NoneReturned(fol'[i], file'[fol'[i].file], taskUseIDs)
  BY <1>1, <1>2 DEF Idles, NoneReturned
<1> QED BY <1>1, <1>3, <1>4

\* When every follower idles and no call is noted, the invariant is kept.
LEMMA AllIdle ==
  ASSUME ReadInv, [Next]_vars, \A i \in Follows : Idles(i),
         UNCHANGED <<taskUseIDs, overlap>>
  PROVE  OneReader' /\ Reading' /\ Outstanding'
<1>1. ASSUME NEW i \in Follows, Busy(fol'[i])
      PROVE  /\ Busy(fol[i]) /\ ReadsWell(fol'[i], file'[fol'[i].file])
             /\ ~overlap => NoneReturned(fol'[i], file'[fol'[i].file], taskUseIDs)
  BY <1>1, IdleKeeps
<1>2. OneReader'
  BY <1>1 DEF ReadInv, OneReader
<1>3. Reading'
  BY <1>1 DEF Reading
<1>4. Outstanding'
  BY <1>1 DEF Outstanding
<1> QED BY <1>2, <1>3, <1>4

\* When one follower moves, the others idle: enough to look at that one.
LEMMA OneMoves ==
  ASSUME ReadInv, [Next]_vars, NEW i \in Follows,
         \A j \in Follows : j # i => fol'[j] = fol[j],
         overlap' = overlap, Busy(fol[i]) \/ ~Busy(fol'[i]),
         taskUseIDs' = taskUseIDs \/ Busy(fol[i]),
         Busy(fol'[i]) => ReadsWell(fol'[i], file'[fol'[i].file]),
         ~overlap /\ Busy(fol'[i]) =>
           NoneReturned(fol'[i], file'[fol'[i].file], taskUseIDs')
  PROVE  OneReader' /\ Reading' /\ Outstanding'
<1>1. ASSUME NEW j \in Follows, j # i, Busy(fol'[j])
      PROVE  /\ Busy(fol[j]) /\ ReadsWell(fol'[j], file'[fol'[j].file])
             /\ ~overlap => NoneReturned(fol'[j], file'[fol'[j].file], taskUseIDs)
  BY <1>1, IdleKeeps DEF Idles
<1>2. OneReader'
  BY <1>1 DEF ReadInv, OneReader
<1>3. Reading'
  BY <1>1 DEF Reading
<1>4. ASSUME ~overlap, NEW j \in Follows, Busy(fol'[j])
      PROVE  NoneReturned(fol'[j], file'[fol'[j].file], taskUseIDs')
  <2>1. CASE j = i
    BY <1>4, <2>1
  <2>2. CASE j # i
    <3>1. Busy(fol[j]) /\ NoneReturned(fol'[j], file'[fol'[j].file], taskUseIDs)
      BY <1>1, <1>4, <2>2
    <3>2. ~Busy(fol[i])
      BY <1>4, <2>2, <3>1 DEF ReadInv, OneReader
    <3> QED BY <3>1, <3>2
  <2> QED BY <2>1, <2>2
<1>5. Outstanding'
  BY <1>4 DEF Outstanding
<1> QED BY <1>2, <1>3, <1>5

\* Opening: the follower is at the start, and another busy one is noted.
LEMMA OpenReads ==
  ASSUME ReadInv, [Next]_vars, NEW i \in Follows, FollowOpen(i)
  PROVE  OneReader' /\ Reading' /\ Outstanding'
<1>1. /\ fol \in [Follows -> Follower] /\ taskUseIDs' = taskUseIDs
      /\ file' = file /\ FilesInv' /\ fol' \in [Follows -> Follower]
  BY FilesStep DEF ReadInv, FilesInv, TypeInv, TypeOK, TypeFol, FollowOpen, Stay,
     diskVars, taskVars
<1>2. \A j \in Follows : j # i => fol'[j] = fol[j]
  BY <1>1 DEF FollowOpen
<1>3. fol'[i].pos = 0 /\ fol'[i].pc \in {"read", "done"}
  BY <1>1 DEF FollowOpen, Follower
<1>4. ASSUME ~overlap' PROVE ~overlap /\ \A j \in Follows : j # i => ~Busy(fol'[j])
  BY <1>2, <1>4 DEF FollowOpen, Busy
<1>5. ASSUME NEW j \in Follows, j # i, Busy(fol'[j])
      PROVE  ReadsWell(fol'[j], file'[fol'[j].file])
  BY <1>2, <1>5, IdleKeeps DEF Idles
<1>6. Busy(fol'[i]) => ReadsWell(fol'[i], file'[fol'[i].file])
  <2>1. ASSUME Busy(fol'[i]) PROVE Len(file'[fol'[i].file]) \in Nat
    <3>1. fol'[i].file \in Files
      <4>1. TypeInv' /\ WellFormed(fol'[i]) /\ fol'[i] \in Follower
        BY <1>1 DEF FilesInv, TypeInv, FolShape
      <4> QED BY <2>1, <4>1, FollowerFields DEF WellFormed, Busy
    <3>2. file' \in [Files -> Seq(Script)]
      BY <1>1 DEF FilesInv, TypeInv, TypeOK, TypeDisk
    <3> QED BY <3>1, <3>2
  <2> QED BY <1>3, <2>1 DEF ReadsWell
<1>7. NoneReturned(fol'[i], file'[fol'[i].file], taskUseIDs')
  BY <1>3 DEF NoneReturned
<1>8. OneReader'
  BY <1>4 DEF OneReader
<1>9. Reading'
  BY <1>5, <1>6 DEF Reading
<1>10. Outstanding'
  BY <1>4, <1>7 DEF Outstanding
<1> QED BY <1>8, <1>9, <1>10

\* A line, or the first part of a huge one, is handed to processLine.
LEMMA ReadReads ==
  ASSUME ReadInv, [Next]_vars, NEW i \in Follows, FollowRead(i) \/ FollowEOF(i)
  PROVE  OneReader' /\ Reading' /\ Outstanding'
<1>1. /\ fol \in [Follows -> Follower] /\ fol[i] \in Follower
      /\ UNCHANGED <<taskUseIDs, overlap, file>> /\ Busy(fol[i])
  BY DEF ReadInv, FilesInv, TypeInv, TypeOK, TypeFol, FollowRead, FollowEOF, Stay,
     diskVars, taskVars, ghostVars, Busy
<1>2. \A j \in Follows : j # i => fol'[j] = fol[j]
  BY <1>1 DEF FollowRead, FollowEOF, HandOver
<1>3. /\ fol[i].pos \in Nat /\ Len(file[fol[i].file]) \in Nat
      /\ fol[i].pos <= Len(file[fol[i].file])
      /\ ~overlap => NoneReturned(fol[i], file[fol[i].file], taskUseIDs)
  <2>1. fol[i].file \in Files /\ fol[i].pos \in Nat
    BY <1>1, ReaderKeeps
  <2>2. file \in [Files -> Seq(Script)]
    BY DEF ReadInv, FilesInv, TypeInv, TypeOK, TypeDisk
  <2> QED BY <1>1, <2>1, <2>2 DEF ReadInv, Reading, Outstanding, ReadsWell
<1>4. /\ fol'[i].pos = fol[i].pos /\ fol'[i].file = fol[i].file
      /\ fol'[i].pc # "advance"
  <2>1. CASE FollowRead(i)
    BY <1>1, <2>1 DEF FollowRead, HandOver, Follower
  <2>2. CASE FollowEOF(i)
    BY <1>1, <2>2 DEF FollowEOF, HandOver, Follower
  <2> QED BY <2>1, <2>2
<1>5. ReadsWell(fol'[i], file'[fol'[i].file])
  <2>1. CASE FollowRead(i)
    <3> DEFINE l == file[fol[i].file][fol[i].pos + 1]
               n == IF l.kind = "huge" /\ fol[i].partial THEN 1 ELSE 2
    <3>1. fol[i].pos < Len(file[fol[i].file]) /\ HandOver(i, l, n)
      BY <2>1 DEF FollowRead
    <3>2. fol'[i].line = l /\ fol'[i].bytes = n
      BY <1>1, <3>1 DEF HandOver, Follower
    <3>3. fol'[i].bytes = 1 => fol'[i].line.kind = "huge"
      BY <3>2
    <3> HIDE DEF l, n
    <3>4. fol'[i].pos < Len(file'[fol'[i].file])
          /\ fol'[i].line = file'[fol'[i].file][fol'[i].pos + 1]
      BY <1>1, <1>4, <3>1, <3>2 DEF l
    <3>5. fol'[i].pos <= Len(file'[fol'[i].file])
      BY <1>1, <1>3, <1>4
    <3> QED BY <3>3, <3>4, <3>5 DEF ReadsWell
  <2>2. CASE FollowEOF(i)
    <3>1. fol'[i].pos <= Len(file'[fol'[i].file])
      BY <1>1, <1>3, <1>4
    <3>2. CASE fol'[i].pc \in {"process", "advance"}
      <4>1. torn[fol[i].file].kind = "huge" /\ ~fol[i].partial
            /\ HandOver(i, torn[fol[i].file], 1)
        <5>1. ASSUME fol' = [fol EXCEPT
                       ![i].pc = IF Replaced(i) THEN "open"
                                 ELSE IF fol[i].cancelled THEN "done" ELSE "read",
                       ![i].partial = torn[fol[i].file] # NoLine /\ ~Replaced(i)]
              PROVE  FALSE
          BY <1>1, <3>2, <5>1 DEF Follower
        <5> QED BY <2>2, <5>1 DEF FollowEOF
      <4>2. fol'[i].bytes = 1 /\ fol'[i].line = torn[fol[i].file]
            /\ fol'[i].partial = fol[i].partial
        BY <1>1, <4>1 DEF HandOver, Follower
      <4>3. Piece(fol'[i]) /\ fol'[i].line.kind = "huge"
        BY <4>1, <4>2 DEF Piece
      <4> QED BY <3>1, <4>3 DEF ReadsWell
    <3> QED BY <3>1, <3>2 DEF ReadsWell
  <2> QED BY <2>1, <2>2
<1>6. ~overlap => NoneReturned(fol'[i], file'[fol'[i].file], taskUseIDs')
  BY <1>1, <1>3, <1>4 DEF NoneReturned
<1> QED BY <1>1, <1>2, <1>5, <1>6, OneMoves

\* processLine: a call is new to the file, a return takes its call away.
LEMMA ProcessReads ==
  ASSUME ReadInv, [Next]_vars, NEW i \in Follows, FollowProcess(i)
  PROVE  OneReader' /\ Reading' /\ Outstanding'
<1> DEFINE r == fol[i]
           s == file[fol[i].file]
           l == fol[i].line
<1>1. /\ fol \in [Follows -> Follower] /\ r \in Follower /\ WellFormed(r)
      /\ UNCHANGED <<overlap, file>> /\ Busy(r) /\ r.pc = "process"
      /\ FilesInv /\ fol' = [fol EXCEPT ![i].pc = "advance"]
  BY DEF ReadInv, FilesInv, TypeInv, TypeOK, TypeFol, FolShape, FollowProcess,
     diskVars, Busy
<1>2. /\ \A j \in Follows : j # i => fol'[j] = fol[j]
      /\ fol'[i] = [r EXCEPT !.pc = "advance"]
  BY <1>1
<1>3. /\ fol'[i].pos = r.pos /\ fol'[i].file = r.file /\ fol'[i].line = l
      /\ fol'[i].bytes = r.bytes /\ fol'[i].partial = r.partial
      /\ fol'[i].pc = "advance"
  BY <1>1, <1>2 DEF Follower
<1>4. /\ r.file \in Files /\ r.pos \in Nat /\ l \in Script
      /\ s \in Seq(Script) /\ Len(s) \in Nat /\ DOMAIN s = 1..Len(s)
  BY <1>1, FollowerFields DEF WellFormed, FilesInv, TypeInv, TypeOK, TypeDisk
<1>5. ReadsWell(r, s) /\ (~overlap => NoneReturned(r, s, taskUseIDs))
  BY <1>1 DEF ReadInv, Reading, Outstanding
<1>6. ReadsWell(fol'[i], file'[fol'[i].file])
  BY <1>1, <1>3, <1>5 DEF ReadsWell, Piece
<1>7. ASSUME ~overlap
      PROVE  NoneReturned(fol'[i], file'[fol'[i].file], taskUseIDs')
  <2>1. taskUseIDs \subseteq Nat /\ TasksOf(r.turn) \subseteq taskUseIDs
    BY <1>1 DEF FilesInv, TypeInv, TypeOK, TypeTask, TasksOf
  <2>2. /\ r.bytes = 2 /\ l.kind = "call" => taskUseIDs' = TasksOf(r.turn) \cup {l.id}
        /\ r.bytes = 2 /\ l.kind = "result" => taskUseIDs' = TasksOf(r.turn) \ {l.id}
        /\ ~(r.bytes = 2 /\ l.kind \in {"call", "result"}) => taskUseIDs' = TasksOf(r.turn)
    BY DEF FollowProcess, processLine, TaskLaunched, TaskReturned
  <2>3. /\ l = [kind |-> l.kind, id |-> l.id] /\ l.id \in Nat
    BY <1>4, ScriptAssumption
  <2>4. r.bytes # 2 => l.kind = "huge"
    BY <1>1, <1>5, FollowerFields DEF ReadsWell
  <2>5. ASSUME NEW id \in taskUseIDs'
        PROVE  l # Return(id) /\ \A k \in 1..r.pos : s[k] # Return(id)
    <3>1. CASE r.bytes = 2 /\ l.kind = "call" /\ id = l.id
      <4>1. l = Call(id) /\ l # Return(id) /\ id \in Nat
        BY <2>3, <3>1 DEF Call, Return
      <4>2. r.pos < Len(s) /\ s[r.pos + 1] = l
        BY <1>1, <1>5, <3>1 DEF ReadsWell, Piece
      <4>3. r.pos + 1 \in DOMAIN s /\ \A k \in 1..r.pos : k \in DOMAIN s /\ ~(r.pos + 1 < k)
        BY <1>4, <4>2
      <4>4. \A k, m \in DOMAIN s : s[k] = Return(id) /\ s[m] = Call(id) => m < k
        BY <1>1, <1>4, <4>1 DEF FilesInv, CallsInOrder
      <4>5. \A k \in 1..r.pos : s[k] # Return(id)
        <5> HIDE DEF s, r, l
        <5> QED BY <4>1, <4>2, <4>3, <4>4
      <4> QED BY <4>1, <4>5
    <3>2. CASE ~(r.bytes = 2 /\ l.kind = "call" /\ id = l.id)
      <4>1. id \in taskUseIDs
        BY <2>1, <2>2, <2>5, <3>2
      <4>2. \A k \in 1..r.pos : s[k] # Return(id)
        BY <1>5, <1>7, <4>1 DEF NoneReturned
      <4>3. ASSUME l = Return(id) PROVE FALSE
        <5>1. l.kind = "result" /\ l.id = id
          BY <4>3 DEF Return
        <5>2. r.bytes = 2
          BY <2>4, <5>1
        <5> QED BY <2>2, <2>5, <5>1, <5>2
      <4> QED BY <4>2, <4>3
    <3> QED BY <3>1, <3>2
  <2> HIDE DEF r, s, l
  <2>6. file'[fol'[i].file] = s /\ fol'[i].pos = r.pos /\ fol'[i].line = l
    BY <1>1, <1>3 DEF r, s, l
  <2> QED BY <2>5, <2>6 DEF NoneReturned
<1>8. Busy(fol[i])
  BY <1>1
<1> QED BY <1>1, <1>2, <1>6, <1>7, <1>8, OneMoves

\* After processLine the follower is past the line, or inside it.
LEMMA AdvanceReads ==
  ASSUME ReadInv, [Next]_vars, NEW i \in Follows, FollowAdvance(i)
  PROVE  OneReader' /\ Reading' /\ Outstanding'
<1> DEFINE r == fol[i]
           s == file[fol[i].file]
<1>1. /\ fol \in [Follows -> Follower] /\ r \in Follower /\ WellFormed(r)
      /\ UNCHANGED <<taskUseIDs, overlap, file>> /\ Busy(r) /\ r.pc = "advance"
      /\ file \in [Files -> Seq(Script)]
  BY DEF ReadInv, FilesInv, TypeInv, TypeOK, TypeFol, TypeDisk, FolShape,
     FollowAdvance, Stay, diskVars, taskVars, ghostVars, Busy
<1>2. \A j \in Follows : j # i => fol'[j] = fol[j]
  BY <1>1 DEF FollowAdvance
<1>3. /\ fol'[i].pc \in {"done", "read"} /\ fol'[i].file = r.file
      /\ Piece(r) => fol'[i].pos = r.pos
      /\ ~Piece(r) => fol'[i].pos = r.pos + 1
  BY <1>1 DEF FollowAdvance, Follower, Piece
<1>4. r.file \in Files /\ r.pos \in Nat /\ Len(s) \in Nat
  BY <1>1, FollowerFields DEF WellFormed
<1>5. ReadsWell(r, s) /\ (~overlap => NoneReturned(r, s, taskUseIDs))
  BY <1>1 DEF ReadInv, Reading, Outstanding
<1>6. /\ r.pos <= Len(s)
      /\ ~Piece(r) => r.pos < Len(s) /\ r.line = s[r.pos + 1]
  BY <1>1, <1>5 DEF ReadsWell
<1>7. file'[fol'[i].file] = s
  BY <1>1, <1>3
<1>8. ~overlap => \A id \in taskUseIDs : r.line # Return(id) /\ \A k \in 1..r.pos : s[k] # Return(id)
  BY <1>1, <1>5 DEF NoneReturned
<1>9. fol'[i].pos <= Len(s) /\ \A k \in 1..fol'[i].pos : k \in 1..r.pos \/ (~Piece(r) /\ k = r.pos + 1)
  <2> HIDE DEF r, s
  <2> QED BY <1>3, <1>4, <1>6
<1>10. ReadsWell(fol'[i], file'[fol'[i].file])
  BY <1>3, <1>7, <1>9 DEF ReadsWell
<1>11. ASSUME ~overlap PROVE NoneReturned(fol'[i], file'[fol'[i].file], taskUseIDs')
  <2>1. \A id \in taskUseIDs : \A k \in 1..fol'[i].pos : s[k] # Return(id)
    <3> HIDE DEF r, s
    <3> QED BY <1>6, <1>8, <1>9, <1>11
  <2> QED BY <1>1, <1>3, <1>7, <2>1 DEF NoneReturned
<1>12. Busy(fol[i]) /\ taskUseIDs' = taskUseIDs /\ overlap' = overlap
  BY <1>1
<1> QED BY <1>2, <1>10, <1>11, <1>12, OneMoves

\* Each step keeps the invariant.
LEMMA ReadStep == ASSUME ReadInv, [Next]_vars PROVE ReadInv'
<1>1. FilesInv'
  BY FilesStep DEF ReadInv
<1>2. fol \in [Follows -> Follower] /\ \A p \in 0..2 : Started(p, "open") \in Follower
  BY StartedFollower DEF ReadInv, FilesInv, TypeInv, TypeOK, TypeFol
<1>3. CASE UNCHANGED <<fol, taskUseIDs, overlap>>
  BY <1>1, <1>3, AllIdle DEF Idles, ReadInv
<1>4. ASSUME NEW t \in Turns, ensureTailerFollowing(t) PROVE ReadInv'
  <2>1. UNCHANGED <<taskUseIDs, overlap>>
    BY <1>4 DEF ensureTailerFollowing, taskVars, ghostVars
  <2>2. \A i \in Follows : fol'[i] = fol[i] \/ fol'[i] = Started(0, "await")
    BY <1>2, <1>4 DEF ensureTailerFollowing
  <2>3. ~Busy(Started(0, "await"))
    BY StartedFollower DEF Busy
  <2>4. \A i \in Follows : Idles(i)
    BY <2>2, <2>3 DEF Idles
  <2> QED BY <1>1, <2>1, <2>4, AllIdle DEF ReadInv
<1>5. ASSUME NEW t \in Turns, Complete(t) PROVE ReadInv'
  <2>1. UNCHANGED <<taskUseIDs, overlap>>
    BY <1>5 DEF Complete, taskVars, ghostVars
  <2>2. \A i \in Follows :
          \/ fol'[i] = fol[i] \/ fol'[i] = Started(writes, "open")
          \/ fol'[i] = [fol[i] EXCEPT !.cancelled = i \in Running]
    BY <1>2, <1>5 DEF Complete
  <2>3. ~Busy(Started(writes, "open"))
    <3>1. writes \in 0..2
      BY DEF ReadInv, FilesInv, TypeInv, TypeOK, TypeDisk, Paths
    <3> QED BY <3>1, StartedFollower DEF Busy
  <2>4. ASSUME NEW i \in Follows, NEW b, fol'[i] = [fol[i] EXCEPT !.cancelled = b]
        PROVE  Idles(i)
    BY <1>2, <2>4 DEF Idles, Follower
  <2>5. \A i \in Follows : Idles(i)
    BY <2>2, <2>3, <2>4 DEF Idles
  <2> QED BY <1>1, <2>1, <2>5, AllIdle DEF ReadInv
<1>6. ASSUME NEW i \in Follows,
             awaitTranscriptFile(i) \/ FollowCancelled(i) \/ FollowError(i)
      PROVE  ReadInv'
  <2>1. UNCHANGED <<taskUseIDs, overlap>>
    BY <1>6 DEF awaitTranscriptFile, FollowCancelled, FollowError, Stay, taskVars,
       ghostVars
  <2>2. \A j \in Follows : j # i => fol'[j] = fol[j]
    BY <1>2, <1>6 DEF awaitTranscriptFile, FollowCancelled, FollowError
  <2>3. fol'[i].pc \in {"done", "open"}
    BY <1>2, <1>6 DEF awaitTranscriptFile, FollowCancelled, FollowError, Follower
  <2>4. \A j \in Follows : Idles(j)
    BY <2>2, <2>3 DEF Idles, Busy
  <2> QED BY <1>1, <2>1, <2>4, AllIdle DEF ReadInv
<1>7. ASSUME NEW i \in Follows,
             \/ FollowOpen(i) \/ FollowRead(i) \/ FollowEOF(i)
             \/ FollowProcess(i) \/ FollowAdvance(i)
      PROVE  ReadInv'
  BY <1>1, <1>7, OpenReads, ReadReads, ProcessReads, AdvanceReads DEF ReadInv
<1>8. \/ UNCHANGED <<fol, taskUseIDs, overlap>>
      \/ \E t \in Turns : ensureTailerFollowing(t) \/ Complete(t)
      \/ \E i \in Follows : FollowStep(i) \/ FollowError(i)
  BY DEF Next, TurnStep, DrainStep, ClaudeWrites, ClaudeEndsLine, ClaudeRestarts,
     Submit, Fail, DrainStat, CaughtUpTo, DrainTimeout, DrainInternalIssues,
     FinStay, ConcurrentMapWrites, vars, taskVars, ghostVars
<1> QED BY <1>3, <1>4, <1>5, <1>6, <1>7, <1>8 DEF FollowStep

\* FinishedTasksGone: OutstandingTaskCalls counts exactly the calls noted, and
\* a follower that has read its whole file leaves none outstanding that
\* returned there, whatever was replaced, reread or restarted, as long as no
\* cancelled follower was still busy when another one opened its file.
THEOREM FinishedTasksAreGone == Spec => []FinishedTasksGone
<1>1. ReadInv => FinishedTasksGone
  <2> SUFFICES ASSUME ReadInv PROVE FinishedTasksGone
    OBVIOUS
  <2>1. taskCalls = Cardinality(taskUseIDs)
    BY DEF ReadInv, FilesInv, TypeInv, TasksCounted
  <2>2. ASSUME NEW i \in Follows, fol[i].pc = "read",
               fol[i].pos = Len(file[fol[i].file]), ~overlap, NEW id \in taskUseIDs
        PROVE  ~Contains(fol[i].file, Return(id))
    <3>1. fol[i].file \in Files
      BY <2>2 DEF ReadInv, FilesInv, TypeInv, FolShape, WellFormed
    <3>2. DOMAIN file[fol[i].file] = 1..Len(file[fol[i].file])
      BY <3>1 DEF ReadInv, FilesInv, TypeInv, TypeOK, TypeDisk
    <3>3. NoneReturned(fol[i], file[fol[i].file], taskUseIDs)
      BY <2>2 DEF ReadInv, Outstanding, Busy
    <3> QED BY <2>2, <3>2, <3>3 DEF NoneReturned, Contains
  <2> QED BY <2>1, <2>2 DEF FinishedTasksGone, Return
<1> QED BY <1>1, ReadInit, ReadStep, PTL DEF Spec

----------------------------------------------------------------------------
(* The order of turns and drains, and when a line was written *)

\* Turns follow each other, each with its drain, which starts at its end.
TurnsInOrder ==
  /\ current # 0 => current = lastCompleted + 1
  /\ \A t \in Turns : drain[t].pc = "off" <=> t > lastCompleted

\* Nothing bears the number of a turn to come, and every line that was written
\* that of its turn.
Dated ==
  /\ \A l \in Script : by[l] <= currentTurnID /\ (l \notin todo => by[l] # 0)
  /\ iiTurnID <= currentTurnID
  /\ \A i \in Follows : fol[i].turn <= currentTurnID

\* What the order of turns depends on.
LEMMA TurnTypes ==
  ASSUME TypeInv
  PROVE  /\ current \in 0..MaxTurns /\ lastCompleted \in 0..MaxTurns
         /\ MaxTurns \in Nat /\ currentTurnID \in 0..MaxTurns
         /\ \A t \in Turns : t \in Nat /\ t >= 1 /\ t <= MaxTurns
         /\ \A t \in 0..MaxTurns : t \in Nat /\ (t # 0 => t \in Turns)
         /\ \A t \in Turns : drain[t].pc \in {"off", "stat", "wait", "drain", "done"}
         /\ drain = [t \in Turns |-> drain[t]]
BY Constants DEF TypeInv, TypeOK, TypeMgr, TypeDrain, currentTurnID, Turns

\* Followers leave the disk, the turns and the drains alone.
LEMMA FollowersApart ==
  ASSUME NEW i \in Follows, FollowStep(i) \/ FollowError(i)
  PROVE  UNCHANGED <<diskVars, current, lastCompleted, ensure, tailerStarted, drain>>
<1>1. CASE awaitTranscriptFile(i)
  BY <1>1 DEF awaitTranscriptFile
<1>2. CASE FollowProcess(i)
  BY <1>2 DEF FollowProcess, mgrVars
<1>3. CASE FollowOpen(i) \/ FollowRead(i) \/ FollowEOF(i) \/ FollowCancelled(i)
           \/ FollowAdvance(i) \/ FollowError(i)
  BY <1>3 DEF FollowOpen, FollowRead, FollowEOF, FollowCancelled, FollowAdvance,
     FollowError, Stay, mgrVars
<1> QED BY <1>1, <1>2, <1>3 DEF FollowStep

\* claude moves nothing but the disk.
LEMMA ClaudeApart ==
  ASSUME ClaudeWrites \/ ClaudeEndsLine \/ ClaudeRestarts
  PROVE  UNCHANGED <<mgrVars, fol, readPos, accVars, taskVars, drain, seen, overlap,
                     disturbed>>
<1>1. CASE ClaudeWrites
  BY <1>1 DEF ClaudeWrites, ghostVars
<1>2. CASE ClaudeEndsLine
  BY <1>2 DEF ClaudeEndsLine, ghostVars
<1>3. CASE ClaudeRestarts
  BY <1>3 DEF ClaudeRestarts
<1> QED BY <1>1, <1>2, <1>3

\* Only claude touches the disk.
LEMMA ManagerApart ==
  ASSUME NEW t \in Turns, TurnStep(t) \/ DrainStep(t)
  PROVE  UNCHANGED <<diskVars, readPos, taskVars, seen, overlap>>
<1>1. CASE Submit(t) \/ ensureTailerFollowing(t) \/ Complete(t) \/ Fail(t)
  BY <1>1 DEF Submit, ensureTailerFollowing, Complete, Fail, ghostVars
<1>2. CASE DrainStep(t)
  BY <1>2 DEF DrainStep, DrainStat, CaughtUpTo, DrainTimeout, DrainInternalIssues, FinStay
<1> QED BY <1>1, <1>2 DEF TurnStep

\* The actors of a step.
LEMMA Actors ==
  ASSUME [Next]_vars
  PROVE  \/ ClaudeWrites \/ ClaudeEndsLine \/ ClaudeRestarts
         \/ \E t \in Turns : TurnStep(t)
         \/ \E t \in Turns : DrainStep(t)
         \/ \E i \in Follows : FollowStep(i) \/ FollowError(i)
         \/ UNCHANGED <<diskVars, mgrVars, fol, readPos, accVars, taskVars, drain,
                        seen, overlap, disturbed>>
<1>1. CASE UNCHANGED vars
  BY <1>1 DEF vars, ghostVars
<1>2. CASE ConcurrentMapWrites
  BY <1>2 DEF ConcurrentMapWrites
<1> QED BY <1>1, <1>2 DEF Next

\* The steps that move turns and drains.
LEMMA TurnMoves ==
  ASSUME [Next]_vars
  PROVE  \/ UNCHANGED <<current, lastCompleted, drain>>
         \/ \E t \in Turns : Submit(t) /\ UNCHANGED <<lastCompleted, drain>>
         \/ \E t \in Turns : TurnEnds(t)
         \/ \E t \in Turns : DrainStep(t) /\ UNCHANGED <<current, lastCompleted>>
<1>1. ASSUME NEW t \in Turns, TurnStep(t)
      PROVE  \/ UNCHANGED <<current, lastCompleted, drain>>
             \/ Submit(t) /\ UNCHANGED <<lastCompleted, drain>>
             \/ TurnEnds(t)
  BY <1>1 DEF TurnStep, Submit, ensureTailerFollowing, Complete, Fail
<1>2. ASSUME NEW t \in Turns, DrainStep(t)
      PROVE  UNCHANGED <<current, lastCompleted>>
  BY <1>2 DEF DrainStep, DrainStat, CaughtUpTo, DrainTimeout, DrainInternalIssues,
     FinStay, mgrVars
<1>3. ASSUME NEW i \in Follows, FollowStep(i) \/ FollowError(i)
      PROVE  UNCHANGED <<current, lastCompleted, drain>>
  BY <1>3, FollowersApart
<1>4. ASSUME ClaudeWrites \/ ClaudeEndsLine \/ ClaudeRestarts
      PROVE  UNCHANGED <<current, lastCompleted, drain>>
  BY <1>4, ClaudeApart DEF mgrVars
<1> QED BY <1>1, <1>2, <1>3, <1>4, Actors DEF mgrVars

\* A drain goes from the end of its turn to done.
LEMMA DrainMoves ==
  ASSUME TypeInv, NEW t \in Turns, DrainStep(t)
  PROVE  /\ drain[t].pc \in {"stat", "wait", "drain"}
         /\ drain'[t].pc \in {"wait", "drain", "done"}
         /\ \A u \in Turns : u # t => drain'[u] = drain[u]
<1>1. drain \in [Turns -> [pc : {"off", "stat", "wait", "drain", "done"},
                       target : Nat, file : 0..MaxFiles,
                       caught : 0..MaxFiles, got : SUBSET Script]]
  BY DEF TypeInv, TypeOK, TypeDrain
<1>2. CASE DrainStat(t)
  BY <1>1, <1>2 DEF DrainStat
<1>3. CASE CaughtUpTo(t) \/ DrainTimeout(t)
  BY <1>1, <1>3 DEF CaughtUpTo, DrainTimeout
<1>4. CASE DrainInternalIssues(t)
  BY <1>1, <1>4 DEF DrainInternalIssues
<1> QED BY <1>2, <1>3, <1>4 DEF DrainStep

\* The order is kept.
LEMMA TurnsStep ==
  ASSUME TypeInv, TurnsInOrder, [Next]_vars
  PROVE  /\ TurnsInOrder'
         /\ \/ currentTurnID' = currentTurnID
            \/ \E t \in Turns : Submit(t) /\ currentTurnID' = t /\ t = currentTurnID + 1
<1> USE TurnTypes
<1>1. CASE UNCHANGED <<current, lastCompleted, drain>>
  BY <1>1 DEF TurnsInOrder, currentTurnID
<1>2. ASSUME NEW t \in Turns, Submit(t), UNCHANGED <<lastCompleted, drain>>
      PROVE  /\ TurnsInOrder'
             /\ currentTurnID' = t /\ t = currentTurnID + 1
  <2>1. /\ current = 0 /\ t = lastCompleted + 1 /\ current' = t
        /\ currentTurnID' = t /\ currentTurnID = lastCompleted /\ t # 0
    BY <1>2 DEF Submit, currentTurnID
  <2> QED BY <1>2, <2>1 DEF TurnsInOrder
<1>3. ASSUME NEW t \in Turns, TurnEnds(t)
      PROVE  TurnsInOrder' /\ currentTurnID' = currentTurnID
  <2>1. /\ current = t /\ current' = 0 /\ lastCompleted' = t /\ t # 0
        /\ t = lastCompleted + 1
        /\ currentTurnID' = t /\ currentTurnID = t
    BY <1>3 DEF TurnEnds, TurnsInOrder, currentTurnID
  <2>2. /\ drain'[t].pc = "stat"
        /\ \A u \in Turns : u # t => drain'[u] = drain[u]
    <3>1. drain' = [drain EXCEPT ![t].pc = "stat"]
      BY <1>3 DEF TurnEnds
    <3>2. drain \in [Turns -> [pc : {"off", "stat", "wait", "drain", "done"},
                       target : Nat, file : 0..MaxFiles,
                       caught : 0..MaxFiles, got : SUBSET Script]]
      BY DEF TypeInv, TypeOK, TypeDrain
    <3> QED BY <3>1, <3>2
  <2> QED BY <2>1, <2>2 DEF TurnsInOrder
<1>4. ASSUME NEW t \in Turns, DrainStep(t), UNCHANGED <<current, lastCompleted>>
      PROVE  TurnsInOrder' /\ currentTurnID' = currentTurnID
  <2>1. /\ drain[t].pc \notin {"off", "done"} /\ drain'[t].pc # "off"
        /\ \A u \in Turns : u # t => drain'[u] = drain[u]
    BY <1>4, DrainMoves
  <2>2. currentTurnID' = currentTurnID
    BY <1>4 DEF currentTurnID
  <2> QED BY <1>4, <2>1, <2>2 DEF TurnsInOrder
<1> QED BY <1>1, <1>2, <1>3, <1>4, TurnMoves

\* The date of a line on disk is set once.
LEMMA DatesKept ==
  ASSUME TypeInv, [Next]_vars, NEW l \in Script, l \notin todo
  PROVE  by'[l] = by[l] /\ l \notin todo'
<1>1. CASE ClaudeWrites
  BY <1>1 DEF ClaudeWrites, TypeInv, TypeOK, TypeDisk
<1>2. CASE UNCHANGED <<by, todo>>
  BY <1>2
<1>3. CASE ClaudeEndsLine \/ ClaudeRestarts
  BY <1>2, <1>3 DEF ClaudeEndsLine, ClaudeRestarts
<1> QED BY <1>1, <1>2, <1>3, Actors, ManagerApart, FollowersApart DEF diskVars

----------------------------------------------------------------------------
(* What a step does to the fields of a follower *)

\* The other followers stay as they are.
LEMMA OthersStay ==
  ASSUME TypeInv, NEW i \in Follows, FollowStep(i) \/ FollowError(i)
  PROVE  \A j \in Follows : j # i => fol'[j] = fol[j]
<1>1. fol \in [Follows -> Follower]
  BY DEF TypeInv, TypeOK, TypeFol
<1>2. CASE awaitTranscriptFile(i) \/ FollowOpen(i) \/ FollowRead(i) \/ FollowEOF(i)
  BY <1>1, <1>2 DEF awaitTranscriptFile, FollowOpen, FollowRead, FollowEOF, HandOver
<1>3. CASE FollowCancelled(i) \/ FollowProcess(i) \/ FollowAdvance(i) \/ FollowError(i)
  BY <1>1, <1>3 DEF FollowCancelled, FollowProcess, FollowAdvance, FollowError
<1> QED BY <1>2, <1>3 DEF FollowStep

\* The place a follower reads at, and the line it works on.
SamePlace(q, r) == q.file = r.file /\ q.pos = r.pos /\ q.cancelled = r.cancelled
SameLine(q, r) == q.line = r.line /\ q.bytes = r.bytes /\ q.turn = r.turn

\* Discovery and cancellation.
LEMMA AwaitFields ==
  ASSUME TypeInv, NEW i \in Follows, awaitTranscriptFile(i) \/ FollowCancelled(i)
  PROVE  /\ fol[i].pc \in {"await", "open"} /\ fol'[i].pc \in {"open", "done"}
         /\ SamePlace(fol'[i], fol[i]) /\ SameLine(fol'[i], fol[i])
         /\ fol'[i].partial = fol[i].partial
         /\ fol'[i].pc = "open" => fol'[i].path = transcriptPath'
         /\ transcriptPath' = transcriptPath \/ (transcriptPath = 0 /\ transcriptPath' # 0)
         /\ UNCHANGED <<diskVars, accVars, drain, seen, readPos, overlap, disturbed>>
<1>1. /\ fol \in [Follows -> Follower] /\ fol[i] \in Follower
      /\ writes \in Paths
  BY DEF TypeInv, TypeOK, TypeFol, TypeDisk
<1>2. CASE FollowCancelled(i)
  <2>1. fol' = [fol EXCEPT ![i].pc = "done"] /\ transcriptPath' = transcriptPath
        /\ fol[i].pc = "open"
        /\ UNCHANGED <<diskVars, accVars, drain, seen, readPos, overlap, disturbed>>
    BY <1>2 DEF FollowCancelled, Stay, mgrVars, ghostVars
  <2>2. fol'[i] = [fol[i] EXCEPT !.pc = "done"]
    BY <1>1, <2>1
  <2> QED BY <1>1, <2>1, <2>2 DEF SamePlace, SameLine, Follower
<1>3. CASE awaitTranscriptFile(i)
  <2> DEFINE newest == IF at[writes] # 0 THEN writes ELSE 1
  <2>1. /\ fol[i].pc = "await" /\ newest # 0
        /\ UNCHANGED <<diskVars, accVars, drain, seen, readPos, overlap, disturbed>>
    BY <1>1, <1>3 DEF awaitTranscriptFile, Paths, ghostVars
  <2>2. \/ fol' = [fol EXCEPT ![i].pc = "done"] /\ transcriptPath' = transcriptPath
        \/ /\ fol' = [fol EXCEPT ![i].pc = "open", ![i].path = newest]
           /\ transcriptPath \in {0, newest} /\ transcriptPath' = newest
    BY <1>3 DEF awaitTranscriptFile
  <2> HIDE DEF newest
  <2>3. CASE fol' = [fol EXCEPT ![i].pc = "done"] /\ transcriptPath' = transcriptPath
    <3>1. fol'[i] = [fol[i] EXCEPT !.pc = "done"]
      BY <1>1, <2>3
    <3> QED BY <1>1, <2>1, <2>3, <3>1 DEF SamePlace, SameLine, Follower
  <2>4. CASE /\ fol' = [fol EXCEPT ![i].pc = "open", ![i].path = newest]
             /\ transcriptPath \in {0, newest} /\ transcriptPath' = newest
    <3>1. fol'[i] = [fol[i] EXCEPT !.pc = "open", !.path = newest]
      BY <1>1, <2>4
    <3> QED BY <1>1, <2>1, <2>4, <3>1 DEF SamePlace, SameLine, Follower
  <2> QED BY <2>2, <2>3, <2>4
<1> QED BY <1>2, <1>3

\* Opening.
LEMMA OpenFields ==
  ASSUME TypeInv, NEW i \in Follows, FollowOpen(i)
  PROVE  /\ fol[i].pc = "open"
         /\ fol'[i].pc = IF fol[i].cancelled THEN "done" ELSE "read"
         /\ fol'[i].file = at[fol[i].path] /\ fol'[i].file # 0 /\ fol'[i].pos = 0
         /\ SameLine(fol'[i], fol[i])
         /\ fol'[i].partial = fol[i].partial /\ fol'[i].cancelled = fol[i].cancelled
         /\ fol'[i].path = fol[i].path
         /\ UNCHANGED <<diskVars, mgrVars, accVars, drain, seen>> /\ readPos' = 0
<1>1. fol \in [Follows -> Follower] /\ fol[i] \in Follower
  BY DEF TypeInv, TypeOK, TypeFol
<1>2. fol'[i] = [fol[i] EXCEPT !.pc = IF fol[i].cancelled THEN "done" ELSE "read",
                               !.file = at[fol[i].path], !.pos = 0]
  BY <1>1 DEF FollowOpen
<1>3. UNCHANGED <<diskVars, mgrVars, accVars, drain, seen>> /\ readPos' = 0
  BY DEF FollowOpen, Stay
<1>4. fol[i].pc = "open" /\ at[fol[i].path] # 0
  BY DEF FollowOpen
<1> QED BY <1>1, <1>2, <1>3, <1>4 DEF SameLine, Follower

\* Handing a line over.
LEMMA HandOverFields ==
  ASSUME TypeInv, NEW i \in Follows, NEW l, NEW n, HandOver(i, l, n)
  PROVE  /\ fol'[i].pc = "process" /\ fol'[i].line = l /\ fol'[i].bytes = n
         /\ fol'[i].turn = currentTurnID
         /\ SamePlace(fol'[i], fol[i])
         /\ fol'[i].partial = fol[i].partial /\ fol'[i].path = fol[i].path
<1>1. fol \in [Follows -> Follower] /\ fol[i] \in Follower
  BY DEF TypeInv, TypeOK, TypeFol
<1>2. fol'[i] = [fol[i] EXCEPT !.pc = "process", !.line = l, !.bytes = n,
                               !.turn = currentTurnID]
  BY <1>1 DEF HandOver
<1> QED BY <1>1, <1>2 DEF SamePlace, Follower

\* Reading a line.
LEMMA ReadFields ==
  ASSUME TypeInv, NEW i \in Follows, FollowRead(i)
  PROVE  /\ fol[i].pc = "read" /\ fol[i].pos < Len(file[fol[i].file])
         /\ HandOver(i, file[fol[i].file][fol[i].pos + 1],
                     IF /\ file[fol[i].file][fol[i].pos + 1].kind = "huge"
                        /\ fol[i].partial
                     THEN 1 ELSE 2)
         /\ UNCHANGED <<diskVars, mgrVars, accVars, drain, seen, readPos, overlap,
                        disturbed>>
BY DEF FollowRead, Stay, ghostVars

\* The end of the file.
LEMMA EOFFields ==
  ASSUME TypeInv, NEW i \in Follows, FollowEOF(i)
  PROVE  /\ fol[i].pc = "read" /\ fol[i].pos = Len(file[fol[i].file])
         /\ \/ /\ torn[fol[i].file].kind = "huge" /\ ~fol[i].partial
               /\ HandOver(i, torn[fol[i].file], 1)
            \/ /\ torn[fol[i].file].kind # "huge" \/ fol[i].partial
               /\ fol'[i].pc \in {"open", "done", "read"}
               /\ fol'[i].pc = "open" => ~fol'[i].partial
               /\ fol'[i].pc = "read" =>
                    (fol'[i].partial <=> torn[fol[i].file] # NoLine)
               /\ SamePlace(fol'[i], fol[i]) /\ SameLine(fol'[i], fol[i])
               /\ fol'[i].path = fol[i].path
         /\ UNCHANGED <<diskVars, mgrVars, accVars, drain, seen, readPos, overlap,
                        disturbed>>
<1>1. fol \in [Follows -> Follower] /\ fol[i] \in Follower /\ readPos \in Nat
  BY DEF TypeInv, TypeOK, TypeFol
<1>2. UNCHANGED <<diskVars, mgrVars, accVars, drain, seen, readPos, overlap, disturbed>>
  BY <1>1 DEF FollowEOF, Stay, ghostVars, Buffered
<1>3. ASSUME fol' = [fol EXCEPT
               ![i].pc = IF Replaced(i) THEN "open"
                         ELSE IF fol[i].cancelled THEN "done" ELSE "read",
               ![i].partial = torn[fol[i].file] # NoLine /\ ~Replaced(i)]
      PROVE  /\ fol'[i].pc \in {"open", "done", "read"}
             /\ fol'[i].pc = "open" => ~fol'[i].partial
             /\ fol'[i].pc = "read" => (fol'[i].partial <=> torn[fol[i].file] # NoLine)
             /\ SamePlace(fol'[i], fol[i]) /\ SameLine(fol'[i], fol[i])
             /\ fol'[i].path = fol[i].path
  <2> DEFINE pc == IF Replaced(i) THEN "open"
                   ELSE IF fol[i].cancelled THEN "done" ELSE "read"
             b == torn[fol[i].file] # NoLine /\ ~Replaced(i)
  <2>1. fol'[i] = [fol[i] EXCEPT !.pc = pc, !.partial = b]
    BY <1>1, <1>3
  <2>2. /\ pc \in {"open", "done", "read"} /\ (pc = "open" <=> Replaced(i))
        /\ (b <=> torn[fol[i].file] # NoLine /\ ~Replaced(i))
    OBVIOUS
  <2> HIDE DEF pc, b
  <2>3. /\ fol'[i].pc = pc /\ fol'[i].partial = b
        /\ SamePlace(fol'[i], fol[i]) /\ SameLine(fol'[i], fol[i])
        /\ fol'[i].path = fol[i].path
    BY <1>1, <2>1 DEF Follower, SamePlace, SameLine
  <2> QED BY <2>2, <2>3
<1> QED BY <1>2, <1>3 DEF FollowEOF

\* processLine.
LEMMA ProcessFields ==
  ASSUME TypeInv, NEW i \in Follows, FollowProcess(i)
  PROVE  /\ fol[i].pc = "process" /\ fol'[i].pc = "advance"
         /\ SamePlace(fol'[i], fol[i]) /\ SameLine(fol'[i], fol[i])
         /\ fol'[i].partial = fol[i].partial /\ fol'[i].path = fol[i].path
         /\ seen' = seen \cup {fol[i].line}
         /\ UNCHANGED <<diskVars, mgrVars, drain, readPos, overlap, disturbed>>
<1>1. fol \in [Follows -> Follower] /\ fol[i] \in Follower
  BY DEF TypeInv, TypeOK, TypeFol
<1>2. /\ fol'[i] = [fol[i] EXCEPT !.pc = "advance"] /\ fol[i].pc = "process"
      /\ seen' = seen \cup {fol[i].line}
      /\ UNCHANGED <<diskVars, mgrVars, drain, readPos, overlap, disturbed>>
  BY <1>1 DEF FollowProcess
<1> QED BY <1>1, <1>2 DEF SamePlace, SameLine, Follower

\* After it.
LEMMA AdvanceFields ==
  ASSUME TypeInv, NEW i \in Follows, FollowAdvance(i)
  PROVE  /\ fol[i].pc = "advance" /\ fol'[i].pc \in {"done", "read"}
         /\ fol'[i].file = fol[i].file /\ fol'[i].cancelled = fol[i].cancelled
         /\ fol'[i].path = fol[i].path
         /\ fol'[i].turn = 0 /\ (fol'[i].partial <=> Piece(fol[i]))
         /\ fol'[i].pos = IF Piece(fol[i]) THEN fol[i].pos ELSE fol[i].pos + 1
         /\ readPos' = readPos + fol[i].bytes
         /\ UNCHANGED <<diskVars, mgrVars, accVars, drain, seen, overlap, disturbed>>
<1> DEFINE b == Piece(fol[i])
           pc == IF fol[i].cancelled THEN "done" ELSE "read"
<1>1. fol \in [Follows -> Follower] /\ fol[i] \in Follower
  BY DEF TypeInv, TypeOK, TypeFol
<1>2. fol' = [fol EXCEPT ![i].pc = pc, ![i].partial = b, ![i].line = NoLine,
                         ![i].bytes = 2, ![i].turn = 0,
                         ![i].pos = IF b THEN fol[i].pos ELSE fol[i].pos + 1]
  BY <1>1 DEF FollowAdvance, Piece
<1>3. /\ fol[i].pc = "advance" /\ readPos' = readPos + fol[i].bytes
      /\ UNCHANGED <<diskVars, mgrVars, accVars, drain, seen, overlap, disturbed>>
  BY DEF FollowAdvance, Stay, ghostVars
<1>4. pc \in {"done", "read"} /\ (b <=> Piece(fol[i]))
  OBVIOUS
<1> HIDE DEF b, pc
<1>5. fol'[i] = [fol[i] EXCEPT !.pc = pc, !.partial = b, !.line = NoLine, !.bytes = 2,
                 !.turn = 0, !.pos = IF b THEN fol[i].pos ELSE fol[i].pos + 1]
  BY <1>1, <1>2
<1>6. /\ fol'[i].pc = pc /\ fol'[i].partial = b /\ fol'[i].turn = 0
      /\ fol'[i].file = fol[i].file /\ fol'[i].cancelled = fol[i].cancelled
      /\ fol'[i].path = fol[i].path
      /\ fol'[i].pos = IF b THEN fol[i].pos ELSE fol[i].pos + 1
  BY <1>1, <1>5 DEF Follower
<1> QED BY <1>3, <1>4, <1>6

\* A read error.
LEMMA ErrorFields ==
  ASSUME TypeInv, NEW i \in Follows, FollowError(i)
  PROVE  /\ fol[i].pc = "read" /\ fol'[i].pc = "open" /\ ~fol'[i].partial
         /\ SamePlace(fol'[i], fol[i]) /\ SameLine(fol'[i], fol[i])
         /\ fol'[i].path = fol[i].path
         /\ UNCHANGED <<diskVars, mgrVars, accVars, drain, seen, readPos, overlap,
                        disturbed>>
<1> DEFINE b == FALSE
<1>1. fol \in [Follows -> Follower] /\ fol[i] \in Follower
  BY DEF TypeInv, TypeOK, TypeFol
<1>2. /\ fol' = [fol EXCEPT ![i].pc = "open", ![i].partial = b] /\ fol[i].pc = "read"
      /\ UNCHANGED <<diskVars, mgrVars, accVars, drain, seen, readPos, overlap, disturbed>>
  BY DEF FollowError, Stay
<1>3. ~b
  OBVIOUS
<1> HIDE DEF b
<1>4. fol'[i] = [fol[i] EXCEPT !.pc = "open", !.partial = b]
  BY <1>1, <1>2
<1>5. /\ fol'[i].pc = "open" /\ fol'[i].partial = b
      /\ SamePlace(fol'[i], fol[i]) /\ SameLine(fol'[i], fol[i])
      /\ fol'[i].path = fol[i].path
  BY <1>1, <1>4 DEF SamePlace, SameLine, Follower
<1> QED BY <1>2, <1>3, <1>5

\* A new follower takes the first free place.
LEMMA FirstFree ==
  ASSUME Free # {}
  PROVE  NextFree \in Free /\ \A j \in Free : NextFree <= j
<1>1. Free \in SUBSET Nat
  BY Constants DEF Free, Follows
<1>2. \E i \in Free : \A j \in Free : i <= j
  BY <1>1, Smallest
<1> QED BY <1>2 DEF NextFree

\* What a start does to a follower n that begins, and to another one j.
Begins(n) ==
  /\ fol[n].pc = "off" /\ fol'[n].pc \in {"await", "open"}
  /\ fol'[n].file = 0 /\ fol'[n].pos = 0 /\ fol'[n].turn = 0
  /\ ~fol'[n].partial /\ ~fol'[n].cancelled
  /\ fol'[n].pc = "open" => fol'[n].path = transcriptPath'
Continues(j) ==
  /\ fol'[j].pc = fol[j].pc /\ fol'[j].file = fol[j].file /\ fol'[j].pos = fol[j].pos
  /\ SameLine(fol'[j], fol[j])
  /\ fol'[j].partial = fol[j].partial /\ fol'[j].path = fol[j].path

\* The fields of a follower that starts.
LEMMA StartedFields ==
  ASSUME NEW path \in 0..2, NEW pc \in {"await", "open"}
  PROVE  LET r == Started(path, pc) IN
         /\ r.pc = pc /\ r.path = path /\ r.file = 0 /\ r.pos = 0 /\ r.turn = 0
         /\ ~r.partial /\ ~r.cancelled
<1> DEFINE b == FALSE
           idle == [pc |-> "off", cancelled |-> b, path |-> 0, file |-> 0, pos |-> 0,
                    partial |-> b, line |-> NoLine, bytes |-> 2, turn |-> 0]
<1>1. Idle = idle
  BY DEF Idle
<1>2. ~b
  OBVIOUS
<1> HIDE DEF b
<1>3. /\ Started(path, pc).pc = pc /\ Started(path, pc).path = path
      /\ Started(path, pc).file = 0 /\ Started(path, pc).pos = 0
      /\ Started(path, pc).turn = 0 /\ Started(path, pc).partial = b
      /\ Started(path, pc).cancelled = b
  BY <1>1 DEF Started
<1> QED BY <1>2, <1>3

\* The steps that start a follower: the first one, and one on a new path, by
\* which the running ones are cancelled.
LEMMA Starts ==
  ASSUME TypeInv, NEW t \in Turns, ensureTailerFollowing(t) \/ Complete(t), fol' # fol
  PROVE  /\ \E n \in Follows :
              /\ Begins(n) /\ \A j \in Follows : j < n => fol[j].pc # "off"
              /\ \A j \in Follows : j # n =>
                   /\ Continues(j)
                   /\ ~tailerStarted \/ (fol'[j].cancelled <=> j \in Running)
         /\ tailerStarted'
<1>1. /\ fol \in [Follows -> Follower] /\ writes \in 0..2 /\ writes \in Paths
      /\ \A j \in Follows : fol[j] \in Follower
  BY DEF TypeInv, TypeOK, TypeFol, TypeDisk, Paths
<1>2. Free # {} /\ tailerStarted'
  BY DEF ensureTailerFollowing, Complete
<1>3. /\ NextFree \in Follows /\ fol[NextFree].pc = "off"
      /\ \A j \in Follows : j < NextFree => fol[j].pc # "off"
  <2>1. NextFree \in Free /\ \A j \in Free : NextFree <= j
    BY <1>2, FirstFree
  <2>2. \A j \in Follows : j \in Nat
    BY Constants DEF Follows
  <2> QED BY <2>1, <2>2 DEF Free
<1> DEFINE n == NextFree
<1> HIDE DEF n
<1>4. CASE ensureTailerFollowing(t)
  <2>1. ~tailerStarted /\ fol' = [fol EXCEPT ![n] = Started(0, "await")]
    BY <1>4 DEF ensureTailerFollowing, n
  <2>2. fol'[n] = Started(0, "await") /\ \A j \in Follows : j # n => fol'[j] = fol[j]
    BY <1>1, <1>3, <2>1 DEF n
  <2>3. Begins(n)
    BY <1>3, <2>2, StartedFields DEF Begins, n
  <2>4. \A j \in Follows : j # n => Continues(j)
    BY <2>2 DEF Continues, SameLine
  <2> QED BY <1>2, <1>3, <2>1, <2>3, <2>4 DEF n
<1>5. CASE Complete(t)
  <2>1. /\ fol' = [i \in Follows |->
               IF i = n THEN Started(writes, "open")
               ELSE [fol[i] EXCEPT !.cancelled = i \in Running]]
        /\ transcriptPath' = writes
    BY <1>5 DEF Complete, n
  <2>2. fol'[n] = Started(writes, "open")
    BY <1>3, <2>1 DEF n
  <2>3. Begins(n)
    BY <1>1, <1>3, <2>1, <2>2, StartedFields DEF Begins, n
  <2>4. ASSUME NEW j \in Follows, j # n
        PROVE  Continues(j) /\ (fol'[j].cancelled <=> j \in Running)
    <3> DEFINE b == j \in Running
    <3>1. fol'[j] = [fol[j] EXCEPT !.cancelled = b]
      BY <2>1, <2>4
    <3> HIDE DEF b
    <3>2. Continues(j) /\ fol'[j].cancelled = b
      BY <1>1, <3>1 DEF Follower, Continues, SameLine
    <3> QED BY <3>2 DEF b
  <2> QED BY <1>2, <1>3, <2>3, <2>4 DEF n
<1> QED BY <1>4, <1>5

\* Who moves the followers.
LEMMA FolMoves ==
  ASSUME [Next]_vars
  PROVE  \/ UNCHANGED fol
         \/ \E t \in Turns : (ensureTailerFollowing(t) \/ Complete(t)) /\ fol' # fol
         \/ \E i \in Follows : FollowStep(i) \/ FollowError(i)
<1>1. ASSUME NEW t \in Turns, TurnStep(t)
      PROVE  UNCHANGED fol \/ ensureTailerFollowing(t) \/ Complete(t)
  BY <1>1 DEF TurnStep, Submit, Fail
<1>2. ASSUME NEW t \in Turns, DrainStep(t) PROVE UNCHANGED fol
  BY <1>2 DEF DrainStep, DrainStat, CaughtUpTo, DrainTimeout, DrainInternalIssues, FinStay
<1> QED BY <1>1, <1>2, Actors, ClaudeApart

----------------------------------------------------------------------------
(* Followers one after the other *)

\* Followers are started in order, and only the last one started is neither
\* cancelled nor done; one that has not opened its file has none.
Queued ==
  /\ ~tailerStarted => \A i \in Follows : fol[i].pc = "off"
  /\ \A i, j \in Follows : i < j /\ fol[j].pc # "off" =>
       fol[i].pc # "off" /\ (fol[i].cancelled \/ fol[i].pc = "done")
  /\ \A i \in Follows :
       /\ fol[i].pc \in {"off", "await"} => fol[i].file = 0
       /\ fol[i].pc \in {"off", "await", "open"} => ~fol[i].partial

\* The follower that opened a file last.
LastOpened(i) == fol[i].file # 0 /\ \A j \in Follows : fol[j].file # 0 => j <= i

\* As long as followers did not overlap, only that one is busy.
ReaderLast == ~overlap => \A i \in Follows : Busy(fol[i]) => LastOpened(i)

\* A follower that moves stays in its place of the queue.
LEMMA Marches ==
  ASSUME TypeInv, NEW i \in Follows, FollowStep(i) \/ FollowError(i)
  PROVE  /\ fol[i].pc \notin {"off", "done"} /\ fol'[i].pc \notin {"off", "await"}
         /\ fol'[i].cancelled = fol[i].cancelled
         /\ FollowOpen(i) \/ fol'[i].file = fol[i].file
         /\ fol'[i].pc = "open" /\ fol'[i].partial =>
              fol[i].partial /\ fol[i].pc \in {"await", "open"}
<1>1. CASE awaitTranscriptFile(i) \/ FollowCancelled(i)
  BY <1>1, AwaitFields DEF SamePlace
<1>2. CASE FollowOpen(i)
  BY <1>2, OpenFields
<1>3. CASE FollowRead(i)
  BY <1>3, ReadFields, HandOverFields DEF SamePlace
<1>4. CASE FollowEOF(i)
  BY <1>4, EOFFields, HandOverFields DEF SamePlace
<1>5. CASE FollowProcess(i)
  BY <1>5, ProcessFields DEF SamePlace
<1>6. CASE FollowAdvance(i)
  BY <1>6, AdvanceFields
<1>7. CASE FollowError(i)
  BY <1>7, ErrorFields DEF SamePlace
<1> QED BY <1>1, <1>2, <1>3, <1>4, <1>5, <1>6, <1>7 DEF FollowStep

\* The queue is kept.
LEMMA QueuedStep ==
  ASSUME TypeInv, Queued, [Next]_vars
  PROVE  Queued'
<1>1. \A i \in Follows : i \in Nat
  BY Constants DEF Follows
<1>2. CASE UNCHANGED fol
  <2>1. tailerStarted => tailerStarted'
    BY Actors, FollowersApart, ClaudeApart DEF TurnStep, DrainStep, Submit,
       ensureTailerFollowing, Complete, Fail, DrainStat, CaughtUpTo, DrainTimeout,
       DrainInternalIssues, FinStay, mgrVars
  <2> QED BY <1>2, <2>1 DEF Queued
<1>3. ASSUME NEW t \in Turns, ensureTailerFollowing(t) \/ Complete(t), fol' # fol
      PROVE  Queued'
  <2>1. PICK n \in Follows :
          /\ Begins(n) /\ \A j \in Follows : j < n => fol[j].pc # "off"
          /\ \A j \in Follows : j # n =>
               /\ Continues(j)
               /\ ~tailerStarted \/ (fol'[j].cancelled <=> j \in Running)
    BY <1>3, Starts
  <2>2. tailerStarted'
    BY <1>3, Starts
  <2>3. \A j \in Follows : j > n => fol[j].pc = "off"
    BY <2>1 DEF Begins, Queued
  <2>4. ASSUME NEW i \in Follows, NEW j \in Follows, i < j, fol'[j].pc # "off"
        PROVE  fol'[i].pc # "off" /\ (fol'[i].cancelled \/ fol'[i].pc = "done")
    <3>1. j <= n
      BY <1>1, <2>1, <2>3, <2>4 DEF Continues
    <3>2. /\ i < n /\ i # n /\ fol[i].pc # "off" /\ tailerStarted
          /\ fol'[i].pc = fol[i].pc
      BY <1>1, <2>1, <2>4, <3>1 DEF Continues, Queued
    <3>3. fol[i].pc = "done" \/ i \in Running
      BY <3>2 DEF Running
    <3> QED BY <2>1, <3>2, <3>3
  <2>5. ASSUME NEW i \in Follows
        PROVE  /\ fol'[i].pc \in {"off", "await"} => fol'[i].file = 0
               /\ fol'[i].pc \in {"off", "await", "open"} => ~fol'[i].partial
    <3>1. CASE i = n
      BY <2>1, <3>1 DEF Begins
    <3>2. CASE i # n
      BY <2>1, <3>2 DEF Continues, Queued
    <3> QED BY <3>1, <3>2
  <2> QED BY <2>2, <2>4, <2>5 DEF Queued
<1>4. ASSUME NEW i \in Follows, FollowStep(i) \/ FollowError(i)
      PROVE  Queued'
  <2>1. /\ \A j \in Follows : j # i => fol'[j] = fol[j]
        /\ fol[i].pc \notin {"off", "done"} /\ fol'[i].pc \notin {"off", "await"}
        /\ fol'[i].cancelled = fol[i].cancelled
    BY <1>4, OthersStay, Marches
  <2>2. tailerStarted /\ tailerStarted'
    BY <1>4, <2>1, FollowersApart DEF Queued
  <2>3. fol'[i].pc = "open" => ~fol'[i].partial
    BY <1>4, Marches DEF Queued
  <2>4. ASSUME NEW k \in Follows, NEW j \in Follows, k < j, fol'[j].pc # "off"
        PROVE  fol'[k].pc # "off" /\ (fol'[k].cancelled \/ fol'[k].pc = "done")
    <3>1. fol[j].pc # "off"
      BY <2>1, <2>4
    <3>2. fol[k].pc # "off" /\ (fol[k].cancelled \/ fol[k].pc = "done")
      BY <2>4, <3>1 DEF Queued
    <3> QED BY <2>1, <3>2
  <2> QED BY <2>1, <2>2, <2>3, <2>4 DEF Queued
<1> QED BY <1>2, <1>3, <1>4, FolMoves

\* There is one follower that opened last.
LEMMA OneLast ==
  ASSUME NEW i \in Follows, NEW j \in Follows, LastOpened(i), LastOpened(j)
  PROVE  i = j
BY Constants DEF LastOpened, Follows

\* Only an opening makes another follower the last one, and then it is that one.
LEMMA LastKept ==
  ASSUME TypeInv, Queued, [Next]_vars, NEW i \in Follows
  PROVE  /\ LastOpened(i)' => LastOpened(i) \/ FollowOpen(i)
         /\ LastOpened(i) => LastOpened(i)' \/ \E j \in Follows : j # i /\ FollowOpen(j)
<1>1. CASE UNCHANGED fol
  BY <1>1 DEF LastOpened
<1>2. ASSUME NEW t \in Turns, ensureTailerFollowing(t) \/ Complete(t), fol' # fol
      PROVE  LastOpened(i)' <=> LastOpened(i)
  <2>1. PICK n \in Follows :
          Begins(n) /\ \A j \in Follows : j # n => Continues(j)
    BY <1>2, Starts
  <2>2. \A j \in Follows : fol'[j].file = fol[j].file
    BY <2>1 DEF Begins, Continues, Queued
  <2> QED BY <2>2 DEF LastOpened
<1>3. ASSUME NEW j \in Follows, FollowStep(j) \/ FollowError(j), ~FollowOpen(j)
      PROVE  LastOpened(i)' <=> LastOpened(i)
  <2>1. \A k \in Follows : fol'[k].file = fol[k].file
    BY <1>3, OthersStay, Marches
  <2> QED BY <2>1 DEF LastOpened
<1>4. ASSUME NEW j \in Follows, FollowOpen(j)
      PROVE  /\ LastOpened(i)' => LastOpened(i) \/ i = j
             /\ LastOpened(i) => LastOpened(i)' \/ j # i
  <2>1. (\A k \in Follows : k # j => fol'[k] = fol[k]) /\ fol'[j].file # 0
    BY <1>4, OthersStay, OpenFields DEF FollowStep
  <2>2. i # j => (LastOpened(i)' => LastOpened(i))
    BY <2>1 DEF LastOpened
  <2>3. LastOpened(i) /\ i = j => LastOpened(i)'
    BY <2>1 DEF LastOpened
  <2> QED BY <2>2, <2>3
<1> QED BY <1>1, <1>2, <1>3, <1>4, FolMoves

\* A follower that opens and goes on to read is the last one.
LEMMA OpensLast ==
  ASSUME TypeInv, Queued, NEW i \in Follows, FollowOpen(i), ~fol[i].cancelled
  PROVE  LastOpened(i)'
<1>1. /\ \A k \in Follows : k # i => fol'[k] = fol[k]
      /\ fol'[i].file # 0 /\ fol[i].pc = "open"
  BY OthersStay, OpenFields DEF FollowStep
<1>2. \A j \in Follows : j > i => fol[j].pc = "off" /\ fol[j].file = 0
  BY <1>1 DEF Queued
<1>3. \A j \in Follows : j \in Nat
  BY Constants DEF Follows
<1> QED BY <1>1, <1>2, <1>3 DEF LastOpened

\* Who is busy is the last to have opened, or followers overlapped.
LEMMA ReaderLastStep ==
  ASSUME TypeInv, Queued, ReaderLast, [Next]_vars
  PROVE  ReaderLast' /\ (overlap => overlap')
<1>1. CASE \E j \in Follows : FollowOpen(j)
  <2>1. PICK j \in Follows : FollowOpen(j)
    BY <1>1
  <2>2. /\ overlap => overlap'
        /\ overlap' \/ \A k \in Follows : k # j => ~Busy(fol[k])
    BY <2>1 DEF FollowOpen, Busy
  <2>3. \A k \in Follows : k # j => fol'[k] = fol[k]
    BY <2>1, OthersStay DEF FollowStep
  <2>4. Busy(fol'[j]) => LastOpened(j)'
    BY <2>1, OpensLast, OpenFields DEF Busy
  <2> QED BY <2>2, <2>3, <2>4 DEF ReaderLast
<1>2. CASE ~\E j \in Follows : FollowOpen(j)
  <2>1. UNCHANGED overlap
    <3>1. ASSUME NEW i \in Follows, FollowStep(i) \/ FollowError(i) PROVE UNCHANGED overlap
      BY <1>2, <3>1 DEF FollowStep, awaitTranscriptFile, FollowRead, FollowEOF,
         FollowCancelled, FollowProcess, FollowAdvance, FollowError, ghostVars
    <3> QED BY <3>1, Actors, ClaudeApart, ManagerApart
  <2>2. ASSUME NEW i \in Follows, Busy(fol'[i]) PROVE Busy(fol[i])
    <3>1. CASE UNCHANGED fol
      BY <2>2, <3>1
    <3>2. ASSUME NEW t \in Turns, ensureTailerFollowing(t) \/ Complete(t), fol' # fol
          PROVE  Busy(fol[i])
      <4>1. PICK n \in Follows :
              Begins(n) /\ \A j \in Follows : j # n => Continues(j)
        BY <3>2, Starts
      <4> QED BY <2>2, <4>1 DEF Begins, Continues, Busy
    <3>3. ASSUME NEW j \in Follows, FollowStep(j) \/ FollowError(j), ~FollowOpen(j)
          PROVE  Busy(fol[i])
      <4>1. CASE j # i
        BY <2>2, <3>3, <4>1, OthersStay
      <4>2. CASE j = i
        BY <2>2, <3>3, <4>2, AwaitFields, ReadFields, EOFFields, ProcessFields,
           AdvanceFields, ErrorFields DEF FollowStep, Busy
      <4> QED BY <4>1, <4>2
    <3> QED BY <1>2, <3>1, <3>2, <3>3, FolMoves
  <2>3. ASSUME NEW i \in Follows, LastOpened(i) PROVE LastOpened(i)'
    BY <1>2, <2>3, LastKept
  <2> QED BY <2>1, <2>2, <2>3 DEF ReaderLast
<1> QED BY <1>1, <1>2

----------------------------------------------------------------------------
(* The reader and its position *)

\* The line of a file after the first n: complete, or begun.
LineAfter(s, rest, n) == IF n < Len(s) THEN s[n + 1] ELSE rest
NextLine(r) == LineAfter(file[r.file], torn[r.file], r.pos)

\* What is handed to processLine is the next line, and the rest of a huge one
\* when its first part went there before.
WorksOn ==
  \A i \in Follows : fol[i].pc \in {"process", "advance"} =>
    /\ fol[i].line = NextLine(fol[i])
    /\ fol[i].bytes = 2 => ~(fol[i].line.kind = "huge" /\ fol[i].partial)

\* The first part of a huge line is the one thing readPos counts before the
\* line has been processed.
Ahead(i) ==
  IF fol[i].partial /\ NextLine(fol[i]).kind = "huge" THEN 1 ELSE 0

\* readPos never runs ahead of the follower that opened last, but by that.
Position ==
  ~overlap => \A i \in Follows :
    /\ LastOpened(i) => readPos <= 2 * fol[i].pos + 1
    /\ Busy(fol[i]) => readPos <= 2 * fol[i].pos + Ahead(i)

\* The line in processLine was written by the turn captured with it, or earlier.
LineDated ==
  \A i \in Follows : fol[i].pc \in {"process", "advance"} =>
    by[fol[i].line] <= fol[i].turn

\* A line that was begun stays where it is.
LEMMA NextKept ==
  ASSUME FilesInv, [Next]_vars, NEW f \in Files, f <= inodes, NEW n \in Nat,
         n <= Len(file[f]), LineAfter(file[f], torn[f], n) # NoLine
  PROVE  LineAfter(file'[f], torn'[f], n) = LineAfter(file[f], torn[f], n)
<1>1. /\ Len(file[f]) \in Nat /\ Len(file'[f]) \in Nat
      /\ Len(file[f]) <= Len(file'[f])
      /\ \A k \in 1..Len(file[f]) : file'[f][k] = file[f][k]
  BY FilesGrow
<1>2. CASE n < Len(file[f])
  <2>1. n + 1 \in 1..Len(file[f]) /\ n < Len(file'[f])
    BY <1>1, <1>2
  <2> QED BY <1>1, <1>2, <2>1 DEF LineAfter
<1>3. CASE n = Len(file[f])
  <2>1. torn[f] # NoLine /\ LineAfter(file[f], torn[f], n) = torn[f]
    BY <1>1, <1>3 DEF LineAfter
  <2>2. /\ file \in [Files -> Seq(Script)] /\ torn \in [Files -> LineOrNone]
        /\ at \in [Paths -> 0..MaxFiles] /\ writes \in Paths /\ inodes \in Nat
        /\ file[f] \in Seq(Script) /\ torn[f] \in Script /\ f \in Nat
    BY <2>1, Constants DEF FilesInv, TypeInv, TypeOK, TypeDisk, LineOrNone, Files
  <2>3. CASE UNCHANGED <<file, torn>>
    BY <2>3 DEF LineAfter
  <2>4. CASE ClaudeWrites
    <3>1. PICK l \in todo :
            /\ at'[writes] = at[writes] \/ at'[writes] = Fresh
            /\ at[writes] # 0 => at'[writes] = at[writes]
            /\ torn' = [torn EXCEPT ![at'[writes]] = l]
      BY <2>2, <2>4 DEF ClaudeWrites
    <3>2. at'[writes] # f
      <4>1. CASE at[writes] # 0
        BY <2>1, <2>4, <3>1, <4>1 DEF ClaudeWrites
      <4>2. CASE at[writes] = 0
        BY <2>2, <3>1, <4>2, Constants DEF Fresh, Files
      <4> QED BY <4>1, <4>2
    <3>3. torn'[f] = torn[f] /\ file' = file
      BY <2>2, <2>4, <3>1, <3>2 DEF ClaudeWrites
    <3> QED BY <3>3 DEF LineAfter
  <2>5. CASE ClaudeEndsLine
    <3>1. CASE at[writes] = f
      <4>1. file'[f] = Append(file[f], torn[f])
        BY <2>2, <2>5, <3>1 DEF ClaudeEndsLine
      <4>2. Len(file'[f]) = n + 1 /\ file'[f][n + 1] = torn[f]
        BY <1>1, <1>3, <2>2, <4>1, Appended
      <4> QED BY <2>1, <4>2 DEF LineAfter
    <3>2. CASE at[writes] # f
      <4>1. file'[f] = file[f] /\ torn'[f] = torn[f]
        BY <2>2, <2>5, <3>2 DEF ClaudeEndsLine
      <4> QED BY <4>1 DEF LineAfter
    <3> QED BY <3>1, <3>2
  <2>6. CASE ClaudeRestarts
    <3>1. Fresh # f
      BY <2>2 DEF Fresh
    <3>2. file'[f] = file[f] /\ torn' = torn
      BY <2>2, <2>6, <3>1 DEF ClaudeRestarts
    <3> QED BY <3>2 DEF LineAfter
  <2> QED BY <2>3, <2>4, <2>5, <2>6, Actors, ManagerApart, FollowersApart DEF diskVars
<1> QED BY <1>1, <1>2, <1>3

\* A busy follower's file, and where it is in it.
LEMMA BusyPlace ==
  ASSUME ReadInv, NEW i \in Follows, Busy(fol[i])
  PROVE  /\ fol[i].file \in Files /\ fol[i].file <= inodes /\ fol[i].pos \in Nat
         /\ Len(file[fol[i].file]) \in Nat /\ fol[i].pos <= Len(file[fol[i].file])
         /\ DOMAIN file[fol[i].file] = 1..Len(file[fol[i].file])
         /\ fol[i].pc \in {"process", "advance"} => fol[i].line \in Script
         /\ fol[i].bytes \in {1, 2}
<1>1. fol[i] \in Follower /\ WellFormed(fol[i]) /\ file \in [Files -> Seq(Script)]
  BY DEF ReadInv, FilesInv, TypeInv, TypeOK, TypeFol, TypeDisk, FolShape
<1>2. fol[i].file \in Files /\ fol[i].file <= inodes /\ fol[i].pos \in Nat
  BY <1>1, FollowerFields DEF WellFormed, Busy, ReadInv, FilesInv, Created
<1>3. fol[i].pos <= Len(file[fol[i].file])
  BY DEF ReadInv, Reading, ReadsWell
<1> QED BY <1>1, <1>2, <1>3, FollowerFields DEF WellFormed

\* Steps of others leave a follower's place, line and part of it.
Stands(i) ==
  /\ fol'[i].pc = fol[i].pc /\ fol'[i].file = fol[i].file /\ fol'[i].pos = fol[i].pos
  /\ SameLine(fol'[i], fol[i]) /\ fol'[i].partial = fol[i].partial

\* A follower stands, begins, or moves.
LEMMA StandOrMove ==
  ASSUME TypeInv, [Next]_vars, NEW i \in Follows
  PROVE  \/ Stands(i)
         \/ FollowStep(i) \/ FollowError(i)
         \/ Begins(i)
<1>1. CASE UNCHANGED fol
  BY <1>1 DEF Stands, SameLine
<1>2. ASSUME NEW t \in Turns, ensureTailerFollowing(t) \/ Complete(t), fol' # fol
      PROVE  Stands(i) \/ Begins(i)
  <2>1. PICK n \in Follows :
          Begins(n) /\ \A j \in Follows : j # n => Continues(j)
    BY <1>2, Starts
  <2> QED BY <2>1 DEF Continues, Stands
<1>3. ASSUME NEW j \in Follows, FollowStep(j) \/ FollowError(j)
      PROVE  Stands(i) \/ j = i
  BY <1>3, OthersStay DEF Stands, SameLine
<1> QED BY <1>1, <1>2, <1>3, FolMoves

\* The line in processLine stays the next one.
LEMMA WorksStep ==
  ASSUME ReadInv, WorksOn, [Next]_vars
  PROVE  WorksOn'
<1>0. TypeInv /\ FilesInv
  BY DEF ReadInv, FilesInv
<1> SUFFICES ASSUME NEW i \in Follows, fol'[i].pc \in {"process", "advance"}
             PROVE  /\ fol'[i].line = LineAfter(file'[fol'[i].file], torn'[fol'[i].file],
                                                fol'[i].pos)
                    /\ fol'[i].bytes = 2 => ~(fol'[i].line.kind = "huge" /\ fol'[i].partial)
  BY DEF WorksOn, NextLine
<1>1. ASSUME fol[i].pc \in {"process", "advance"}
      PROVE  /\ fol[i].line = LineAfter(file'[fol[i].file], torn'[fol[i].file], fol[i].pos)
             /\ fol[i].bytes = 2 => ~(fol[i].line.kind = "huge" /\ fol[i].partial)
  <2>1. /\ Busy(fol[i])
        /\ fol[i].line = LineAfter(file[fol[i].file], torn[fol[i].file], fol[i].pos)
        /\ fol[i].bytes = 2 => ~(fol[i].line.kind = "huge" /\ fol[i].partial)
    BY <1>1 DEF Busy, WorksOn, NextLine
  <2>2. /\ fol[i].file \in Files /\ fol[i].file <= inodes /\ fol[i].pos \in Nat
        /\ fol[i].pos <= Len(file[fol[i].file]) /\ fol[i].line # NoLine
    BY <1>1, <2>1, BusyPlace, Constants
  <2> QED BY <1>0, <2>1, <2>2, NextKept
<1>2. CASE Stands(i)
  <2>1. fol[i].pc \in {"process", "advance"}
    BY <1>2 DEF Stands
  <2> QED BY <1>1, <1>2, <2>1 DEF Stands, SameLine
<1>3. CASE Begins(i)
  BY <1>3 DEF Begins
<1>4. CASE FollowRead(i)
  <2>1. /\ fol[i].pos < Len(file[fol[i].file]) /\ file' = file
        /\ fol'[i].line = file[fol[i].file][fol[i].pos + 1]
        /\ fol'[i].file = fol[i].file /\ fol'[i].pos = fol[i].pos
        /\ fol'[i].partial = fol[i].partial
        /\ fol'[i].bytes = IF fol'[i].line.kind = "huge" /\ fol[i].partial THEN 1 ELSE 2
    BY <1>0, <1>4, ReadFields, HandOverFields DEF SamePlace, diskVars
  <2> QED BY <2>1 DEF LineAfter
<1>5. CASE FollowEOF(i)
  <2>1. /\ fol[i].pos = Len(file[fol[i].file]) /\ file' = file /\ torn' = torn
        /\ fol'[i].line = torn[fol[i].file]
        /\ fol'[i].file = fol[i].file /\ fol'[i].pos = fol[i].pos
        /\ fol'[i].bytes = 1 /\ Busy(fol[i])
    BY <1>0, <1>5, EOFFields, HandOverFields DEF SamePlace, diskVars, Busy
  <2>2. ~(fol'[i].pos < Len(file'[fol'[i].file]))
    BY <2>1, BusyPlace
  <2> QED BY <2>1, <2>2 DEF LineAfter
<1>6. CASE FollowProcess(i)
  <2>1. /\ fol[i].pc = "process"
        /\ fol'[i].line = fol[i].line /\ fol'[i].file = fol[i].file
        /\ fol'[i].pos = fol[i].pos /\ fol'[i].bytes = fol[i].bytes
        /\ fol'[i].partial = fol[i].partial
    BY <1>0, <1>6, ProcessFields DEF SamePlace, SameLine
  <2> QED BY <1>1, <2>1
<1>7. CASE \/ awaitTranscriptFile(i) \/ FollowCancelled(i) \/ FollowOpen(i)
           \/ FollowAdvance(i) \/ FollowError(i)
  BY <1>0, <1>7, AwaitFields, OpenFields, AdvanceFields, ErrorFields
<1> QED BY <1>0, <1>2, <1>3, <1>4, <1>5, <1>6, <1>7, StandOrMove DEF FollowStep

\* Dates are kept, and the turn captured with a line is the current one.
LEMMA DatedStep ==
  ASSUME TypeInv, TurnsInOrder, Dated, [Next]_vars
  PROVE  Dated'
<1>1. /\ currentTurnID \in Nat /\ currentTurnID' \in Nat
      /\ currentTurnID <= currentTurnID' /\ TypeInv'
  <2>1. TypeInv'
    BY TypeStep
  <2>2. currentTurnID \in 0..MaxTurns /\ MaxTurns \in Nat
    BY TurnTypes
  <2>3. currentTurnID' \in 0..MaxTurns
    BY <2>1, Constants DEF TypeInv, TypeOK, TypeMgr, currentTurnID
  <2> QED BY <2>1, <2>2, <2>3, TurnsStep
<1>2. ASSUME NEW l \in Script
      PROVE  by'[l] <= currentTurnID' /\ (l \notin todo' => by'[l] # 0)
  <2>1. by[l] \in Nat /\ by \in [Script -> 0..MaxTurns]
    BY Constants DEF TypeInv, TypeOK, TypeDisk
  <2>2. CASE by'[l] = by[l] /\ (l \notin todo' => l \notin todo)
    BY <1>1, <1>2, <2>1, <2>2 DEF Dated
  <2>3. CASE ClaudeWrites
    <3>1. PICK x \in todo : /\ todo' = todo \ {x}
                            /\ by' = [by EXCEPT ![x] = current]
      BY <2>3 DEF ClaudeWrites
    <3>2. CASE l = x
      <4>1. by'[l] = current /\ current # 0 /\ currentTurnID = current
        BY <2>1, <2>3, <3>1, <3>2 DEF ClaudeWrites, currentTurnID
      <4> QED BY <1>1, <4>1
    <3>3. CASE l # x
      BY <2>1, <2>2, <3>1, <3>3
    <3> QED BY <3>2, <3>3
  <2>4. CASE ClaudeEndsLine \/ ClaudeRestarts
    BY <2>2, <2>4 DEF ClaudeEndsLine, ClaudeRestarts
  <2> QED BY <2>2, <2>3, <2>4, Actors, ManagerApart, FollowersApart DEF diskVars
<1>3. \A i \in Follows : fol[i].turn \in Nat /\ fol[i].turn <= currentTurnID'
  <2>1. \A i \in Follows : fol[i] \in Follower
    BY DEF TypeInv, TypeOK, TypeFol
  <2> QED BY <1>1, <2>1, FollowerFields, Constants DEF Dated
<1>4. iiTurnID' <= currentTurnID'
  <2>1. CASE iiTurnID' = iiTurnID
    BY <1>1, <2>1, Constants DEF Dated, TypeInv, TypeOK, TypeAcc
  <2>2. ASSUME NEW t \in Turns, DrainStep(t) PROVE iiTurnID' \in {iiTurnID, 0}
    BY <2>2 DEF DrainStep, DrainStat, CaughtUpTo, DrainTimeout, DrainInternalIssues, accVars
  <2>3. ASSUME NEW t \in Turns, TurnStep(t) PROVE iiTurnID' = iiTurnID
    BY <2>3 DEF TurnStep, Submit, ensureTailerFollowing, Complete, Fail, accVars
  <2>4. ASSUME NEW i \in Follows, FollowStep(i) \/ FollowError(i)
        PROVE  iiTurnID' \in {iiTurnID, fol[i].turn}
    <3>1. CASE FollowProcess(i)
      BY <3>1 DEF FollowProcess, processLine, accumulateInternalIssue, accVars
    <3> QED BY <2>4, <3>1, AwaitFields, OpenFields, ReadFields, EOFFields,
               AdvanceFields, ErrorFields DEF FollowStep, accVars
  <2>5. CASE iiTurnID' = 0
    BY <1>1, <2>5
  <2> QED BY <1>3, <2>1, <2>2, <2>3, <2>4, <2>5, Actors, ClaudeApart DEF accVars
<1>5. ASSUME NEW i \in Follows PROVE fol'[i].turn <= currentTurnID'
  <2>1. CASE fol'[i].turn = fol[i].turn
    BY <1>3, <2>1
  <2>2. CASE fol'[i].turn = 0
    BY <1>1, <2>2
  <2>3. CASE fol'[i].turn = currentTurnID
    BY <1>1, <2>3
  <2>4. CASE FollowStep(i) \/ FollowError(i)
    BY <2>1, <2>2, <2>3, <2>4, AwaitFields, OpenFields, ReadFields, EOFFields,
       HandOverFields, ProcessFields, AdvanceFields, ErrorFields DEF FollowStep, SameLine
  <2> QED BY <2>1, <2>2, <2>4, StandOrMove DEF Stands, Begins, SameLine
<1> QED BY <1>2, <1>4, <1>5 DEF Dated

\* What readPos is allowed to be ahead does not shrink while a follower stands.
LEMMA AheadKept ==
  ASSUME ReadInv, [Next]_vars, NEW i \in Follows, Busy(fol[i]), Stands(i)
  PROVE  Ahead(i) \in {0, 1} /\ Ahead(i)' \in {0, 1} /\ Ahead(i) <= Ahead(i)'
<1>1. Ahead(i) \in {0, 1} /\ Ahead(i)' \in {0, 1}
  BY DEF Ahead
<1>2. ASSUME Ahead(i) = 1 PROVE Ahead(i)' = 1
  <2>1. /\ fol[i].partial
        /\ LineAfter(file[fol[i].file], torn[fol[i].file], fol[i].pos).kind = "huge"
    BY <1>2 DEF Ahead, NextLine
  <2>2. LineAfter(file[fol[i].file], torn[fol[i].file], fol[i].pos) # NoLine
    BY <2>1 DEF NoLine
  <2>3. LineAfter(file'[fol[i].file], torn'[fol[i].file], fol[i].pos)
          = LineAfter(file[fol[i].file], torn[fol[i].file], fol[i].pos)
    BY <2>2, BusyPlace, NextKept DEF ReadInv
  <2> QED BY <2>1, <2>3 DEF Ahead, NextLine, Stands
<1> QED BY <1>1, <1>2

\* readPos keeps behind the reader.
LEMMA PositionStep ==
  ASSUME ReadInv, Queued, ReaderLast, WorksOn, Position, [Next]_vars
  PROVE  Position'
<1>0. /\ TypeInv /\ TypeInv' /\ readPos \in Nat /\ readPos' \in Nat
      /\ \A i \in Follows : fol[i].pos \in Nat /\ fol'[i].pos \in Nat
  <2>1. TypeInv
    BY DEF ReadInv, FilesInv
  <2>2. TypeInv'
    BY <2>1, TypeStep
  <2>3. \A i \in Follows : fol[i] \in Follower
    BY <2>1 DEF TypeInv, TypeOK, TypeFol
  <2>4. \A i \in Follows : fol'[i] \in Follower
    BY <2>2 DEF TypeInv, TypeOK, TypeFol
  <2> QED BY <2>1, <2>2, <2>3, <2>4, FollowerFields DEF TypeInv, TypeOK, TypeFol
<1> SUFFICES ASSUME ~overlap', NEW i \in Follows
             PROVE  /\ LastOpened(i)' => readPos' <= 2 * fol'[i].pos + 1
                    /\ Busy(fol'[i]) => readPos' <= 2 * fol'[i].pos + Ahead(i)'
  BY DEF Position
<1>1. ~overlap
  BY <1>0, ReaderLastStep
<1> DEFINE p == fol[i].pos
           z == fol'[i].pos
           a == Ahead(i)
           b == Ahead(i)'
<1>2. /\ p \in Nat /\ z \in Nat /\ a \in {0, 1} /\ b \in {0, 1}
      /\ LastOpened(i) => readPos <= 2 * p + 1
      /\ Busy(fol[i]) => readPos <= 2 * p + a
  BY <1>0, <1>1 DEF Position, Ahead
<1> SUFFICES /\ LastOpened(i)' => readPos' <= 2 * z + 1
             /\ Busy(fol'[i]) => readPos' <= 2 * z + b
  OBVIOUS
<1>3. ASSUME NEW j \in Follows, FollowOpen(j)
      PROVE  readPos' <= 2 * z + 1 /\ readPos' <= 2 * z + b
  <2>1. readPos' = 0
    BY <1>0, <1>3, OpenFields
  <2> HIDE DEF p, z, a, b
  <2> QED BY <1>2, <2>1
<1>4. ASSUME Stands(i), readPos' = readPos, LastOpened(i)' => LastOpened(i)
      PROVE  /\ LastOpened(i)' => readPos' <= 2 * z + 1
             /\ Busy(fol'[i]) => readPos' <= 2 * z + b
  <2>1. z = p /\ (Busy(fol'[i]) => Busy(fol[i])) /\ (Busy(fol[i]) => a <= b)
    BY <1>4, AheadKept DEF Stands, Busy
  <2> HIDE DEF p, z, a, b
  <2> QED BY <1>0, <1>2, <1>4, <2>1
<1>5. CASE UNCHANGED fol /\ UNCHANGED readPos
  <2>1. LastOpened(i)' => LastOpened(i)
    BY <1>5 DEF LastOpened
  <2>2. Stands(i)
    BY <1>5 DEF Stands, SameLine
  <2> QED BY <1>4, <1>5, <2>1, <2>2
<1>6. ASSUME NEW t \in Turns, ensureTailerFollowing(t) \/ Complete(t), fol' # fol
      PROVE  /\ LastOpened(i)' => readPos' <= 2 * z + 1
             /\ Busy(fol'[i]) => readPos' <= 2 * z + b
  <2>1. PICK n \in Follows :
          Begins(n) /\ \A j \in Follows : j # n => Continues(j)
    BY <1>0, <1>6, Starts
  <2>2. readPos' = readPos
    BY <1>6, ManagerApart DEF TurnStep
  <2>3. CASE i = n
    BY <2>1, <2>3 DEF Begins, LastOpened, Busy
  <2>4. CASE i # n
    <3>1. Stands(i)
      BY <2>1, <2>4 DEF Continues, Stands
    <3>2. LastOpened(i)' => LastOpened(i)
      <4>1. \A j \in Follows : fol'[j].file = fol[j].file
        BY <2>1 DEF Begins, Continues, Queued
      <4> QED BY <4>1 DEF LastOpened
    <3> QED BY <1>4, <2>2, <3>1, <3>2
  <2> QED BY <2>3, <2>4
<1>7. ASSUME NEW j \in Follows, FollowStep(j) \/ FollowError(j), ~FollowOpen(j), j # i
      PROVE  /\ LastOpened(i)' => readPos' <= 2 * z + 1
             /\ Busy(fol'[i]) => readPos' <= 2 * z + b
  <2>1. Stands(i) /\ fol'[i] = fol[i]
    BY <1>0, <1>7, OthersStay DEF Stands, SameLine
  <2>2. LastOpened(i)' => LastOpened(i)
    <3>1. \A k \in Follows : fol'[k].file = fol[k].file
      BY <1>0, <1>7, OthersStay, Marches
    <3> QED BY <3>1 DEF LastOpened
  <2>3. CASE readPos' = readPos
    BY <1>4, <2>1, <2>2, <2>3
  <2>4. CASE FollowAdvance(j)
    <3>1. LastOpened(j)
      BY <1>0, <1>1, <2>4, AdvanceFields DEF ReaderLast, Busy
    <3>2. ~LastOpened(i)
      BY <1>7, <3>1, OneLast
    <3>3. ~Busy(fol[i])
      BY <1>1, <3>2 DEF ReaderLast
    <3> QED BY <2>1, <2>2, <3>2, <3>3
  <2>5. readPos' = readPos \/ FollowAdvance(j)
    BY <1>0, <1>7, AwaitFields, ReadFields, EOFFields, ProcessFields, ErrorFields
       DEF FollowStep
  <2> QED BY <2>3, <2>4, <2>5
<1>8. ASSUME awaitTranscriptFile(i) \/ FollowCancelled(i)
      PROVE  /\ LastOpened(i)' => readPos' <= 2 * z + 1
             /\ Busy(fol'[i]) => readPos' <= 2 * z + b
  <2>1. ~Busy(fol'[i]) /\ z = p /\ readPos' = readPos
    BY <1>0, <1>8, AwaitFields DEF Busy, SamePlace
  <2>2. LastOpened(i)' => LastOpened(i)
    <3>1. \A k \in Follows : fol'[k].file = fol[k].file
      BY <1>0, <1>8, OthersStay, AwaitFields DEF SamePlace, FollowStep
    <3> QED BY <3>1 DEF LastOpened
  <2> QED BY <1>0, <1>2, <2>1, <2>2
<1>9. ASSUME FollowRead(i) \/ FollowProcess(i)
      PROVE  readPos' <= 2 * z + 1 /\ readPos' <= 2 * z + b
  <2>1. /\ z = p /\ readPos' = readPos /\ Busy(fol[i]) /\ file' = file /\ torn' = torn
        /\ fol'[i].file = fol[i].file /\ fol'[i].partial = fol[i].partial
    BY <1>0, <1>9, ReadFields, HandOverFields, ProcessFields DEF Busy, SamePlace, diskVars
  <2>2. a = b
    BY <2>1 DEF Ahead, NextLine
  <2> HIDE DEF p, z, a, b
  <2> QED BY <1>0, <1>2, <2>1, <2>2
<1>10. ASSUME FollowEOF(i) \/ FollowError(i)
       PROVE  readPos' <= 2 * z + 1 /\ (Busy(fol'[i]) => readPos' <= 2 * z + b)
  <2>1. /\ z = p /\ readPos' = readPos /\ Busy(fol[i]) /\ file' = file /\ torn' = torn
        /\ fol'[i].file = fol[i].file
    BY <1>0, <1>10, EOFFields, HandOverFields, ErrorFields DEF Busy, SamePlace, diskVars
  <2>2. Busy(fol'[i]) => a <= b
    <3>1. CASE FollowError(i)
      BY <1>0, <3>1, ErrorFields DEF Busy
    <3>2. CASE FollowEOF(i) /\ HandOver(i, torn[fol[i].file], 1)
      <4>1. fol'[i].partial = fol[i].partial
        BY <1>0, <3>2, HandOverFields
      <4>2. a = b
        BY <2>1, <4>1 DEF Ahead, NextLine
      <4> QED BY <1>2, <4>2
    <3>3. CASE FollowEOF(i) /\ ~HandOver(i, torn[fol[i].file], 1)
      <4>1. /\ fol[i].pos = Len(file[fol[i].file])
            /\ fol'[i].pc \in {"open", "done", "read"}
            /\ fol'[i].pc = "read" => (fol'[i].partial <=> torn[fol[i].file] # NoLine)
        BY <1>0, <3>3, EOFFields
      <4>2. /\ NextLine(fol[i]) = torn[fol[i].file]
            /\ NextLine(fol[i])' = torn[fol[i].file]
        BY <1>0, <2>1, <4>1, BusyPlace DEF NextLine, LineAfter
      <4>3. torn[fol[i].file].kind = "huge" => torn[fol[i].file] # NoLine
        BY DEF NoLine
      <4>4. CASE torn[fol[i].file].kind = "huge" /\ fol'[i].pc = "read"
        BY <1>2, <4>1, <4>2, <4>3, <4>4 DEF Ahead
      <4>5. CASE torn[fol[i].file].kind # "huge"
        BY <1>2, <4>2, <4>5 DEF Ahead
      <4> QED BY <4>1, <4>4, <4>5 DEF Busy
    <3> QED BY <1>10, <3>1, <3>2, <3>3
  <2> HIDE DEF p, z, a, b
  <2> QED BY <1>0, <1>2, <2>1, <2>2
<1>11. ASSUME FollowAdvance(i)
       PROVE  readPos' <= 2 * z + 1 /\ readPos' <= 2 * z + b
  <2> DEFINE n == fol[i].bytes
  <2>1. /\ Busy(fol[i]) /\ fol[i].pc = "advance" /\ file' = file /\ torn' = torn
        /\ fol'[i].file = fol[i].file /\ (fol'[i].partial <=> Piece(fol[i]))
        /\ z = IF Piece(fol[i]) THEN p ELSE p + 1
        /\ readPos' = readPos + n
    BY <1>0, <1>11, AdvanceFields DEF Busy, diskVars
  <2>2. /\ fol[i].line = NextLine(fol[i]) /\ n \in {1, 2}
        /\ n = 2 => ~(fol[i].line.kind = "huge" /\ fol[i].partial)
        /\ n = 1 => fol[i].line.kind = "huge"
    BY <2>1, BusyPlace DEF WorksOn, ReadInv, Reading, ReadsWell
  <2>3. CASE Piece(fol[i])
    <3>1. n = 1 /\ a = 0 /\ z = p
      BY <2>1, <2>3 DEF Piece, Ahead
    <3>2. b = 1
      <4>1. NextLine(fol[i])' = NextLine(fol[i])
        BY <2>1, <3>1 DEF NextLine
      <4> QED BY <2>1, <2>2, <2>3, <3>1, <4>1 DEF Ahead
    <3> HIDE DEF p, z, a, b, n
    <3> QED BY <1>0, <1>2, <2>1, <3>1, <3>2
  <2>4. CASE ~Piece(fol[i])
    <3>1. z = p + 1 /\ n + a <= 2
      BY <1>2, <2>1, <2>2, <2>4 DEF Piece, Ahead
    <3> HIDE DEF p, z, a, b, n
    <3> QED BY <1>0, <1>2, <2>1, <2>2, <3>1
  <2> QED BY <2>3, <2>4
<1>12. \/ UNCHANGED fol /\ UNCHANGED readPos
       \/ \E t \in Turns : (ensureTailerFollowing(t) \/ Complete(t)) /\ fol' # fol
       \/ \E j \in Follows : FollowStep(j) \/ FollowError(j)
  <2>1. CASE UNCHANGED fol
    BY <2>1, Actors, ClaudeApart, ManagerApart
  <2> QED BY <2>1, FolMoves
<1> QED BY <1>3, <1>5, <1>6, <1>7, <1>8, <1>9, <1>10, <1>11, <1>12 DEF FollowStep

----------------------------------------------------------------------------
(* What is read is booked *)

\* A follower is within the file it opened, also when it reads no more.
Within ==
  \A i \in Follows : fol[i].file # 0 => fol[i].pos <= Len(file[fol[i].file])

\* The lines that are in the accumulator if they have to be: the reports of the
\* current turn, until they are drained.
Booked ==
  {l \in Script :
     (\E t \in Turns : /\ l.kind = "report" /\ by[l] = t
                       /\ t = currentTurnID /\ drain[t].pc # "done")
       => iiTurnID = currentTurnID /\ l \in issues}

\* What the last follower has read is booked.
ReadBooked ==
  ~overlap => \A i \in Follows : LastOpened(i) =>
    /\ \A k \in 1..fol[i].pos : file[fol[i].file][k] \in Booked
    /\ fol[i].pc = "advance" => fol[i].line \in Booked

\* While the accumulator holds the current turn's reports, no line of an
\* earlier turn's can be about to clear it.
InProcess ==
  ~overlap /\ iiTurnID = currentTurnID =>
    \A i \in Follows : fol[i].pc = "process" => fol[i].turn = currentTurnID

\* A drain waits for no more than its file has.
DrainShape ==
  \A t \in Turns :
    /\ drain[t].pc \in {"off", "stat", "done"} => drain[t].file = 0
    /\ drain[t].pc # "drain" => drain[t].caught = 0
    /\ drain[t].pc = "wait" => drain[t].file # 0
    /\ drain[t].file # 0 => /\ drain[t].file <= inodes
                            /\ drain[t].target <= 2 * Len(file[drain[t].file]) + 1

\* What a drain has caught up with is booked.
CaughtBooked ==
  ~overlap => \A t \in Turns :
    drain[t].pc = "drain" /\ drain[t].caught # 0 /\ drain[t].caught = drain[t].file =>
      \A k \in DOMAIN file[drain[t].file] :
        2 * k <= drain[t].target => file[drain[t].file][k] \in Booked

\* The inductive invariant of the drain.
DeliverInv ==
  /\ ReadInv /\ TurnsInOrder /\ Dated /\ Queued /\ ReaderLast
  /\ WorksOn /\ Position /\ LineDated /\ Within
  /\ ReadBooked /\ InProcess /\ DrainShape /\ CaughtBooked

\* At the start there is nothing to book.
LEMMA DeliverInit == ASSUME Init PROVE DeliverInv
<1>1. ReadInv
  BY ReadInit
<1>2. /\ current = 0 /\ lastCompleted = 0 /\ currentTurnID = 0 /\ iiTurnID = 0
      /\ readPos = 0 /\ ~overlap
      /\ \A t \in Turns : /\ drain[t].pc = "off" /\ drain[t].file = 0
                          /\ drain[t].caught = 0
      /\ \A l \in Script : by[l] = 0 /\ l \in todo
  BY DEF Init, currentTurnID
<1>3. \A i \in Follows : /\ fol[i].pc = "off" /\ fol[i].file = 0 /\ fol[i].turn = 0
                         /\ ~fol[i].partial
  <2> DEFINE b == FALSE
             idle == [pc |-> "off", cancelled |-> b, path |-> 0, file |-> 0, pos |-> 0,
                      partial |-> b, line |-> NoLine, bytes |-> 2, turn |-> 0]
  <2>1. \A i \in Follows : fol[i] = idle
    BY DEF Init, Idle
  <2>2. ~b
    OBVIOUS
  <2> HIDE DEF b
  <2>3. \A i \in Follows : /\ fol[i].pc = "off" /\ fol[i].file = 0 /\ fol[i].turn = 0
                           /\ fol[i].partial = b
    BY <2>1
  <2> QED BY <2>2, <2>3
<1>4. TurnsInOrder /\ Dated
  BY <1>2, <1>3, Constants DEF TurnsInOrder, Dated, Turns
<1>5. Queued /\ ReaderLast /\ WorksOn /\ Position /\ LineDated /\ Within
  BY <1>2, <1>3 DEF Queued, ReaderLast, WorksOn, Position, LineDated, Within, Busy,
     LastOpened
<1>6. ReadBooked /\ InProcess /\ DrainShape /\ CaughtBooked
  BY <1>2, <1>3 DEF ReadBooked, InProcess, DrainShape, CaughtBooked, LastOpened
<1> QED BY <1>1, <1>4, <1>5, <1>6 DEF DeliverInv

\* The parts the proofs below need again and again.
LEMMA DeliverParts ==
  ASSUME DeliverInv
  PROVE  /\ ReadInv /\ FilesInv /\ TypeInv /\ TurnsInOrder /\ Dated /\ Queued
         /\ ReaderLast /\ WorksOn /\ Position /\ LineDated /\ Within
         /\ ReadBooked /\ InProcess /\ DrainShape /\ CaughtBooked
         /\ Created /\ WrittenOnce
BY DEF DeliverInv, ReadInv, FilesInv

\* A file that was opened.
LEMMA OpenedPlace ==
  ASSUME DeliverInv, NEW i \in Follows, fol[i].file # 0
  PROVE  /\ fol[i].file \in Files /\ fol[i].file <= inodes /\ fol[i].pos \in Nat
         /\ Len(file[fol[i].file]) \in Nat /\ fol[i].pos <= Len(file[fol[i].file])
         /\ DOMAIN file[fol[i].file] = 1..Len(file[fol[i].file])
<1>1. fol[i] \in Follower /\ file \in [Files -> Seq(Script)]
  BY DeliverParts DEF TypeInv, TypeOK, TypeFol, TypeDisk
<1>2. fol[i].file \in Files /\ fol[i].pos \in Nat
  BY <1>1, FollowerFields, Constants
<1> QED BY <1>1, <1>2, DeliverParts DEF Created, Within

\* A line on disk keeps its place and its date.
LEMMA LineKept ==
  ASSUME DeliverInv, [Next]_vars, NEW f \in Files, f <= inodes, NEW k \in DOMAIN file[f]
  PROVE  /\ file[f][k] \in Script /\ file[f][k] \notin todo
         /\ file'[f][k] = file[f][k] /\ by'[file[f][k]] = by[file[f][k]]
         /\ k \in DOMAIN file'[f]
<1>1. /\ file \in [Files -> Seq(Script)] /\ file' \in [Files -> Seq(Script)]
  BY DeliverParts, TypeStep DEF TypeInv, TypeOK, TypeDisk
<1>2. file[f][k] \in Script /\ k \in 1..Len(file[f])
  BY <1>1
<1>3. file[f][k] \notin todo
  BY DeliverParts DEF WrittenOnce
<1>4. file'[f][k] = file[f][k] /\ Len(file[f]) <= Len(file'[f])
  BY <1>2, DeliverParts, FilesGrow
<1>5. by'[file[f][k]] = by[file[f][k]]
  BY <1>2, <1>3, DeliverParts, DatesKept
<1>6. k \in DOMAIN file'[f]
  BY <1>1, <1>2, <1>4
<1> QED BY <1>2, <1>3, <1>4, <1>5, <1>6

\* The line in processLine is on disk.
LEMMA WorkWritten ==
  ASSUME DeliverInv, NEW i \in Follows, fol[i].pc \in {"process", "advance"}
  PROVE  fol[i].line \in Script /\ fol[i].line \notin todo
<1>1. Busy(fol[i]) /\ fol[i].line = NextLine(fol[i])
  BY DeliverParts DEF Busy, WorksOn
<1>2. /\ fol[i].file \in Files /\ fol[i].pos \in Nat /\ fol[i].line \in Script
      /\ Len(file[fol[i].file]) \in Nat
      /\ DOMAIN file[fol[i].file] = 1..Len(file[fol[i].file])
  BY <1>1, DeliverParts, BusyPlace
<1>3. CASE fol[i].pos < Len(file[fol[i].file])
  <2>1. fol[i].pos + 1 \in DOMAIN file[fol[i].file]
    BY <1>2, <1>3
  <2> QED BY <1>1, <1>2, <1>3, <2>1, DeliverParts DEF WrittenOnce, NextLine, LineAfter
<1>4. CASE ~(fol[i].pos < Len(file[fol[i].file]))
  BY <1>1, <1>2, <1>4, DeliverParts DEF WrittenOnce, NextLine, LineAfter
<1> QED BY <1>3, <1>4

\* A line is captured with the current turn.
LEMMA LineDatedStep == ASSUME DeliverInv, [Next]_vars PROVE LineDated'
<1> SUFFICES ASSUME NEW i \in Follows, fol'[i].pc \in {"process", "advance"}
             PROVE  by'[fol'[i].line] <= fol'[i].turn
  BY DEF LineDated
<1>1. ASSUME fol[i].pc \in {"process", "advance"}, SameLine(fol'[i], fol[i])
      PROVE  by'[fol'[i].line] <= fol'[i].turn
  <2>1. by[fol[i].line] <= fol[i].turn
    BY <1>1, DeliverParts DEF LineDated
  <2>2. by'[fol[i].line] = by[fol[i].line]
    BY <1>1, WorkWritten, DeliverParts, DatesKept
  <2> QED BY <1>1, <2>1, <2>2 DEF SameLine
<1>2. ASSUME UNCHANGED diskVars, fol'[i].turn = currentTurnID, fol'[i].line \in Script
      PROVE  by'[fol'[i].line] <= fol'[i].turn
  BY <1>2, DeliverParts DEF Dated, diskVars
<1>3. CASE Stands(i)
  BY <1>1, <1>3 DEF Stands
<1>4. CASE FollowStep(i) \/ FollowError(i)
  <2>1. TypeInv' /\ (fol'[i].line \in Script)
    <3>1. TypeInv'
      BY DeliverParts, TypeStep
    <3> QED BY <3>1 DEF TypeInv, FolShape, WellFormed
  <2>2. CASE FollowProcess(i)
    BY <1>1, <2>2, DeliverParts, ProcessFields
  <2>3. CASE FollowRead(i)
    BY <1>2, <2>1, <2>3, DeliverParts, ReadFields, HandOverFields
  <2>4. CASE FollowEOF(i)
    BY <1>2, <2>1, <2>4, DeliverParts, EOFFields, HandOverFields
  <2> QED BY <1>4, <2>2, <2>3, <2>4, DeliverParts, AwaitFields, OpenFields,
             AdvanceFields, ErrorFields DEF FollowStep
<1> QED BY <1>3, <1>4, DeliverParts, StandOrMove DEF Begins

\* A follower stays within its file.
LEMMA WithinStep == ASSUME DeliverInv, [Next]_vars PROVE Within'
<1> SUFFICES ASSUME NEW i \in Follows, fol'[i].file # 0
             PROVE  fol'[i].pos <= Len(file'[fol'[i].file])
  BY DEF Within
<1>0. TypeInv /\ ReadInv'
  BY DeliverParts, ReadStep
<1>1. ASSUME fol'[i].file = fol[i].file, fol'[i].pos = fol[i].pos
      PROVE  fol'[i].pos <= Len(file'[fol'[i].file])
  <2>1. /\ fol[i].file \in Files /\ fol[i].file <= inodes /\ fol[i].pos \in Nat
        /\ Len(file[fol[i].file]) \in Nat /\ fol[i].pos <= Len(file[fol[i].file])
    BY <1>1, OpenedPlace
  <2>2. Len(file[fol[i].file]) <= Len(file'[fol[i].file]) /\ Len(file'[fol[i].file]) \in Nat
    BY <2>1, DeliverParts, FilesGrow
  <2> QED BY <1>1, <2>1, <2>2
<1>2. CASE Busy(fol'[i])
  BY <1>0, <1>2 DEF ReadInv, Reading, ReadsWell
<1>3. CASE FollowOpen(i)
  <2>1. fol'[i].pos = 0
    BY <1>0, <1>3, OpenFields
  <2>2. TypeInv' /\ fol'[i] \in Follower /\ file' \in [Files -> Seq(Script)]
    BY <1>0, TypeStep DEF TypeInv, TypeOK, TypeFol, TypeDisk
  <2>3. Len(file'[fol'[i].file]) \in Nat
    BY <2>2, FollowerFields, Constants
  <2> QED BY <2>1, <2>3
<1>4. CASE FollowAdvance(i)
  <2>1. /\ Busy(fol[i]) /\ fol[i].pc = "advance" /\ file' = file
        /\ fol'[i].file = fol[i].file
        /\ fol'[i].pos = IF Piece(fol[i]) THEN fol[i].pos ELSE fol[i].pos + 1
    BY <1>0, <1>4, AdvanceFields DEF Busy, diskVars
  <2>2. /\ Piece(fol[i]) \/ fol[i].pos < Len(file[fol[i].file])
        /\ fol[i].pos <= Len(file[fol[i].file])
        /\ fol[i].pos \in Nat /\ Len(file[fol[i].file]) \in Nat
    BY <2>1, DeliverParts, BusyPlace DEF ReadInv, Reading, ReadsWell
  <2> QED BY <2>1, <2>2
<1>5. CASE \/ awaitTranscriptFile(i) \/ FollowCancelled(i) \/ FollowError(i) \/ FollowEOF(i)
  BY <1>0, <1>1, <1>2, <1>5, AwaitFields, ErrorFields, EOFFields, HandOverFields
     DEF SamePlace
<1>6. CASE FollowRead(i) \/ FollowProcess(i)
  BY <1>0, <1>2, <1>6, ReadFields, HandOverFields, ProcessFields DEF Busy
<1> QED BY <1>0, <1>1, <1>3, <1>4, <1>5, <1>6, StandOrMove DEF Stands, Begins, FollowStep

\* Who touches the accumulator.
LEMMA AccMoves ==
  ASSUME TypeInv, [Next]_vars
  PROVE  \/ UNCHANGED accVars
         \/ \E i \in Follows : FollowProcess(i)
         \/ \E t \in Turns : DrainInternalIssues(t)
<1>1. ASSUME NEW t \in Turns, TurnStep(t) PROVE UNCHANGED accVars
  BY <1>1 DEF TurnStep, Submit, ensureTailerFollowing, Complete, Fail
<1>2. ASSUME NEW t \in Turns, DrainStep(t) PROVE UNCHANGED accVars \/ DrainInternalIssues(t)
  BY <1>2 DEF DrainStep, DrainStat, CaughtUpTo, DrainTimeout
<1>3. ASSUME NEW i \in Follows, FollowStep(i) \/ FollowError(i)
      PROVE  UNCHANGED accVars \/ FollowProcess(i)
  BY <1>3, AwaitFields, OpenFields, ReadFields, EOFFields, AdvanceFields, ErrorFields
     DEF FollowStep
<1> QED BY <1>1, <1>2, <1>3, Actors, ClaudeApart

\* A drain that is done stays done.
LEMMA DoneStays ==
  ASSUME TypeInv, TurnsInOrder, [Next]_vars, NEW t \in Turns, drain[t].pc = "done"
  PROVE  drain'[t] = drain[t]
<1>1. ASSUME NEW u \in Turns, TurnEnds(u) PROVE drain'[t] = drain[t]
  <2>1. drain[u].pc = "off"
    BY <1>1, TurnTypes DEF TurnEnds, TurnsInOrder
  <2> QED BY <1>1, <2>1, TurnTypes DEF TurnEnds
<1>2. ASSUME NEW u \in Turns, DrainStep(u) PROVE drain'[t] = drain[t]
  BY <1>2, DrainMoves
<1> QED BY <1>1, <1>2, TurnMoves

\* What processLine does to the accumulator.
LEMMA Accumulates ==
  ASSUME NEW i \in Follows, FollowProcess(i)
  PROVE  \/ UNCHANGED accVars
            /\ ~(fol[i].bytes = 2 /\ fol[i].line.kind \in {"report", "huge"})
         \/ /\ fol[i].bytes = 2 /\ fol[i].line.kind \in {"report", "huge"}
            /\ iiTurnID' = fol[i].turn /\ fol[i].line \in issues'
            /\ issues' \subseteq issues \cup {fol[i].line}
            /\ fol[i].turn = iiTurnID => issues' = issues \cup {fol[i].line}
            /\ fol[i].turn # iiTurnID => issues' = {fol[i].line}
BY DEF FollowProcess, processLine, accumulateInternalIssue

\* What is booked stays booked until it is drained.
LEMMA BookedGrows ==
  ASSUME DeliverInv, [Next]_vars, ~overlap, NEW l \in Booked, l \notin todo
  PROVE  l \in Booked'
<1>1. /\ l \in Script /\ by'[l] = by[l] /\ by[l] <= currentTurnID
      /\ by[l] \in Nat /\ currentTurnID \in Nat
  <2>1. l \in Script
    BY DEF Booked
  <2>2. by[l] \in 0..MaxTurns /\ currentTurnID \in 0..MaxTurns /\ MaxTurns \in Nat
    BY <2>1, DeliverParts, TurnTypes DEF TypeInv, TypeOK, TypeDisk
  <2> QED BY <2>1, <2>2, DeliverParts, DatesKept DEF Dated
<1> SUFFICES ASSUME NEW t \in Turns, l.kind = "report", by[l] = t,
                    t = currentTurnID', drain'[t].pc # "done"
             PROVE  iiTurnID' = currentTurnID' /\ l \in issues'
  BY <1>1 DEF Booked
<1>2. currentTurnID' = currentTurnID
  <2>1. ASSUME NEW u \in Turns, currentTurnID' = u, u = currentTurnID + 1 PROVE FALSE
    BY <1>1, <2>1
  <2> QED BY <2>1, DeliverParts, TurnsStep
<1>3. drain[t].pc # "done"
  BY DeliverParts, DoneStays
<1>4. iiTurnID = currentTurnID /\ l \in issues
  BY <1>2, <1>3 DEF Booked
<1>5. ASSUME NEW i \in Follows, FollowProcess(i)
      PROVE  iiTurnID' = currentTurnID /\ l \in issues'
  <2>1. fol[i].turn = currentTurnID
    BY <1>4, <1>5, DeliverParts, ProcessFields DEF InProcess
  <2> QED BY <1>4, <1>5, <2>1, Accumulates DEF accVars
<1>6. ASSUME NEW u \in Turns, DrainInternalIssues(u)
      PROVE  iiTurnID' = currentTurnID /\ l \in issues'
  <2>1. drain \in [Turns -> [pc : {"off", "stat", "wait", "drain", "done"},
                       target : Nat, file : 0..MaxFiles,
                       caught : 0..MaxFiles, got : SUBSET Script]]
    BY DeliverParts DEF TypeInv, TypeOK, TypeDrain
  <2>2. u # t
    BY <1>6, <2>1 DEF DrainInternalIssues
  <2> QED BY <1>2, <1>4, <1>6, <2>2 DEF DrainInternalIssues, accVars
<1> QED BY <1>2, <1>4, <1>5, <1>6, DeliverParts, AccMoves DEF accVars

\* A report that was processed is booked on the turn it was captured with,
\* which is its own if that turn is the current one.
LEMMA LineBooked ==
  ASSUME DeliverInv, [Next]_vars, NEW i \in Follows, FollowProcess(i)
  PROVE  fol[i].line \in Booked'
<1> DEFINE l == fol[i].line
<1>1. /\ fol[i].pc = "process" /\ UNCHANGED <<diskVars, mgrVars, drain>>
  BY DeliverParts, ProcessFields
<1>2. l \in Script /\ by'[l] = by[l] /\ currentTurnID' = currentTurnID
  BY <1>1, WorkWritten DEF diskVars, mgrVars, currentTurnID
<1>3. /\ by[l] <= fol[i].turn /\ fol[i].turn <= currentTurnID
      /\ fol[i].turn \in Nat /\ by[l] \in Nat /\ currentTurnID \in Nat
      /\ fol[i].bytes \in {1, 2}
  <2>1. /\ fol[i] \in Follower /\ by \in [Script -> 0..MaxTurns]
        /\ currentTurnID \in 0..MaxTurns
    BY DeliverParts, TurnTypes DEF TypeInv, TypeOK, TypeFol, TypeDisk
  <2>2. by[l] \in 0..MaxTurns /\ fol[i].turn \in 0..MaxTurns /\ MaxTurns \in Nat
    BY <1>2, <2>1, FollowerFields, Constants
  <2> QED BY <1>1, <2>1, <2>2, FollowerFields, DeliverParts DEF LineDated, Dated
<1>4. fol[i].bytes = 1 => l.kind = "huge"
  BY <1>1, DeliverParts DEF ReadInv, Reading, ReadsWell, Busy
<1> HIDE DEF l
<1>5. ASSUME l.kind = "report", by[l] = currentTurnID
      PROVE  iiTurnID' = currentTurnID /\ l \in issues'
  <2>1. fol[i].turn = currentTurnID
    BY <1>3, <1>5
  <2>2. fol[i].bytes = 2
    BY <1>3, <1>4, <1>5
  <2> QED BY <1>5, <2>1, <2>2, Accumulates DEF l
<1>6. l \in Booked'
  BY <1>2, <1>5 DEF Booked
<1> QED BY <1>6 DEF l

\* The last follower's lines stay booked, and the next one is booked before it
\* counts as read.
LEMMA ReadBookedStep == ASSUME DeliverInv, [Next]_vars PROVE ReadBooked'
<1> SUFFICES ASSUME ~overlap', NEW i \in Follows, LastOpened(i)'
             PROVE  /\ \A k \in 1..fol'[i].pos : file'[fol'[i].file][k] \in Booked'
                    /\ fol'[i].pc = "advance" => fol'[i].line \in Booked'
  BY DEF ReadBooked
<1>0. TypeInv /\ ~overlap
  BY DeliverParts, ReaderLastStep
<1>1. CASE FollowOpen(i)
  BY <1>0, <1>1, OpenFields
<1>2. CASE ~FollowOpen(i)
  <2>1. /\ LastOpened(i) /\ fol[i].file # 0
        /\ \A k \in 1..fol[i].pos : file[fol[i].file][k] \in Booked
        /\ fol[i].pc = "advance" => fol[i].line \in Booked
    BY <1>0, <1>2, DeliverParts, LastKept DEF ReadBooked, LastOpened
  <2>2. /\ fol[i].file \in Files /\ fol[i].file <= inodes /\ fol[i].pos \in Nat
        /\ Len(file[fol[i].file]) \in Nat /\ fol[i].pos <= Len(file[fol[i].file])
        /\ DOMAIN file[fol[i].file] = 1..Len(file[fol[i].file])
    BY <2>1, OpenedPlace
  <2>3. \A k \in 1..fol[i].pos : file'[fol[i].file][k] \in Booked'
    <3>1. TAKE k \in 1..fol[i].pos
    <3>2. k \in DOMAIN file[fol[i].file]
      BY <2>2
    <3>3. /\ file[fol[i].file][k] \notin todo
          /\ file'[fol[i].file][k] = file[fol[i].file][k]
      BY <2>2, <3>2, LineKept
    <3>4. file[fol[i].file][k] \in Booked
      BY <2>1
    <3>5. file[fol[i].file][k] \in Booked'
      BY <1>0, <3>3, <3>4, BookedGrows
    <3> QED BY <3>3, <3>5
  <2>4. ASSUME fol[i].pc = "advance" PROVE fol[i].line \in Booked'
    BY <1>0, <2>1, <2>4, WorkWritten, BookedGrows
  <2>5. CASE Stands(i)
    BY <2>3, <2>4, <2>5 DEF Stands, SameLine
  <2>6. CASE Begins(i)
    BY <2>6 DEF Begins, LastOpened
  <2>7. CASE FollowProcess(i)
    BY <1>0, <2>3, <2>7, ProcessFields, LineBooked DEF SamePlace, SameLine
  <2>8. CASE FollowAdvance(i)
    <3>1. /\ Busy(fol[i]) /\ fol[i].pc = "advance" /\ file' = file
          /\ fol'[i].file = fol[i].file /\ fol'[i].pc # "advance"
          /\ fol'[i].pos = IF Piece(fol[i]) THEN fol[i].pos ELSE fol[i].pos + 1
      BY <1>0, <2>8, AdvanceFields DEF Busy, diskVars
    <3>2. ~Piece(fol[i]) => fol[i].line = file[fol[i].file][fol[i].pos + 1]
      BY <3>1, DeliverParts DEF ReadInv, Reading, ReadsWell
    <3>3. fol[i].line \in Booked'
      BY <2>4, <3>1
    <3>4. CASE Piece(fol[i])
      BY <2>3, <3>1, <3>4
    <3>5. CASE ~Piece(fol[i])
      <4>1. \A k \in 1..fol'[i].pos : k \in 1..fol[i].pos \/ k = fol[i].pos + 1
        BY <2>2, <3>1, <3>5
      <4> QED BY <2>3, <3>1, <3>2, <3>3, <3>5, <4>1
    <3> QED BY <3>4, <3>5
  <2>9. CASE \/ awaitTranscriptFile(i) \/ FollowCancelled(i) \/ FollowRead(i)
             \/ FollowEOF(i) \/ FollowError(i)
    <3>1. fol'[i].file = fol[i].file /\ fol'[i].pos = fol[i].pos /\ fol'[i].pc # "advance"
      BY <1>0, <2>9, AwaitFields, ReadFields, EOFFields, HandOverFields, ErrorFields
         DEF SamePlace
    <3> QED BY <2>3, <3>1
  <2> QED BY <1>0, <1>2, <2>5, <2>6, <2>7, <2>8, <2>9, StandOrMove DEF FollowStep
<1> QED BY <1>1, <1>2

\* A line captured for an earlier turn is processed before one of the current
\* turn is.
LEMMA InProcessStep == ASSUME DeliverInv, [Next]_vars PROVE InProcess'
<1> SUFFICES ASSUME ~overlap', iiTurnID' = currentTurnID', NEW i \in Follows,
                    fol'[i].pc = "process"
             PROVE  fol'[i].turn = currentTurnID'
  BY DEF InProcess
<1>0. TypeInv /\ ~overlap
  BY DeliverParts, ReaderLastStep
<1>1. /\ iiTurnID \in Nat /\ currentTurnID \in Nat /\ iiTurnID <= currentTurnID
  BY <1>0, DeliverParts, TurnTypes, Constants DEF TypeInv, TypeOK, TypeAcc, Dated
<1>2. currentTurnID' = currentTurnID
  <2>1. ASSUME NEW t \in Turns, Submit(t), currentTurnID' = t, t = currentTurnID + 1
        PROVE  FALSE
    <3>1. iiTurnID' = iiTurnID
      BY <2>1 DEF Submit, accVars
    <3> QED BY <1>1, <2>1, <3>1
  <2> QED BY <2>1, DeliverParts, TurnsStep
<1>3. CASE FollowRead(i) \/ FollowEOF(i)
  BY <1>0, <1>2, <1>3, ReadFields, EOFFields, HandOverFields
<1>4. CASE Stands(i)
  <2>1. fol[i].pc = "process" /\ fol'[i].turn = fol[i].turn
    BY <1>4 DEF Stands, SameLine
  <2>2. CASE iiTurnID = currentTurnID
    BY <1>0, <1>2, <2>1, <2>2, DeliverParts DEF InProcess
  <2>3. ASSUME NEW j \in Follows, FollowProcess(j) PROVE FALSE
    <3>1. fol[j].pc = "process" /\ fol'[j].pc = "advance"
      BY <1>0, <2>3, ProcessFields
    <3>2. i = j
      BY <1>0, <2>1, <3>1, DeliverParts DEF ReadInv, OneReader, Busy
    <3> QED BY <3>1, <3>2
  <2>4. ASSUME NEW t \in Turns, DrainInternalIssues(t), iiTurnID # currentTurnID
        PROVE  FALSE
    <3>1. currentTurnID # 0
      <4>1. t <= lastCompleted
        BY <1>0, <2>4, DeliverParts, TurnTypes DEF DrainInternalIssues, TurnsInOrder
      <4> QED BY <1>0, <4>1, TurnTypes DEF currentTurnID
    <3>2. iiTurnID' \in {iiTurnID, 0}
      BY <2>4 DEF DrainInternalIssues, accVars
    <3> QED BY <1>2, <2>4, <3>1, <3>2
  <2> QED BY <1>0, <1>2, <2>2, <2>3, <2>4, AccMoves DEF accVars
<1>5. CASE \/ awaitTranscriptFile(i) \/ FollowCancelled(i) \/ FollowOpen(i)
           \/ FollowProcess(i) \/ FollowAdvance(i) \/ FollowError(i)
  BY <1>0, <1>5, AwaitFields, OpenFields, ProcessFields, AdvanceFields, ErrorFields
<1> QED BY <1>0, <1>3, <1>4, <1>5, StandOrMove DEF Begins, FollowStep

----------------------------------------------------------------------------
(* The drain *)

\* Inodes are not taken back.
LEMMA InodesGrow ==
  ASSUME TypeInv, [Next]_vars
  PROVE  inodes \in Nat /\ inodes' \in Nat /\ inodes <= inodes'
<1>1. inodes \in Nat /\ inodes' \in Nat
  BY TypeStep, Constants DEF TypeInv, TypeOK, TypeDisk
<1>2. CASE ClaudeWrites
  BY <1>1, <1>2 DEF ClaudeWrites, Fresh
<1>3. CASE ClaudeRestarts
  BY <1>1, <1>3 DEF ClaudeRestarts, Fresh
<1>4. CASE UNCHANGED inodes
  BY <1>1, <1>4
<1>5. CASE ClaudeEndsLine
  BY <1>1, <1>5 DEF ClaudeEndsLine
<1>6. ASSUME NEW t \in Turns, TurnStep(t) \/ DrainStep(t) PROVE inodes' = inodes
  BY <1>6, ManagerApart DEF diskVars
<1>7. ASSUME NEW i \in Follows, FollowStep(i) \/ FollowError(i) PROVE inodes' = inodes
  BY <1>7, FollowersApart DEF diskVars
<1> QED BY <1>2, <1>3, <1>4, <1>5, <1>6, <1>7, Actors DEF diskVars

\* What a step does to the drain of one turn.
Waited(t) ==
  /\ drain[t].pc = "wait" /\ drain'[t].pc = "drain"
  /\ drain'[t].file = drain[t].file /\ drain'[t].target = drain[t].target
  /\ UNCHANGED <<diskVars, mgrVars>>

LEMMA DrainOf ==
  ASSUME TypeInv, TurnsInOrder, [Next]_vars, NEW t \in Turns
  PROVE  \/ drain'[t] = drain[t]
         \/ /\ drain[t].pc = "off" /\ drain'[t].pc = "stat"
            /\ drain'[t].file = drain[t].file /\ drain'[t].caught = drain[t].caught
         \/ /\ drain[t].pc = "stat" /\ drain'[t].pc = "wait" /\ UNCHANGED <<diskVars, mgrVars>>
            /\ transcriptPath # 0 /\ at[transcriptPath] # 0
            /\ drain'[t].file = at[transcriptPath]
            /\ drain'[t].target = Size(at[transcriptPath])
            /\ drain'[t].caught = drain[t].caught
            /\ ~disturbed' => transcriptPath = writes
         \/ /\ drain[t].pc = "stat" /\ drain'[t].pc = "drain" /\ disturbed'
            /\ drain'[t].file = drain[t].file /\ drain'[t].caught = drain[t].caught
         \/ /\ Waited(t) /\ drain'[t].caught = ReaderFile /\ readPos >= drain[t].target
            /\ UNCHANGED <<fol, seen>> /\ (~disturbed' => ReaderFile = drain[t].file)
         \/ Waited(t) /\ drain'[t].caught = drain[t].caught /\ disturbed'
         \/ /\ drain[t].pc = "drain" /\ drain'[t].pc = "done"
            /\ drain'[t].file = 0 /\ drain'[t].caught = 0
<1>1. drain \in [Turns -> [pc : {"off", "stat", "wait", "drain", "done"},
                       target : Nat, file : 0..MaxFiles,
                       caught : 0..MaxFiles, got : SUBSET Script]]
  BY DEF TypeInv, TypeOK, TypeDrain
<1>2. ASSUME NEW u \in Turns, TurnEnds(u)
      PROVE  \/ drain'[t] = drain[t]
             \/ /\ drain[t].pc = "off" /\ drain'[t].pc = "stat"
                /\ drain'[t].file = drain[t].file /\ drain'[t].caught = drain[t].caught
  <2>1. drain[u].pc = "off"
    BY <1>2, TurnTypes DEF TurnEnds, TurnsInOrder
  <2> QED BY <1>1, <1>2, <2>1 DEF TurnEnds
<1>3. ASSUME NEW u \in Turns, DrainStep(u), u # t PROVE drain'[t] = drain[t]
  BY <1>3, DrainMoves
<1>4. CASE DrainStat(t)
  <2>1. drain[t].pc = "stat" /\ UNCHANGED <<diskVars, mgrVars>>
    BY <1>4 DEF DrainStat, FinStay
  <2>2. CASE transcriptPath # 0 /\ at[transcriptPath] # 0
    <3>1. drain' = [drain EXCEPT ![t].pc = "wait", ![t].target = Size(at[transcriptPath]),
                                 ![t].file = at[transcriptPath]]
      BY <1>4, <2>2 DEF DrainStat
    <3>2. ~disturbed' => transcriptPath = writes
      BY <1>4, <2>2 DEF DrainStat
    <3>3. /\ drain'[t].pc = "wait" /\ drain'[t].file = at[transcriptPath]
          /\ drain'[t].target = Size(at[transcriptPath])
          /\ drain'[t].caught = drain[t].caught
      BY <1>1, <3>1
    <3> QED BY <2>1, <2>2, <3>2, <3>3
  <2>3. CASE ~(transcriptPath # 0 /\ at[transcriptPath] # 0)
    <3>1. drain' = [drain EXCEPT ![t].pc = "drain"]
      BY <1>4, <2>3 DEF DrainStat
    <3>2. disturbed'
      BY <1>4, <2>3 DEF DrainStat
    <3>3. /\ drain'[t].pc = "drain" /\ drain'[t].file = drain[t].file
          /\ drain'[t].caught = drain[t].caught
      BY <1>1, <3>1
    <3> QED BY <2>1, <3>2, <3>3
  <2> QED BY <2>2, <2>3
<1>5. CASE CaughtUpTo(t)
  BY <1>1, <1>5 DEF CaughtUpTo, FinStay, Waited
<1>6. CASE DrainTimeout(t)
  BY <1>1, <1>6 DEF DrainTimeout, FinStay, Waited
<1>7. CASE DrainInternalIssues(t)
  BY <1>1, <1>7 DEF DrainInternalIssues
<1>8. CASE DrainStep(t)
  BY <1>4, <1>5, <1>6, <1>7, <1>8 DEF DrainStep
<1> QED BY <1>2, <1>3, <1>8, TurnMoves

\* A drain's target stays within its file, which only grows.
LEMMA DrainShapeStep == ASSUME DeliverInv, [Next]_vars PROVE DrainShape'
<1>0. TypeInv /\ TypeInv' /\ TurnsInOrder
  BY DeliverParts, TypeStep
<1> SUFFICES ASSUME NEW t \in Turns
             PROVE  /\ drain'[t].pc \in {"off", "stat", "done"} => drain'[t].file = 0
                    /\ drain'[t].pc # "drain" => drain'[t].caught = 0
                    /\ drain'[t].pc = "wait" => drain'[t].file # 0
                    /\ drain'[t].file # 0 =>
                         /\ drain'[t].file <= inodes'
                         /\ drain'[t].target <= 2 * Len(file'[drain'[t].file]) + 1
  BY DEF DrainShape
<1>1. /\ drain[t].pc \in {"off", "stat", "done"} => drain[t].file = 0
      /\ drain[t].pc # "drain" => drain[t].caught = 0
      /\ drain[t].pc = "wait" => drain[t].file # 0
  BY DeliverParts DEF DrainShape
<1>2. ASSUME drain'[t].file = drain[t].file, drain'[t].target = drain[t].target,
             drain[t].file # 0
      PROVE  /\ drain'[t].file <= inodes'
             /\ drain'[t].target <= 2 * Len(file'[drain'[t].file]) + 1
  <2> DEFINE f == drain[t].file
             m == drain[t].target
             n == Len(file[f])
             z == Len(file'[f])
  <2>1. f \in 0..MaxFiles /\ m \in Nat
    BY <1>0 DEF TypeInv, TypeOK, TypeDrain
  <2>2. f \in Files /\ f \in Nat
    BY <1>2, <2>1, Constants
  <2>3. f <= inodes /\ m <= 2 * n + 1
    BY <1>2, DeliverParts DEF DrainShape
  <2>4. n \in Nat /\ z \in Nat /\ n <= z
    BY <2>2, <2>3, DeliverParts, FilesGrow
  <2>5. inodes \in Nat /\ inodes' \in Nat /\ inodes <= inodes'
    BY <1>0, InodesGrow
  <2> HIDE DEF f, m, n, z
  <2>6. f <= inodes' /\ m <= 2 * z + 1
    BY <2>1, <2>2, <2>3, <2>4, <2>5
  <2> QED BY <1>2, <2>6 DEF f, m, z
<1>3. ASSUME UNCHANGED diskVars, transcriptPath # 0, at[transcriptPath] # 0,
             drain'[t].file = at[transcriptPath],
             drain'[t].target = Size(at[transcriptPath])
      PROVE  /\ drain'[t].file # 0 /\ drain'[t].file <= inodes'
             /\ drain'[t].target <= 2 * Len(file'[drain'[t].file]) + 1
  <2> DEFINE f == at[transcriptPath]
             n == Len(file[f])
  <2>1. transcriptPath \in Paths
    BY <1>0, <1>3 DEF TypeInv, TypeOK, TypeMgr, Paths
  <2>2. f \in Files /\ f <= inodes
    BY <1>0, <1>3, <2>1, Constants, DeliverParts DEF TypeInv, TypeOK, TypeDisk, Created
  <2>3. n \in Nat
    BY <1>0, <2>2 DEF TypeInv, TypeOK, TypeDisk
  <2>4. Size(f) <= 2 * n + 1
    <3>1. Size(f) = 2 * n + IF torn[f] = NoLine THEN 0 ELSE 1
      BY DEF Size
    <3> HIDE DEF n
    <3> QED BY <2>3, <3>1
  <2> QED BY <1>3, <2>2, <2>4 DEF diskVars
<1> QED BY <1>0, <1>1, <1>2, <1>3, DrainOf DEF Waited

\* The reader whose position the finaliser compares is the last one that opened.
LEMMA ReaderIs ==
  ASSUME TypeInv, ReaderFile # 0
  PROVE  \E i \in Follows : LastOpened(i) /\ fol[i].file = ReaderFile
<1> DEFINE open == {i \in Follows : fol[i].file # 0}
           last == CHOOSE i \in open : \A j \in open : j <= i
<1>1. open # {}
  BY DEF ReaderFile
<1>2. open \in SUBSET (0..MaxFollows) /\ MaxFollows \in Nat
  BY Constants DEF Follows
<1>3. \E i \in open : \A j \in open : j <= i
  BY <1>1, <1>2, Largest
<1>4. last \in open /\ \A j \in open : j <= last
  BY <1>3
<1>5. ReaderFile = fol[last].file
  BY <1>1 DEF ReaderFile
<1> HIDE DEF last
<1> QED BY <1>4, <1>5 DEF LastOpened

\* A drain that has caught up finds what its file had booked, and it stays so
\* until it is drained or the next turn begins.
LEMMA CaughtBookedStep == ASSUME DeliverInv, [Next]_vars PROVE CaughtBooked'
<1>0. TypeInv /\ TypeInv' /\ TurnsInOrder
  BY DeliverParts, TypeStep
<1> SUFFICES ASSUME ~overlap', NEW t \in Turns, drain'[t].pc = "drain",
                    drain'[t].caught # 0, drain'[t].caught = drain'[t].file,
                    NEW k \in DOMAIN file'[drain'[t].file], 2 * k <= drain'[t].target
             PROVE  file'[drain'[t].file][k] \in Booked'
  BY DEF CaughtBooked
<1>1. ~overlap
  BY DeliverParts, ReaderLastStep
<1> DEFINE f == drain'[t].file
           m == drain'[t].target
<1>2. f \in Files /\ m \in Nat /\ k \in Nat /\ k >= 1
  <2>1. f \in 0..MaxFiles /\ m \in Nat
    BY <1>0 DEF TypeInv, TypeOK, TypeDrain
  <2>2. f \in Files
    <3>1. f # 0
      OBVIOUS
    <3> HIDE DEF f
    <3> QED BY <2>1, <3>1, Constants
  <2>3. file' \in [Files -> Seq(Script)]
    BY <1>0 DEF TypeInv, TypeOK, TypeDisk
  <2>4. k \in 1..Len(file'[f])
    BY <2>2, <2>3
  <2> QED BY <2>1, <2>2, <2>3, <2>4
<1>3. ASSUME drain[t].file = f, drain[t].target = m
      PROVE  f <= inodes /\ k \in DOMAIN file[f]
  <2> DEFINE n == Len(file[f])
  <2>1. f <= inodes /\ m <= 2 * n + 1
    BY <1>2, <1>3, DeliverParts DEF DrainShape
  <2>2. n \in Nat /\ DOMAIN file[f] = 1..n
    BY <1>0, <1>2 DEF TypeInv, TypeOK, TypeDisk
  <2>3. 2 * k <= m
    OBVIOUS
  <2> HIDE DEF n, f, m
  <2>4. k <= n
    BY <1>2, <2>1, <2>2, <2>3
  <2> QED BY <1>2, <2>1, <2>2, <2>4
<1>4. ASSUME drain[t].file = f, drain[t].target = m, file[f][k] \in Booked
      PROVE  file'[f][k] \in Booked'
  <2>1. f <= inodes /\ k \in DOMAIN file[f]
    BY <1>3, <1>4
  <2>2. file[f][k] \notin todo /\ file'[f][k] = file[f][k]
    BY <1>2, <2>1, LineKept
  <2>3. file[f][k] \in Booked'
    BY <1>1, <1>4, <2>2, BookedGrows
  <2> QED BY <2>2, <2>3
<1>5. CASE drain'[t] = drain[t]
  <2>1. k \in DOMAIN file[f]
    BY <1>3, <1>5
  <2>2. file[f][k] \in Booked
    BY <1>1, <1>5, <2>1, DeliverParts DEF CaughtBooked
  <2> QED BY <1>4, <1>5, <2>2
<1>6. CASE /\ Waited(t) /\ drain'[t].caught = ReaderFile /\ readPos >= drain[t].target
  <2>1. PICK i \in Follows : LastOpened(i) /\ fol[i].file = f
    BY <1>0, <1>2, <1>6, ReaderIs
  <2>2. fol[i].pos \in Nat /\ readPos \in Nat /\ readPos <= 2 * fol[i].pos + 1
    <3>1. fol[i] \in Follower /\ readPos \in Nat
      BY <1>0 DEF TypeInv, TypeOK, TypeFol
    <3> QED BY <1>1, <2>1, <3>1, FollowerFields, DeliverParts DEF Position
  <2>3. 2 * k <= m /\ m <= readPos
    BY <1>6 DEF Waited
  <2>4. k \in 1..fol[i].pos
    <3> DEFINE p == fol[i].pos
    <3>1. p \in Nat /\ readPos \in Nat /\ readPos <= 2 * p + 1
      BY <2>2
    <3>2. k \in Nat /\ m \in Nat /\ 2 * k <= m /\ m <= readPos
      BY <1>2, <1>6, <2>3
    <3> HIDE DEF p, m
    <3>3. k <= p
      BY <3>1, <3>2
    <3> QED BY <1>2, <3>1, <3>3 DEF p
  <2>5. file[f][k] \in Booked
    BY <1>1, <2>1, <2>4, DeliverParts DEF ReadBooked
  <2> QED BY <1>4, <1>6, <2>5 DEF Waited
<1>7. CASE drain[t].pc # "drain" /\ drain'[t].caught = drain[t].caught
  BY <1>7, DeliverParts DEF DrainShape
<1> QED BY <1>0, <1>5, <1>6, <1>7, DrainOf DEF Waited

\* Every step keeps the invariant of the drain.
LEMMA DeliverStep == ASSUME DeliverInv, [Next]_vars PROVE DeliverInv'
<1>1. ReadInv' /\ TurnsInOrder' /\ Dated' /\ Queued' /\ ReaderLast'
  BY DeliverParts, ReadStep, TurnsStep, DatedStep, QueuedStep, ReaderLastStep
<1>2. WorksOn' /\ Position'
  BY DeliverParts, WorksStep, PositionStep
<1>3. LineDated' /\ Within' /\ ReadBooked' /\ InProcess'
  BY LineDatedStep, WithinStep, ReadBookedStep, InProcessStep
<1>4. DrainShape' /\ CaughtBooked'
  BY DrainShapeStep, CaughtBookedStep
<1> QED BY <1>1, <1>2, <1>3, <1>4 DEF DeliverInv

\* DeliverInv holds throughout.
LEMMA DeliverInvariance == Spec => []DeliverInv
<1>1. Init => DeliverInv
  BY DeliverInit
<1>2. DeliverInv /\ [Next]_vars => DeliverInv'
  BY DeliverStep
<1> QED BY <1>1, <1>2, PTL DEF Spec

\* CaughtUpDelivers: a finaliser that waited until readPos reached the size its
\* stat saw, of the file the last opened follower reads, drains every report the
\* turn had on disk by then, however the file was replaced, misread or restarted
\* on before, as long as no cancelled follower was still busy when another one
\* opened its file and no turn was submitted on Ready ahead of the drain.
THEOREM CaughtUpHasDelivered == Spec => CaughtUpDelivers
<1> DEFINE A == \A t \in Turns :
       LET d == drain[t] IN
       /\ d.pc = "drain" /\ drain'[t].pc = "done"
       /\ d.caught # 0 /\ d.caught = d.file /\ ~overlap
       /\ current = 0 /\ lastCompleted = t
       => \A k \in DOMAIN file[d.file] :
            LET l == file[d.file][k] IN
            2 * k <= d.target /\ l.kind = "report" /\ by[l] = t => l \in drain'[t].got
<1>1. DeliverInv /\ [Next]_vars => [A]_vars
  <2> SUFFICES ASSUME DeliverInv, [Next]_vars PROVE A
    OBVIOUS
  <2> SUFFICES ASSUME NEW t \in Turns, drain[t].pc = "drain", drain'[t].pc = "done",
                      drain[t].caught # 0, drain[t].caught = drain[t].file, ~overlap,
                      current = 0, lastCompleted = t,
                      NEW k \in DOMAIN file[drain[t].file],
                      2 * k <= drain[t].target,
                      file[drain[t].file][k].kind = "report",
                      by[file[drain[t].file][k]] = t
               PROVE  file[drain[t].file][k] \in drain'[t].got
    OBVIOUS
  <2> DEFINE l == file[drain[t].file][k]
  <2> t = currentTurnID
    BY DEF currentTurnID
  <2>1. TypeInv /\ TurnsInOrder
    BY DeliverParts
  <2>2. drain \in [Turns -> [pc : {"off", "stat", "wait", "drain", "done"},
                       target : Nat, file : 0..MaxFiles,
                       caught : 0..MaxFiles, got : SUBSET Script]]
    BY <2>1 DEF TypeInv, TypeOK, TypeDrain
  <2>3. l \in Booked /\ l \in Script
    BY DeliverParts DEF CaughtBooked, Booked
  <2>4. iiTurnID = t /\ l \in issues
    BY <2>3 DEF Booked
  <2>5. DrainInternalIssues(t)
    <3>1. ASSUME NEW u \in Turns, TurnEnds(u) PROVE FALSE
      <4>1. drain[u].pc = "off"
        BY <2>1, <3>1, TurnTypes DEF TurnEnds, TurnsInOrder
      <4> QED BY <2>2, <3>1, <4>1 DEF TurnEnds
    <3>2. ASSUME NEW u \in Turns, DrainStep(u) PROVE DrainInternalIssues(t)
      <4>1. u = t
        BY <2>1, <3>2, DrainMoves
      <4> QED BY <3>2, <4>1 DEF DrainStep, DrainStat, CaughtUpTo, DrainTimeout
    <3> QED BY <3>1, <3>2, TurnMoves
  <2> HIDE DEF l
  <2>6. drain'[t].got = issues
    BY <2>2, <2>4, <2>5 DEF DrainInternalIssues
  <2> QED BY <2>4, <2>6 DEF l
<1>2. []DeliverInv /\ [][Next]_vars => [][A]_vars
  BY <1>1, PTL
<1>3. Spec => [][A]_vars
  BY <1>2, DeliverInvariance, PTL DEF Spec
<1> QED BY <1>3 DEF CaughtUpDelivers

----------------------------------------------------------------------------
(* Reports go out with their own turn *)

\* The follower that is not cancelled reads the path the session knows, and
\* nothing is at the other path before claude writes there.
PathKnown ==
  /\ \A i \in Follows :
       ~fol[i].cancelled /\ fol[i].pc \in {"open", "read", "process", "advance"} =>
         fol[i].path = transcriptPath
  /\ writes = 1 => at[2] = 0

\* As long as nothing was processed, nothing counts as read.
SeenFirst ==
  seen = {} => readPos = 0 /\ \A i \in Follows : fol[i].pc # "advance"

\* No file is read twice, every drain catches up before the next turn and
\* followers do not overlap.
Quiet == ~disturbed /\ ~overlap

\* No turn has begun before the finaliser of an earlier one was done waiting.
InTime ==
  ~disturbed => \A t \in Turns : t < currentTurnID => drain[t].pc \in {"drain", "done"}

\* A finaliser that waits does so for claude's file, and no line but the one
\* begun by then has been added since.
Waiting ==
  ~disturbed => \A t \in Turns : drain[t].pc = "wait" =>
    /\ transcriptPath = writes /\ drain[t].file = at[writes]
    /\ drain[t].target >= 2 * Len(file[drain[t].file]) - 1
    /\ torn[drain[t].file] # NoLine => drain[t].target >= 2 * Len(file[drain[t].file]) + 1

\* The lines of the turns whose wait is over.
Settled ==
  {l \in Script \ todo : \E t \in Turns : by[l] = t /\ drain[t].pc \in {"drain", "done"}}

\* The lines of a file, and of the file at a path.
LinesOf(s, rest) == {l \in Script : l = rest \/ \E k \in DOMAIN s : s[k] = l}
AtPath(p) == IF at[p] = 0 THEN {} ELSE LinesOf(file[at[p]], torn[at[p]])

\* A settled turn's line is where no follower will find it if none has been
\* processed yet.
Unread ==
  Quiet => \A l \in Settled :
    /\ transcriptPath # 0
    /\ seen = {} => l \notin AtPath(writes) /\ l \notin AtPath(transcriptPath)

\* How many lines a follower has read or is at.
Past(r) == IF r.pc \in {"process", "advance"} /\ ~Piece(r) THEN r.pos + 1 ELSE r.pos

\* What a reader has still to read is of turns whose wait is not over, except
\* for the rest of a huge line.
NoneSettled ==
  Quiet => \A i \in Follows : Busy(fol[i]) =>
    \A n \in Past(fol[i])..Len(file[fol[i].file]) :
      LineAfter(file[fol[i].file], torn[fol[i].file], n) \in Settled =>
        /\ n = fol[i].pos /\ fol[i].partial
        /\ LineAfter(file[fol[i].file], torn[fol[i].file], n).kind = "huge"

\* A whole line is captured with the turn that wrote it.
OnTurn ==
  Quiet => \A i \in Follows : fol[i].pc = "process" /\ fol[i].bytes = 2 =>
    by[fol[i].line] = fol[i].turn

\* The accumulator and what was drained have lines on disk only, the accumulator
\* those of one turn.
Collected ==
  /\ issues \cap todo = {} /\ \A t \in Turns : drain[t].got \cap todo = {}
  /\ Quiet => \A l \in issues : by[l] = iiTurnID

\* The inductive invariant of OwnReports.
OwnInv ==
  /\ DeliverInv /\ PathKnown /\ SeenFirst /\ InTime /\ Waiting /\ Unread /\ NoneSettled
  /\ OnTurn /\ Collected /\ OwnReports

\* At the start nothing is settled, read or reported.
LEMMA OwnInit == ASSUME Init PROVE OwnInv
<1>1. DeliverInv
  BY DeliverInit
<1>2. /\ at = [p \in Paths |-> 0] /\ readPos = 0 /\ issues = {}
      /\ drain = [t \in Turns |-> [pc |-> "off", target |-> 0, file |-> 0,
                                   caught |-> 0, got |-> {}]]
      /\ \A i \in Follows : fol[i].pc = "off"
  BY StartedFollower DEF Init
<1>3. \A t \in Turns : drain[t].pc = "off" /\ drain[t].got = {}
  BY <1>2
<1>4. at[2] = 0
  BY <1>2 DEF Paths
<1>5. Settled = {}
  BY <1>3 DEF Settled
<1>6. PathKnown /\ SeenFirst /\ Waiting /\ Unread /\ NoneSettled
  BY <1>2, <1>3, <1>4, <1>5 DEF PathKnown, SeenFirst, Waiting, Unread, NoneSettled, Busy
<1>7. OnTurn /\ Collected /\ OwnReports
  BY <1>2, <1>3 DEF OnTurn, Collected, OwnReports
<1>8. InTime
  BY DEF InTime, Init, currentTurnID, Turns
<1> QED BY <1>1, <1>6, <1>7, <1>8 DEF OwnInv

\* The parts the proofs below need again and again.
LEMMA OwnParts ==
  ASSUME OwnInv
  PROVE  /\ DeliverInv /\ ReadInv /\ FilesInv /\ TypeInv /\ TurnsInOrder /\ Dated /\ Queued
         /\ ReaderLast /\ Position /\ DrainShape /\ Created /\ WrittenOnce
         /\ PathKnown /\ SeenFirst /\ InTime /\ Waiting /\ Unread /\ NoneSettled
         /\ OnTurn /\ Collected /\ OwnReports
BY DeliverParts DEF OwnInv

\* The types the proofs below need.
LEMMA DiskTypes ==
  ASSUME TypeInv
  PROVE  /\ file \in [Files -> Seq(Script)] /\ torn \in [Files -> LineOrNone]
         /\ at \in [Paths -> 0..MaxFiles] /\ writes \in Paths /\ inodes \in Nat
         /\ by \in [Script -> 0..MaxTurns] /\ transcriptPath \in 0..2 /\ 0 \notin Paths
         /\ transcriptPath # 0 => transcriptPath \in Paths
BY Constants DEF TypeInv, TypeOK, TypeDisk, TypeMgr, Paths

\* History is not undone.
LEMMA HistoryStays ==
  ASSUME TypeInv, Queued, ReaderLast, [Next]_vars
  PROVE  /\ disturbed => disturbed'
         /\ Quiet' => Quiet
         /\ seen \subseteq seen'
<1>1. ASSUME NEW t \in Turns, TurnStep(t) PROVE (disturbed => disturbed') /\ seen' = seen
  <2>1. CASE Submit(t)
    <3>1. disturbed => disturbed'
      BY <2>1 DEF Submit
    <3> QED BY <2>1, <3>1, ManagerApart DEF TurnStep
  <2>2. CASE ensureTailerFollowing(t) \/ Complete(t) \/ Fail(t)
    BY <2>2 DEF ensureTailerFollowing, Complete, Fail, ghostVars
  <2> QED BY <1>1, <2>1, <2>2 DEF TurnStep
<1>2. ASSUME NEW t \in Turns, DrainStep(t) PROVE (disturbed => disturbed') /\ seen' = seen
  <2>1. seen' = seen
    BY <1>2, ManagerApart
  <2>2. disturbed => disturbed'
    BY <1>2 DEF DrainStep, DrainStat, CaughtUpTo, DrainTimeout, DrainInternalIssues
  <2> QED BY <2>1, <2>2
<1>3. ASSUME NEW i \in Follows, FollowStep(i) \/ FollowError(i)
      PROVE  (disturbed => disturbed') /\ seen \subseteq seen'
  <2>1. CASE FollowOpen(i)
    <3>1. disturbed => disturbed'
      BY <2>1 DEF FollowOpen
    <3> QED BY <2>1, <3>1, OpenFields
  <2>2. CASE FollowProcess(i)
    BY <2>2, ProcessFields
  <2>3. CASE FollowAdvance(i) \/ FollowRead(i) \/ FollowEOF(i) \/ FollowError(i)
    BY <2>3, ReadFields, EOFFields, AdvanceFields, ErrorFields
  <2>4. CASE awaitTranscriptFile(i) \/ FollowCancelled(i)
    BY <2>4, AwaitFields
  <2> QED BY <1>3, <2>1, <2>2, <2>3, <2>4 DEF FollowStep
<1>4. ASSUME ClaudeWrites \/ ClaudeEndsLine \/ ClaudeRestarts
      PROVE  (disturbed => disturbed') /\ seen' = seen
  BY <1>4, ClaudeApart
<1>5. (disturbed => disturbed') /\ seen \subseteq seen'
  BY <1>1, <1>2, <1>3, <1>4, Actors
<1> QED BY <1>5, ReaderLastStep DEF Quiet

\* Who changes the path the session knows.
LEMMA PathMoves ==
  ASSUME TypeInv, [Next]_vars
  PROVE  \/ transcriptPath' = transcriptPath
         \/ \E t \in Turns : Complete(t)
         \/ transcriptPath = 0
<1>1. ASSUME NEW t \in Turns, TurnStep(t) PROVE transcriptPath' = transcriptPath \/ Complete(t)
  BY <1>1 DEF TurnStep, Submit, ensureTailerFollowing, Fail
<1>2. ASSUME NEW t \in Turns, DrainStep(t) PROVE transcriptPath' = transcriptPath
  BY <1>2 DEF DrainStep, DrainStat, CaughtUpTo, DrainTimeout, DrainInternalIssues, FinStay,
     mgrVars
<1>3. ASSUME NEW i \in Follows, FollowStep(i) \/ FollowError(i)
      PROVE  transcriptPath' = transcriptPath \/ transcriptPath = 0
  BY <1>3, AwaitFields, OpenFields, ReadFields, EOFFields, ProcessFields, AdvanceFields,
     ErrorFields DEF FollowStep, mgrVars
<1>4. CASE ClaudeWrites \/ ClaudeEndsLine \/ ClaudeRestarts
  BY <1>4, ClaudeApart DEF mgrVars
<1> QED BY <1>1, <1>2, <1>3, <1>4, Actors DEF mgrVars

\* The file at claude's other path.
LEMMA OtherPath ==
  ASSUME TypeInv, [Next]_vars, writes = 1 => at[2] = 0
  PROVE  writes' = 1 => at'[2] = 0
<1>1. CASE ClaudeWrites
  BY <1>1, DiskTypes DEF ClaudeWrites, Paths
<1>2. CASE ClaudeRestarts
  BY <1>2, DiskTypes DEF ClaudeRestarts, Paths
<1>3. CASE ClaudeEndsLine
  BY <1>3 DEF ClaudeEndsLine
<1>4. CASE UNCHANGED diskVars
  BY <1>4 DEF diskVars
<1> QED BY <1>1, <1>2, <1>3, <1>4, Actors, ManagerApart, FollowersApart DEF diskVars

\* The Stop hook's path is claude's; it leaves the followers alone only if they
\* are on it.
LEMMA CompletePath ==
  ASSUME TypeInv, NEW t \in Turns, Complete(t)
  PROVE  /\ transcriptPath' = writes
         /\ UNCHANGED fol => transcriptPath = writes
<1>1. transcriptPath' = writes
  BY DEF Complete
<1>2. CASE tailerStarted /\ transcriptPath = writes
  BY <1>1, <1>2
<1>3. CASE ~(tailerStarted /\ transcriptPath = writes)
  <2>1. /\ Free # {}
        /\ fol' = [i \in Follows |->
               IF i = NextFree THEN Started(writes, "open")
               ELSE [fol[i] EXCEPT !.cancelled = i \in Running]]
    BY <1>3 DEF Complete
  <2>2. NextFree \in Follows /\ fol[NextFree].pc = "off"
    BY <2>1, FirstFree DEF Free
  <2>3. fol'[NextFree] = Started(writes, "open")
    BY <2>1, <2>2
  <2>4. writes \in 0..2
    BY DiskTypes DEF Paths
  <2>5. Started(writes, "open").pc = "open"
    BY <2>4, StartedFields
  <2> QED BY <1>1, <2>2, <2>3, <2>5
<1> QED BY <1>2, <1>3

\* The follower that is not cancelled is on the path the session knows.
LEMMA PathKnownStep == ASSUME OwnInv, [Next]_vars PROVE PathKnown'
<1>0. TypeInv /\ Queued /\ PathKnown
  BY OwnParts
<1>1. writes' = 1 => at'[2] = 0
  BY <1>0, OtherPath DEF PathKnown
<1> SUFFICES ASSUME NEW i \in Follows, ~fol'[i].cancelled,
                    fol'[i].pc \in {"open", "read", "process", "advance"}
             PROVE  fol'[i].path = transcriptPath'
  BY <1>1 DEF PathKnown
<1>2. ASSUME NEW t \in Turns, ensureTailerFollowing(t) \/ Complete(t), fol' # fol
      PROVE  fol'[i].path = transcriptPath'
  <2>1. PICK n \in Follows :
              /\ Begins(n)
              /\ \A j \in Follows : j # n =>
                   /\ Continues(j)
                   /\ ~tailerStarted \/ (fol'[j].cancelled <=> j \in Running)
    BY <1>0, <1>2, Starts
  <2>2. CASE i = n
    BY <2>1, <2>2 DEF Begins
  <2>3. CASE i # n
    <3>1. fol'[i].pc = fol[i].pc
      BY <2>1, <2>3 DEF Continues
    <3>2. i \in Running
      BY <3>1 DEF Running
    <3>3. tailerStarted
      BY <1>0, <3>1 DEF Queued
    <3> QED BY <2>1, <2>3, <3>2, <3>3
  <2> QED BY <2>2, <2>3
<1>3. ASSUME fol'[i] = fol[i], \A t \in Turns : ~Complete(t)
      PROVE  fol'[i].path = transcriptPath'
  <2>1. fol[i].path = transcriptPath
    BY <1>0, <1>3 DEF PathKnown
  <2>2. fol[i].path \in Paths
    BY <1>0, <1>3 DEF TypeInv, FolShape, WellFormed
  <2>3. transcriptPath # 0
    BY <2>1, <2>2 DEF Paths
  <2> QED BY <1>0, <1>3, <2>1, <2>3, PathMoves
<1>4. ASSUME NEW t \in Turns, Complete(t), UNCHANGED fol PROVE fol'[i].path = transcriptPath'
  BY <1>0, <1>4, CompletePath DEF PathKnown
<1>5. ASSUME FollowStep(i) \/ FollowError(i) PROVE fol'[i].path = transcriptPath'
  <2>1. /\ fol[i].pc \notin {"off", "done"} /\ fol'[i].cancelled = fol[i].cancelled
    BY <1>0, <1>5, Marches
  <2>2. CASE awaitTranscriptFile(i) \/ FollowCancelled(i)
    BY <1>0, <2>2, AwaitFields
  <2>3. CASE \/ FollowOpen(i) \/ FollowRead(i) \/ FollowEOF(i) \/ FollowProcess(i)
             \/ FollowAdvance(i) \/ FollowError(i)
    <3>1. /\ fol[i].pc \in {"open", "read", "process", "advance"}
          /\ fol'[i].path = fol[i].path /\ UNCHANGED mgrVars
      BY <1>0, <2>3, OpenFields, ReadFields, EOFFields, HandOverFields, ProcessFields,
         AdvanceFields, ErrorFields
    <3> QED BY <1>0, <2>1, <3>1 DEF PathKnown, mgrVars
  <2> QED BY <1>5, <2>2, <2>3 DEF FollowStep
<1>6. ASSUME NEW j \in Follows, FollowStep(j) \/ FollowError(j), NEW t \in Turns, Complete(t)
      PROVE  FALSE
  <2>1. current' = current
    BY <1>6, FollowersApart
  <2> QED BY <1>0, <1>6, <2>1, TurnTypes DEF Complete, TurnEnds
<1>7. ASSUME NEW j \in Follows, FollowStep(j) \/ FollowError(j), j # i
      PROVE  fol'[i].path = transcriptPath'
  BY <1>0, <1>3, <1>6, <1>7, OthersStay
<1> QED BY <1>2, <1>3, <1>4, <1>5, <1>7, FolMoves

\* Nothing counts as read before something was processed.
LEMMA SeenFirstStep == ASSUME OwnInv, [Next]_vars PROVE SeenFirst'
<1>0. TypeInv /\ Queued /\ ReaderLast /\ SeenFirst
  BY OwnParts
<1> SUFFICES ASSUME seen' = {}
             PROVE  readPos' = 0 /\ \A i \in Follows : fol'[i].pc # "advance"
  BY DEF SeenFirst
<1>1. seen = {} /\ readPos = 0 /\ \A i \in Follows : fol[i].pc # "advance"
  BY <1>0, HistoryStays DEF SeenFirst
<1>2. ASSUME NEW i \in Follows, FollowStep(i) \/ FollowError(i)
      PROVE  readPos' = 0 /\ fol'[i].pc # "advance"
  <2>1. ~FollowProcess(i) /\ ~FollowAdvance(i)
    BY <1>0, <1>1, ProcessFields, AdvanceFields
  <2>2. CASE awaitTranscriptFile(i) \/ FollowCancelled(i)
    BY <1>0, <1>1, <2>2, AwaitFields
  <2>3. CASE FollowOpen(i)
    BY <1>0, <2>3, OpenFields
  <2>4. CASE FollowRead(i) \/ FollowEOF(i) \/ FollowError(i)
    BY <1>0, <1>1, <2>4, ReadFields, EOFFields, HandOverFields, ErrorFields
  <2> QED BY <1>2, <2>1, <2>2, <2>3, <2>4 DEF FollowStep
<1>3. readPos' = 0
  BY <1>1, <1>2, Actors, ClaudeApart, ManagerApart
<1>4. ASSUME NEW i \in Follows PROVE fol'[i].pc # "advance"
  BY <1>0, <1>1, <1>2, StandOrMove DEF Stands, Begins
<1> QED BY <1>3, <1>4

\* A turn submitted while the last one's finaliser has yet to catch up is
\* a disturbance.
LEMMA InTimeStep == ASSUME OwnInv, [Next]_vars PROVE InTime'
<1>0. TypeInv /\ TurnsInOrder /\ Queued /\ ReaderLast /\ InTime
  BY OwnParts
<1> SUFFICES ASSUME ~disturbed', NEW t \in Turns, t < currentTurnID'
             PROVE  drain'[t].pc \in {"drain", "done"}
  BY DEF InTime
<1>1. ~disturbed
  BY <1>0, HistoryStays
<1> USE TurnTypes
<1>2. drain[t].pc \in {"drain", "done"}
  <2>1. CASE currentTurnID' = currentTurnID
    BY <1>0, <1>1, <2>1 DEF InTime
  <2>2. ASSUME NEW u \in Turns, Submit(u), currentTurnID' = u, u = currentTurnID + 1
        PROVE  drain[t].pc \in {"drain", "done"}
    <3>1. current = 0 /\ u = lastCompleted + 1 /\ currentTurnID = lastCompleted
      BY <2>2 DEF Submit, currentTurnID
    <3>2. drain[t].pc # "off"
      BY <1>0, <2>2, <3>1 DEF TurnsInOrder
    <3>3. CASE t = u - 1
      <4>1. ~DrainAt(u, {"stat", "wait"})
        BY <2>2 DEF Submit
      <4>2. drain[t].pc \notin {"stat", "wait"}
        BY <1>0, <3>3, <4>1 DEF DrainAt
      <4> QED BY <1>0, <3>2, <4>2
    <3>4. CASE t < u - 1
      BY <1>0, <1>1, <2>2, <3>4 DEF InTime
    <3> QED BY <1>0, <2>2, <3>3, <3>4
  <2> QED BY <1>0, <2>1, <2>2, TurnsStep
<1>3. drain'[t] = drain[t] \/ drain'[t].pc = "done"
  BY <1>0, <1>2, DrainOf DEF Waited
<1> QED BY <1>2, <1>3

\* An undisturbed finaliser that waits is that of the last turn, with no turn
\* after it.
LEMMA WaitsForLast ==
  ASSUME TypeInv, TurnsInOrder, InTime, ~disturbed,
         NEW t \in Turns, drain[t].pc \in {"stat", "wait"}
  PROVE  t = currentTurnID /\ current = 0 /\ t = lastCompleted
<1>1. ~(t < currentTurnID) /\ t <= lastCompleted
  BY TurnTypes DEF InTime, TurnsInOrder
<1> QED BY <1>1, TurnTypes DEF TurnsInOrder, currentTurnID

\* While an undisturbed finaliser waits there is no turn: nothing but the rest
\* of a line reaches the disk, and the path stands.
LEMMA WaitingStep == ASSUME OwnInv, [Next]_vars PROVE Waiting'
<1>0. /\ TypeInv /\ TurnsInOrder /\ Queued /\ ReaderLast /\ InTime /\ Waiting
      /\ DrainShape
  BY OwnParts
<1> SUFFICES ASSUME ~disturbed', NEW t \in Turns, drain'[t].pc = "wait"
             PROVE  /\ transcriptPath' = writes' /\ drain'[t].file = at'[writes']
                    /\ drain'[t].target >= 2 * Len(file'[drain'[t].file]) - 1
                    /\ torn'[drain'[t].file] # NoLine =>
                         drain'[t].target >= 2 * Len(file'[drain'[t].file]) + 1
  BY DEF Waiting
<1>1. ~disturbed
  BY <1>0, HistoryStays
<1>2. CASE /\ UNCHANGED <<diskVars, mgrVars>> /\ drain'[t].target = Size(at[transcriptPath])
           /\ drain'[t].file = at[transcriptPath] /\ at[transcriptPath] # 0
           /\ transcriptPath = writes
  <2> DEFINE f == at[writes]
             n == Len(file[f])
             m == Size(f)
  <2>1. f \in Files
    BY <1>0, <1>2, DiskTypes, Constants
  <2>2. n \in Nat
    BY <1>0, <2>1, DiskTypes
  <2>3. m = 2 * n + IF torn[f] = NoLine THEN 0 ELSE 1
    BY DEF Size
  <2> HIDE DEF m, n
  <2>4. m >= 2 * n - 1 /\ (torn[f] # NoLine => m >= 2 * n + 1)
    BY <2>2, <2>3
  <2> QED BY <1>2, <2>4 DEF diskVars, mgrVars, m, n
<1>3. CASE drain'[t] = drain[t]
  <2> DEFINE f == drain[t].file
             n == Len(file[f])
             m == drain[t].target
  <2>1. /\ transcriptPath = writes /\ f = at[writes]
        /\ m >= 2 * n - 1 /\ (torn[f] # NoLine => m >= 2 * n + 1)
    BY <1>0, <1>1, <1>3 DEF Waiting
  <2>2. f # 0 /\ f \in Files /\ m \in Nat
    <3>1. f # 0
      BY <1>0, <1>3 DEF DrainShape
    <3>2. f \in 0..MaxFiles /\ m \in Nat
      BY <1>0 DEF TypeInv, TypeOK, TypeDrain
    <3> HIDE DEF f, m
    <3> QED BY <3>1, <3>2, Constants
  <2>3. current = 0
    BY <1>0, <1>1, <1>3, WaitsForLast
  <2>4. ~ClaudeWrites /\ ~ClaudeRestarts /\ \A u \in Turns : ~Complete(u)
    BY <1>0, <2>3, TurnTypes DEF ClaudeWrites, ClaudeRestarts, Complete, TurnEnds
  <2>5. transcriptPath' = transcriptPath
    BY <1>0, <2>1, <2>4, PathMoves, DiskTypes
  <2>6. CASE UNCHANGED diskVars
    BY <1>3, <2>1, <2>5, <2>6 DEF diskVars
  <2>7. CASE ClaudeEndsLine
    <3>1. /\ writes' = writes /\ at' = at /\ torn[f] # NoLine
          /\ file' = [file EXCEPT ![f] = Append(@, torn[f])]
          /\ torn' = [torn EXCEPT ![f] = NoLine]
      BY <2>1, <2>7 DEF ClaudeEndsLine
    <3>2. file[f] \in Seq(Script) /\ torn[f] \in Script
      BY <1>0, <2>2, <3>1, DiskTypes DEF LineOrNone
    <3>3. file'[f] = Append(file[f], torn[f]) /\ torn'[f] = NoLine
      BY <1>0, <2>2, <3>1, DiskTypes
    <3>4. Len(file'[f]) = n + 1 /\ n \in Nat
      BY <3>2, <3>3, Appended
    <3>5. m >= 2 * n + 1
      BY <2>1, <3>1
    <3> HIDE DEF m, n
    <3>6. m >= 2 * (n + 1) - 1
      BY <2>2, <3>4, <3>5
    <3> QED BY <1>3, <2>1, <2>5, <3>1, <3>3, <3>4, <3>6 DEF m
  <2> QED BY <2>4, <2>6, <2>7, Actors, ManagerApart, FollowersApart DEF diskVars
<1> QED BY <1>0, <1>2, <1>3, DrainOf DEF Waited

\* A drain catches up with the file it looked at.
CatchesUp(t) ==
  /\ Waited(t) /\ readPos >= drain[t].target /\ UNCHANGED <<fol, seen>>
  /\ ReaderFile = drain[t].file

\* A turn is settled, undisturbed, only by a drain that catches up.
LEMMA SettledStep ==
  ASSUME OwnInv, [Next]_vars, ~disturbed', NEW l \in Settled'
  PROVE  l \in Script /\ (l \in Settled \/ \E t \in Turns : CatchesUp(t))
<1>0. TypeInv /\ TurnsInOrder
  BY OwnParts
<1>1. PICK t \in Turns : /\ by'[l] = t /\ drain'[t].pc \in {"drain", "done"}
                         /\ l \in Script /\ l \notin todo'
  BY DEF Settled
<1>2. l \notin todo
  <2> SUFFICES ASSUME l \in todo PROVE FALSE
    OBVIOUS
  <2>1. todo' # todo
    BY <1>1
  <2>2. ClaudeWrites
    <3>1. CASE ClaudeEndsLine \/ ClaudeRestarts
      BY <2>1, <3>1 DEF ClaudeEndsLine, ClaudeRestarts
    <3> QED BY <2>1, <3>1, Actors, ManagerApart, FollowersApart DEF diskVars
  <2>3. by'[l] = current /\ drain' = drain /\ current # 0
    <3>1. PICK w \in todo : todo' = todo \ {w} /\ by' = [by EXCEPT ![w] = current]
      BY <2>2 DEF ClaudeWrites
    <3>2. w = l
      BY <1>1, <3>1
    <3> QED BY <1>0, <1>1, <2>2, <3>1, <3>2, DiskTypes DEF ClaudeWrites
  <2>4. t > lastCompleted
    BY <1>0, <1>1, <2>3, TurnTypes DEF TurnsInOrder
  <2>5. drain[t].pc = "off"
    BY <1>0, <2>4 DEF TurnsInOrder
  <2> QED BY <1>1, <2>3, <2>5
<1>3. by'[l] = by[l]
  BY <1>0, <1>1, <1>2, DatesKept
<1>4. ASSUME drain[t].pc \in {"drain", "done"} PROVE l \in Settled
  BY <1>1, <1>2, <1>3, <1>4 DEF Settled
<1>5. drain[t].pc \in {"drain", "done"} \/ CatchesUp(t)
  BY <1>0, <1>1, DrainOf DEF CatchesUp
<1> QED BY <1>1, <1>4, <1>5

\* A line comes to a path from there or from claude.
LEMMA PathLines ==
  ASSUME FilesInv, [Next]_vars, NEW p \in Paths, NEW l \in AtPath(p)'
  PROVE  l \in AtPath(p) \/ l \in todo
<1>0. TypeInv /\ Created
  BY DEF FilesInv
<1> USE DiskTypes
<1>1. /\ l \in Script /\ at'[p] # 0
      /\ l = torn'[at'[p]] \/ \E k \in DOMAIN file'[at'[p]] : file'[at'[p]][k] = l
  BY DEF AtPath, LinesOf
<1>2. /\ at[p] \in 0..MaxFiles /\ (at[p] # 0 => at[p] \in Files) /\ at[p] <= inodes
      /\ NoLine \notin Script
  BY <1>0, Constants DEF Created
<1>3. ASSUME at'[p] = at[p], file'[at[p]] = file[at[p]],
             torn'[at[p]] = torn[at[p]] \/ l # torn'[at[p]]
      PROVE  l \in AtPath(p)
  BY <1>1, <1>3 DEF AtPath, LinesOf
<1>4. CASE ClaudeWrites
  <2>1. PICK w \in todo :
          /\ \/ at[writes] # 0 /\ UNCHANGED <<at, inodes>>
             \/ /\ at[writes] = 0 /\ Fresh \in Files
                /\ at' = [at EXCEPT ![writes] = Fresh] /\ inodes' = Fresh
          /\ torn' = [torn EXCEPT ![at'[writes]] = w]
    BY <1>4 DEF ClaudeWrites
  <2>2. file' = file
    BY <1>4 DEF ClaudeWrites
  <2>3. CASE at'[p] = at[p]
    <3>1. at[p] \in Files
      BY <1>1, <1>2, <2>3
    <3>2. torn'[at[p]] = torn[at[p]] \/ torn'[at[p]] = w
      BY <1>0, <2>1, <3>1
    <3> QED BY <1>3, <2>1, <2>2, <2>3, <3>2
  <2>4. CASE at'[p] # at[p]
    <3>1. p = writes /\ at'[p] = Fresh /\ Fresh \in Files
      BY <1>0, <2>1, <2>4
    <3>2. Fresh > inodes
      BY <1>0 DEF Fresh
    <3>3. file[Fresh] = << >>
      BY <1>0, <3>1, <3>2 DEF Created
    <3>4. l = torn'[Fresh]
      BY <1>1, <2>2, <3>1, <3>3
    <3>5. torn'[Fresh] = w
      BY <1>0, <2>1, <3>1
    <3> QED BY <2>1, <3>4, <3>5
  <2> QED BY <2>3, <2>4
<1>5. CASE ClaudeEndsLine
  <2> DEFINE f == at[writes]
  <2>1. /\ f # 0 /\ at' = at /\ torn[f] # NoLine
        /\ file' = [file EXCEPT ![f] = Append(@, torn[f])]
        /\ torn' = [torn EXCEPT ![f] = NoLine]
    BY <1>5 DEF ClaudeEndsLine
  <2>2. f \in Files
    BY <1>0, <2>1, Constants
  <2>3. file[f] \in Seq(Script) /\ torn[f] \in Script
    BY <1>0, <2>1, <2>2 DEF LineOrNone
  <2>4. CASE at[p] # f
    BY <1>0, <1>1, <1>2, <1>3, <2>1, <2>4
  <2>5. CASE at[p] = f
    <3>1. file'[f] = Append(file[f], torn[f]) /\ torn'[f] = NoLine
      BY <1>0, <2>1, <2>2
    <3>2. PICK k \in DOMAIN file'[f] : file'[f][k] = l
      BY <1>1, <1>2, <2>1, <2>5, <3>1
    <3>3. /\ k \in 1..(Len(file[f]) + 1) /\ Len(file[f]) \in Nat
          /\ \A j \in 1..Len(file[f]) : file'[f][j] = file[f][j]
          /\ file'[f][Len(file[f]) + 1] = torn[f] /\ DOMAIN file[f] = 1..Len(file[f])
      BY <2>3, <3>1, <3>2, Appended
    <3>4. k \in 1..Len(file[f]) \/ k = Len(file[f]) + 1
      BY <3>3
    <3>5. l = torn[f] \/ \E j \in DOMAIN file[f] : file[f][j] = l
      BY <3>2, <3>3, <3>4
    <3> QED BY <1>1, <2>1, <2>5, <3>5 DEF AtPath, LinesOf
  <2> QED BY <2>4, <2>5
<1>6. CASE ClaudeRestarts
  <2>0. torn' = torn
    BY <1>6 DEF ClaudeRestarts
  <2>1. ASSUME at[writes] # 0, Fresh \in Files, NEW keep \in BOOLEAN,
               file' = [file EXCEPT ![Fresh] =
                          IF keep THEN file[at[writes]] ELSE << >>],
               at' = [at EXCEPT ![writes] = Fresh]
        PROVE  l \in AtPath(p)
    <3>1. Fresh > inodes /\ Fresh \in Nat
      BY <1>0 DEF Fresh
    <3>2. CASE p # writes
      <4>1. at'[p] = at[p]
        BY <1>0, <2>1, <3>2
      <4>2. at[p] # Fresh
        BY <1>0, <1>2, <3>1, Constants
      <4>3. file'[at[p]] = file[at[p]]
        BY <1>0, <1>1, <1>2, <2>1, <4>1, <4>2
      <4> QED BY <1>3, <2>0, <4>1, <4>3
    <3>3. CASE p = writes
      <4>1. at'[p] = Fresh /\ torn[Fresh] = NoLine
        BY <1>0, <2>1, <3>1, <3>3 DEF Created
      <4>2. file'[Fresh] = file[at[p]] \/ file'[Fresh] = << >>
        BY <1>0, <2>1, <3>3
      <4>3. \E k \in DOMAIN file'[Fresh] : file'[Fresh][k] = l
        BY <1>1, <1>2, <2>0, <4>1
      <4>4. file'[Fresh] = file[at[p]]
        BY <4>2, <4>3
      <4> QED BY <1>1, <2>1, <3>3, <4>3, <4>4 DEF AtPath, LinesOf
    <3> QED BY <3>2, <3>3
  <2>2. CASE UNCHANGED <<inodes, at, file>>
    BY <1>3, <2>0, <2>2
  <2> QED BY <1>6, <2>1, <2>2 DEF ClaudeRestarts
<1>7. CASE UNCHANGED diskVars
  BY <1>3, <1>7 DEF diskVars
<1> QED BY <1>4, <1>5, <1>6, <1>7, Actors, ManagerApart, FollowersApart DEF diskVars

\* The drain that catches up waited for claude's file, and the reader is in it.
LEMMA CatchUpPlace ==
  ASSUME OwnInv, [Next]_vars, ~disturbed', NEW t \in Turns, CatchesUp(t)
  PROVE  LET f == drain[t].file
             n == Len(file[f])
         IN  /\ f \in Files /\ f = at[writes] /\ transcriptPath = writes /\ n \in Nat
             /\ readPos \in Nat /\ readPos >= 2 * n - 1
             /\ torn[f] # NoLine => readPos >= 2 * n + 1
             /\ UNCHANGED <<diskVars, mgrVars, fol, seen>>
<1>0. TypeInv /\ Queued /\ ReaderLast /\ Waiting /\ DrainShape
  BY OwnParts
<1> DEFINE f == drain[t].file
           n == Len(file[f])
           m == drain[t].target
<1>1. ~disturbed /\ drain[t].pc = "wait" /\ readPos >= m
  BY <1>0, HistoryStays DEF CatchesUp, Waited
<1>2. UNCHANGED <<diskVars, mgrVars, fol, seen>>
  BY DEF CatchesUp, Waited
<1>3. /\ transcriptPath = writes /\ f = at[writes]
      /\ m >= 2 * n - 1 /\ (torn[f] # NoLine => m >= 2 * n + 1)
  BY <1>0, <1>1 DEF Waiting
<1>4. f # 0 /\ f \in 0..MaxFiles /\ m \in Nat /\ readPos \in Nat
  BY <1>0, <1>1 DEF DrainShape, TypeInv, TypeOK, TypeDrain, TypeFol
<1>5. f \in Files
  <2> HIDE DEF f
  <2> QED BY <1>4, Constants
<1>6. n \in Nat
  BY <1>0, <1>5, DiskTypes
<1> HIDE DEF m, n, f
<1>7. readPos >= 2 * n - 1 /\ (torn[f] # NoLine => readPos >= 2 * n + 1)
  BY <1>1, <1>3, <1>4, <1>6
<1> QED BY <1>2, <1>3, <1>5, <1>6, <1>4, <1>7 DEF f, n

\* A settled line is not met by a first reader.
LEMMA UnreadStep == ASSUME OwnInv, [Next]_vars PROVE Unread'
<1>0. /\ TypeInv /\ TypeInv' /\ FilesInv /\ Queued /\ ReaderLast /\ Unread /\ SeenFirst
      /\ PathKnown
  BY OwnParts, TypeStep
<1> SUFFICES ASSUME Quiet', NEW l \in Settled'
             PROVE  /\ transcriptPath' # 0
                    /\ seen' = {} => l \notin AtPath(writes)' /\ l \notin AtPath(transcriptPath)'
  BY DEF Unread
<1>1. Quiet /\ ~disturbed' /\ (seen' = {} => seen = {})
  BY <1>0, HistoryStays DEF Quiet
<1>2. ASSUME NEW t \in Turns, CatchesUp(t)
      PROVE  /\ transcriptPath' # 0
             /\ seen' = {} => l \notin AtPath(writes)' /\ l \notin AtPath(transcriptPath)'
  <2> DEFINE f == drain[t].file
             n == Len(file[f])
  <2>1. /\ f \in Files /\ f = at[writes] /\ transcriptPath = writes /\ n \in Nat
        /\ readPos \in Nat /\ readPos >= 2 * n - 1
        /\ torn[f] # NoLine => readPos >= 2 * n + 1
        /\ UNCHANGED <<diskVars, mgrVars, fol, seen>>
    BY <1>1, <1>2, CatchUpPlace
  <2>2. transcriptPath' # 0
    BY <1>0, <2>1, DiskTypes DEF mgrVars
  <2>3. ASSUME seen' = {} PROVE l \notin AtPath(writes)
    <3>1. readPos = 0
      BY <1>0, <1>1, <2>3 DEF SeenFirst
    <3>2. n = 0 /\ torn[f] = NoLine
      <4> HIDE DEF n, f
      <4> QED BY <2>1, <3>1
    <3>3. DOMAIN file[f] = {}
      <4>1. file[f] \in Seq(Script)
        BY <1>0, <2>1, DiskTypes
      <4> QED BY <3>2, <4>1
    <3>4. LinesOf(file[f], torn[f]) = {}
      BY <3>2, <3>3, Constants DEF LinesOf
    <3> QED BY <2>1, <3>4 DEF AtPath
  <2> QED BY <2>1, <2>2, <2>3 DEF AtPath, diskVars, mgrVars
<1>3. ASSUME l \in Settled
      PROVE  /\ transcriptPath' # 0
             /\ seen' = {} => l \notin AtPath(writes)' /\ l \notin AtPath(transcriptPath)'
  <2>1. /\ transcriptPath # 0 /\ l \notin todo
        /\ seen = {} => l \notin AtPath(writes) /\ l \notin AtPath(transcriptPath)
    BY <1>0, <1>1, <1>3 DEF Unread, Settled
  <2>2. writes \in Paths /\ transcriptPath \in Paths /\ 0 \notin Paths
    BY <1>0, <2>1, DiskTypes
  <2>3. transcriptPath' = transcriptPath \/ \E t \in Turns : Complete(t)
    BY <1>0, <2>1, PathMoves
  <2>4. ASSUME NEW t \in Turns, Complete(t) PROVE transcriptPath' = writes /\ writes' = writes
    BY <2>4 DEF Complete, diskVars
  <2>5. transcriptPath' # 0
    BY <2>2, <2>3, <2>4
  <2>6. ASSUME NEW p \in Paths, l \notin AtPath(p) PROVE l \notin AtPath(p)'
    BY <1>0, <2>1, <2>6, PathLines
  <2>7. ASSUME NEW p, p \in Paths, p = writes' PROVE AtPath(writes)' = AtPath(p)'
    BY <2>7 DEF AtPath
  <2>8. ASSUME NEW p, p \in Paths, p = transcriptPath'
        PROVE  AtPath(transcriptPath)' = AtPath(p)'
    BY <2>8 DEF AtPath
  <2>9. ASSUME seen' = {} PROVE l \notin AtPath(writes)'
    <3>1. CASE writes' = writes
      <4> DEFINE p == writes
      <4>1. p \in Paths /\ l \notin AtPath(p)
        BY <1>1, <2>1, <2>2, <2>9
      <4>2. PICK q \in Paths : q = writes
        BY <2>2
      <4>3. l \notin AtPath(q)
        BY <4>1, <4>2
      <4>4. l \notin AtPath(q)'
        BY <2>6, <4>3
      <4> QED BY <2>7, <3>1, <4>2, <4>4
    <3>2. CASE writes' # writes
      <4>1. writes = 1 /\ writes' = 2 /\ at' = at
        <5>1. ClaudeRestarts
          BY <3>2, Actors, ManagerApart, FollowersApart
             DEF diskVars, ClaudeWrites, ClaudeEndsLine
        <5> QED BY <3>2, <5>1 DEF ClaudeRestarts
      <4>2. at'[writes'] = 0
        BY <1>0, <4>1 DEF PathKnown
      <4> QED BY <4>2 DEF AtPath
    <3> QED BY <3>1, <3>2
  <2>10. ASSUME seen' = {} PROVE l \notin AtPath(transcriptPath)'
    <3>1. CASE transcriptPath' = transcriptPath
      <4>1. PICK q \in Paths : q = transcriptPath
        BY <2>2
      <4>2. l \notin AtPath(q)
        BY <1>1, <2>1, <2>10, <4>1
      <4>3. l \notin AtPath(q)'
        BY <2>6, <4>2
      <4> QED BY <2>8, <3>1, <4>1, <4>3
    <3>2. CASE transcriptPath' = writes'
      BY <2>9, <2>10, <3>2 DEF AtPath
    <3> QED BY <2>3, <2>4, <3>1, <3>2
  <2> QED BY <2>5, <2>9, <2>10
<1> QED BY <1>1, <1>2, <1>3, SettledStep

\* A settled line of a file was there, or begun there, before.
LEMMA SettledLine ==
  ASSUME FilesInv, [Next]_vars, NEW f \in Files, f <= inodes, NEW n \in Nat,
         n <= Len(file'[f]), LineAfter(file'[f], torn'[f], n) \in Settled
  PROVE  /\ n <= Len(file[f]) /\ Len(file[f]) \in Nat
         /\ LineAfter(file'[f], torn'[f], n) = LineAfter(file[f], torn[f], n)
<1>0. TypeInv
  BY DEF FilesInv
<1> USE DiskTypes
<1>1. /\ LineAfter(file'[f], torn'[f], n) \in Script
      /\ LineAfter(file'[f], torn'[f], n) \notin todo
      /\ Len(file[f]) \in Nat /\ NoLine \notin Script /\ f \in Nat
  BY <1>0, Constants DEF Settled, Files
<1>2. ASSUME file'[f] = file[f], torn'[f] = torn[f]
      PROVE  /\ n <= Len(file[f])
             /\ LineAfter(file'[f], torn'[f], n) = LineAfter(file[f], torn[f], n)
  BY <1>2
<1>3. CASE ClaudeWrites
  <2>1. PICK w \in todo : torn' = [torn EXCEPT ![at'[writes]] = w]
    BY <1>3 DEF ClaudeWrites
  <2>2. file' = file
    BY <1>3 DEF ClaudeWrites
  <2>3. torn'[f] = torn[f] \/ torn'[f] = w
    BY <1>0, <2>1
  <2> QED BY <1>1, <2>1, <2>2, <2>3 DEF LineAfter
<1>4. CASE ClaudeEndsLine
  <2> DEFINE g == at[writes]
  <2>1. /\ torn[g] # NoLine
        /\ file' = [file EXCEPT ![g] = Append(@, torn[g])]
        /\ torn' = [torn EXCEPT ![g] = NoLine]
    BY <1>4 DEF ClaudeEndsLine
  <2>2. CASE g # f
    BY <1>0, <1>1, <1>2, <2>1, <2>2
  <2>3. CASE g = f
    <3>1. file[f] \in Seq(Script) /\ torn[f] \in Script
      BY <1>0, <2>1, <2>3 DEF LineOrNone
    <3>2. file'[f] = Append(file[f], torn[f]) /\ torn'[f] = NoLine
      BY <1>0, <2>1, <2>3
    <3>3. /\ Len(file'[f]) = Len(file[f]) + 1
          /\ \A k \in 1..Len(file[f]) : file'[f][k] = file[f][k]
          /\ file'[f][Len(file[f]) + 1] = torn[f]
      BY <3>1, <3>2, Appended
    <3>4. CASE n < Len(file[f])
      <4>1. n + 1 \in 1..Len(file[f]) /\ n < Len(file'[f])
        BY <1>1, <3>3, <3>4
      <4> QED BY <1>1, <3>3, <3>4, <4>1 DEF LineAfter
    <3>5. CASE n = Len(file[f])
      BY <1>1, <3>3, <3>5 DEF LineAfter
    <3>6. CASE n = Len(file[f]) + 1
      BY <1>1, <3>2, <3>3, <3>6 DEF LineAfter
    <3> QED BY <1>1, <3>3, <3>4, <3>5, <3>6
  <2> QED BY <2>2, <2>3
<1>5. CASE ClaudeRestarts
  <2>1. Fresh # f
    BY <1>0, <1>1 DEF Fresh
  <2>2. file'[f] = file[f] /\ torn' = torn
    BY <1>0, <1>5, <2>1 DEF ClaudeRestarts
  <2> QED BY <1>1, <1>2, <2>2
<1>6. CASE UNCHANGED diskVars
  BY <1>1, <1>2, <1>6 DEF diskVars
<1> QED BY <1>3, <1>4, <1>5, <1>6, Actors, ManagerApart, FollowersApart DEF diskVars

\* When a drain catches up, its reader has read the whole file, but for the rest
\* of a huge line.
LEMMA ReaderCaughtUp ==
  ASSUME OwnInv, [Next]_vars, Quiet', NEW t \in Turns, CatchesUp(t),
         NEW i \in Follows, Busy(fol[i]), NEW n \in fol[i].pos..Len(file[fol[i].file]),
         LineAfter(file[fol[i].file], torn[fol[i].file], n) # NoLine
  PROVE  /\ n = fol[i].pos /\ fol[i].partial
         /\ LineAfter(file[fol[i].file], torn[fol[i].file], n).kind = "huge"
<1>0. TypeInv /\ ReadInv /\ Queued /\ ReaderLast /\ Position
  BY OwnParts
<1>1. ~disturbed' /\ ~overlap
  BY <1>0, HistoryStays DEF Quiet
<1> DEFINE f == fol[i].file
           z == Len(file[f])
           p == fol[i].pos
           a == Ahead(i)
<1>2. f = drain[t].file
  <2>1. LastOpened(i) /\ f \in Files
    BY <1>0, <1>1, BusyPlace DEF ReaderLast
  <2>2. ReaderFile = drain[t].file /\ drain[t].file \in Files
    BY <1>1, CatchUpPlace DEF CatchesUp
  <2>3. ReaderFile # 0
    BY <2>2, Constants DEF Files
  <2>4. PICK j \in Follows : LastOpened(j) /\ fol[j].file = ReaderFile
    BY <1>0, <2>3, ReaderIs
  <2> QED BY <2>1, <2>2, <2>4, OneLast
<1>3. /\ z \in Nat /\ readPos \in Nat /\ readPos >= 2 * z - 1
      /\ torn[f] # NoLine => readPos >= 2 * z + 1
  BY <1>1, <1>2, CatchUpPlace
<1>4. p \in Nat /\ p <= z /\ a \in {0, 1} /\ readPos <= 2 * p + a
  BY <1>0, <1>1, BusyPlace DEF Position, Ahead
<1>5. n \in Nat /\ p <= n /\ n <= z
  BY <1>3, <1>4
<1>6. ASSUME a = 1, n = p
      PROVE  /\ fol[i].partial
             /\ LineAfter(file[f], torn[f], n).kind = "huge"
  BY <1>6 DEF Ahead, NextLine
<1>7. n = z => torn[f] # NoLine
  BY <1>3 DEF LineAfter
<1> SUFFICES a = 1 /\ n = p
  BY <1>6
<1> HIDE DEF f, z, p, a
<1>8. CASE torn[f] # NoLine
  BY <1>3, <1>4, <1>5, <1>8
<1>9. CASE torn[f] = NoLine
  BY <1>3, <1>4, <1>5, <1>7, <1>9
<1> QED BY <1>8, <1>9

\* A reader meets no line of a settled turn, but for the rest of a huge one.
LEMMA NoneSettledStep == ASSUME OwnInv, [Next]_vars PROVE NoneSettled'
<1>0. /\ TypeInv /\ TypeInv' /\ ReadInv /\ ReadInv' /\ FilesInv /\ Queued /\ ReaderLast
      /\ NoneSettled /\ Unread /\ PathKnown
  BY OwnParts, TypeStep, ReadStep
<1> SUFFICES ASSUME Quiet', NEW i \in Follows, Busy(fol'[i]),
                    NEW n \in Past(fol'[i])..Len(file'[fol'[i].file]),
                    LineAfter(file'[fol'[i].file], torn'[fol'[i].file], n) \in Settled'
             PROVE  /\ n = fol'[i].pos /\ fol'[i].partial
                    /\ LineAfter(file'[fol'[i].file], torn'[fol'[i].file], n).kind = "huge"
  BY DEF NoneSettled
<1> DEFINE f == fol'[i].file
           l == LineAfter(file'[f], torn'[f], n)
<1>1. Quiet /\ ~disturbed' /\ l \in Script /\ l # NoLine
  BY <1>0, HistoryStays, Constants DEF Quiet, Settled
<1>2. /\ f \in Files /\ fol'[i].pos \in Nat /\ Len(file'[f]) \in Nat
      /\ Past(fol'[i]) \in Nat /\ Past(fol'[i]) >= fol'[i].pos
      /\ n \in Nat /\ n <= Len(file'[f]) /\ n >= Past(fol'[i]) /\ n >= fol'[i].pos
  <2>1. fol'[i] \in Follower /\ file' \in [Files -> Seq(Script)]
    BY <1>0 DEF TypeInv, TypeOK, TypeFol, TypeDisk
  <2>2. f \in Files
    BY <1>0 DEF TypeInv, FolShape, WellFormed, Busy
  <2>3. Len(file'[f]) \in Nat /\ fol'[i].pos \in Nat
    BY <2>1, <2>2, FollowerFields
  <2>4. Past(fol'[i]) \in Nat /\ Past(fol'[i]) >= fol'[i].pos
    BY <2>3 DEF Past
  <2> QED BY <2>2, <2>3, <2>4
<1>3. ASSUME NEW t \in Turns, CatchesUp(t)
      PROVE  n = fol'[i].pos /\ fol'[i].partial /\ l.kind = "huge"
  <2>1. fol' = fol /\ file' = file /\ torn' = torn
    BY <1>3 DEF CatchesUp, Waited, diskVars
  <2>2. n \in fol[i].pos..Len(file[fol[i].file])
    BY <1>2, <2>1
  <2> QED BY <1>1, <1>3, <2>1, <2>2, ReaderCaughtUp
<1>4. ASSUME l \in Settled
      PROVE  n = fol'[i].pos /\ fol'[i].partial /\ l.kind = "huge"
  <2>1. ASSUME Busy(fol[i]), fol'[i].file = fol[i].file, Past(fol'[i]) >= Past(fol[i]),
               Past(fol[i]) \in Nat
        PROVE  n = fol[i].pos /\ fol[i].partial /\ l.kind = "huge" /\ n <= Len(file[f])
    <3>1. f <= inodes
      BY <1>0, <2>1, BusyPlace
    <3>2. n <= Len(file[f]) /\ Len(file[f]) \in Nat /\ l = LineAfter(file[f], torn[f], n)
      BY <1>0, <1>2, <1>4, <3>1, SettledLine
    <3>3. n \in Past(fol[i])..Len(file[f])
      <4> HIDE DEF f
      <4> QED BY <1>2, <2>1, <3>2
    <3>4. LineAfter(file[f], torn[f], n) \in Settled
      BY <1>4, <3>2
    <3> HIDE DEF l
    <3> QED BY <1>0, <1>1, <2>1, <3>2, <3>3, <3>4 DEF NoneSettled
  <2>2. ASSUME Busy(fol[i]) PROVE fol[i].pos \in Nat /\ Past(fol[i]) \in Nat
    BY <1>0, <2>2, BusyPlace DEF Past
  <2>3. CASE Stands(i)
    <3>1. Busy(fol[i]) /\ Past(fol'[i]) = Past(fol[i])
      BY <2>3 DEF Stands, SameLine, Busy, Past, Piece
    <3> QED BY <2>1, <2>2, <2>3, <3>1 DEF Stands
  <2>4. CASE FollowOpen(i)
    <3>1. /\ ~fol[i].cancelled /\ fol[i].pc = "open" /\ f = at[fol[i].path] /\ f # 0
          /\ UNCHANGED diskVars
      BY <1>0, <2>4, OpenFields DEF Busy
    <3>2. seen = {}
      BY <1>1, <2>4 DEF FollowOpen
    <3>3. fol[i].path = transcriptPath
      BY <1>0, <3>1 DEF PathKnown
    <3>4. l \notin AtPath(transcriptPath)
      BY <1>0, <1>1, <1>4, <3>2 DEF Unread
    <3>5. AtPath(transcriptPath) = LinesOf(file[f], torn[f])
      BY <3>1, <3>3 DEF AtPath
    <3>6. l \in LinesOf(file[f], torn[f])
      <4>1. l = LineAfter(file[f], torn[f], n)
        BY <3>1 DEF diskVars
      <4>2. file[f] \in Seq(Script) /\ file' = file
        BY <1>0, <1>2, <3>1, DiskTypes DEF diskVars
      <4>3. n < Len(file[f]) => n + 1 \in DOMAIN file[f]
        BY <1>2, <4>2
      <4> QED BY <1>1, <4>1, <4>3 DEF LinesOf, LineAfter
    <3> QED BY <3>4, <3>5, <3>6
  <2>5. CASE FollowRead(i)
    <3>1. /\ fol[i].pc = "read" /\ fol'[i].pc = "process"
          /\ fol'[i].file = fol[i].file /\ fol'[i].pos = fol[i].pos
          /\ fol'[i].partial = fol[i].partial
          /\ fol'[i].bytes = 1 => fol[i].partial
      BY <1>0, <2>5, ReadFields, HandOverFields DEF SamePlace
    <3>2. Past(fol'[i]) = fol[i].pos + 1 /\ Past(fol[i]) = fol[i].pos /\ Busy(fol[i])
      BY <3>1 DEF Past, Piece, Busy
    <3>3. fol[i].pos \in Nat
      BY <2>2, <3>2
    <3>4. n = fol[i].pos
      BY <2>1, <3>1, <3>2, <3>3
    <3> QED BY <1>2, <3>2, <3>3, <3>4
  <2>6. CASE FollowEOF(i)
    <3>1. /\ fol[i].pc = "read" /\ fol[i].pos = Len(file[fol[i].file])
          /\ fol'[i].file = fol[i].file /\ fol'[i].pos = fol[i].pos /\ UNCHANGED diskVars
      BY <1>0, <2>6, EOFFields, HandOverFields DEF SamePlace
    <3>2. Busy(fol[i]) /\ Past(fol[i]) = fol[i].pos
      BY <3>1 DEF Busy, Past
    <3>3. n = fol[i].pos /\ fol[i].partial /\ l.kind = "huge"
      BY <1>2, <2>1, <2>2, <3>1, <3>2
    <3>4. fol'[i].pc = "read" /\ (fol'[i].partial <=> torn[fol[i].file] # NoLine)
      BY <1>0, <2>6, <3>3, EOFFields DEF Busy
    <3>5. l = torn[fol[i].file]
      <4>1. file' = file /\ torn' = torn
        BY <3>1 DEF diskVars
      <4>2. ~(n < Len(file[f]))
        BY <1>2, <3>1, <3>3, <4>1
      <4> QED BY <3>1, <4>1, <4>2 DEF LineAfter
    <3> QED BY <1>1, <3>1, <3>3, <3>4, <3>5
  <2>7. CASE FollowProcess(i)
    <3>1. /\ fol[i].pc = "process" /\ fol'[i].pc = "advance"
          /\ fol'[i].file = fol[i].file /\ fol'[i].pos = fol[i].pos
          /\ fol'[i].partial = fol[i].partial /\ fol'[i].bytes = fol[i].bytes
      BY <1>0, <2>7, ProcessFields DEF SamePlace, SameLine
    <3>2. Past(fol'[i]) = Past(fol[i]) /\ Busy(fol[i])
      BY <3>1 DEF Past, Piece, Busy
    <3> QED BY <2>1, <2>2, <3>1, <3>2
  <2>8. CASE FollowAdvance(i)
    <3>1. /\ fol[i].pc = "advance" /\ fol'[i].pc = "read"
          /\ fol'[i].file = fol[i].file
          /\ fol'[i].pos = IF Piece(fol[i]) THEN fol[i].pos ELSE fol[i].pos + 1
      BY <1>0, <2>8, AdvanceFields DEF Busy
    <3>2. Past(fol'[i]) = fol'[i].pos /\ Past(fol[i]) = fol'[i].pos /\ Busy(fol[i])
      BY <3>1 DEF Past, Busy
    <3>3. n = fol[i].pos /\ fol[i].partial /\ fol[i].pos \in Nat
      BY <2>1, <2>2, <3>1, <3>2
    <3>4. ~Piece(fol[i])
      BY <3>3 DEF Piece
    <3> QED BY <1>2, <3>1, <3>3, <3>4
  <2>9. CASE awaitTranscriptFile(i) \/ FollowCancelled(i) \/ FollowError(i) \/ Begins(i)
    BY <1>0, <2>9, AwaitFields, ErrorFields DEF Begins, Busy
  <2> QED BY <1>0, <2>3, <2>4, <2>5, <2>6, <2>7, <2>8, <2>9, StandOrMove DEF FollowStep
<1> QED BY <1>1, <1>3, <1>4, SettledStep

\* A whole line is read while its turn is the current one.
LEMMA OnTurnStep == ASSUME OwnInv, [Next]_vars PROVE OnTurn'
<1>0. /\ TypeInv /\ ReadInv /\ DeliverInv /\ TurnsInOrder /\ Dated /\ Queued /\ ReaderLast
      /\ InTime /\ NoneSettled /\ OnTurn /\ WrittenOnce
  BY OwnParts
<1> SUFFICES ASSUME Quiet', NEW i \in Follows, fol'[i].pc = "process", fol'[i].bytes = 2
             PROVE  by'[fol'[i].line] = fol'[i].turn
  BY DEF OnTurn
<1>1. Quiet
  BY <1>0, HistoryStays
<1>2. CASE Stands(i)
  <2>1. fol[i].pc = "process" /\ fol[i].bytes = 2 /\ fol'[i].line = fol[i].line
        /\ fol'[i].turn = fol[i].turn
    BY <1>2 DEF Stands, SameLine
  <2>2. by[fol[i].line] = fol[i].turn
    BY <1>0, <1>1, <2>1 DEF OnTurn
  <2>3. by'[fol[i].line] = by[fol[i].line]
    BY <1>0, <2>1, WorkWritten, DatesKept
  <2> QED BY <2>1, <2>2, <2>3
<1>3. CASE FollowRead(i)
  <2> DEFINE f == fol[i].file
             n == fol[i].pos
             l == file[f][n + 1]
  <2>1. /\ fol[i].pc = "read" /\ n < Len(file[f]) /\ Busy(fol[i])
        /\ fol'[i].line = l /\ fol'[i].turn = currentTurnID
        /\ fol'[i].bytes = IF l.kind = "huge" /\ fol[i].partial THEN 1 ELSE 2
        /\ UNCHANGED diskVars
    BY <1>0, <1>3, ReadFields, HandOverFields DEF Busy
  <2>2. /\ f \in Files /\ n \in Nat /\ Len(file[f]) \in Nat
        /\ DOMAIN file[f] = 1..Len(file[f])
    BY <1>0, <2>1, BusyPlace
  <2>3. n + 1 \in DOMAIN file[f]
    BY <2>1, <2>2
  <2>4. l \in Script /\ l \notin todo
    BY <1>0, <2>2, <2>3, DiskTypes DEF WrittenOnce
  <2>5. ~(l.kind = "huge" /\ fol[i].partial)
    BY <2>1
  <2>6. l \notin Settled
    <3>1. Past(fol[i]) = n /\ n \in Past(fol[i])..Len(file[f])
      BY <2>1, <2>2 DEF Past
    <3>2. LineAfter(file[f], torn[f], n) = l
      BY <2>1 DEF LineAfter
    <3> HIDE DEF l
    <3> QED BY <1>0, <1>1, <2>1, <2>5, <3>1, <3>2 DEF NoneSettled
  <2> HIDE DEF l
  <2>7. /\ by[l] \in 0..MaxTurns /\ by[l] # 0 /\ by[l] <= currentTurnID
        /\ currentTurnID \in 0..MaxTurns /\ MaxTurns \in Nat
    BY <1>0, <2>4, DiskTypes, TurnTypes DEF Dated
  <2>8. ASSUME by[l] < currentTurnID PROVE FALSE
    <3>1. by[l] \in Turns
      BY <2>7 DEF Turns
    <3>2. drain[by[l]].pc \in {"drain", "done"}
      BY <1>0, <1>1, <2>8, <3>1 DEF InTime, Quiet
    <3> QED BY <2>4, <2>6, <3>1, <3>2 DEF Settled
  <2>9. by[l] = currentTurnID
    BY <2>7, <2>8
  <2> QED BY <2>1, <2>9 DEF diskVars
<1>4. CASE FollowEOF(i)
  BY <1>0, <1>4, EOFFields, HandOverFields
<1>5. CASE \/ awaitTranscriptFile(i) \/ FollowCancelled(i) \/ FollowOpen(i)
           \/ FollowProcess(i) \/ FollowAdvance(i) \/ FollowError(i) \/ Begins(i)
  BY <1>0, <1>5, AwaitFields, OpenFields, ProcessFields, AdvanceFields, ErrorFields DEF Begins
<1> QED BY <1>0, <1>2, <1>3, <1>4, <1>5, StandOrMove DEF FollowStep

\* What a drain takes.
LEMMA GotOf ==
  ASSUME TypeInv, TurnsInOrder, [Next]_vars, NEW t \in Turns
  PROVE  \/ drain'[t].got = drain[t].got
         \/ DrainInternalIssues(t) /\ drain'[t].got = IF iiTurnID = t THEN issues ELSE {}
<1>1. drain \in [Turns -> [pc : {"off", "stat", "wait", "drain", "done"},
                       target : Nat, file : 0..MaxFiles,
                       caught : 0..MaxFiles, got : SUBSET Script]]
  BY DEF TypeInv, TypeOK, TypeDrain
<1>2. ASSUME NEW u \in Turns, TurnEnds(u) PROVE drain'[t].got = drain[t].got
  BY <1>1, <1>2 DEF TurnEnds
<1>3. ASSUME NEW u \in Turns, DrainStep(u), u # t PROVE drain'[t].got = drain[t].got
  BY <1>3, DrainMoves
<1>4. CASE DrainStat(t) \/ CaughtUpTo(t) \/ DrainTimeout(t)
  BY <1>1, <1>4 DEF DrainStat, CaughtUpTo, DrainTimeout
<1>5. CASE DrainInternalIssues(t)
  BY <1>1, <1>5 DEF DrainInternalIssues
<1> QED BY <1>2, <1>3, <1>4, <1>5, TurnMoves DEF DrainStep

\* What is accumulated is of one turn, and what is drained of the drained one.
LEMMA CollectedStep == ASSUME OwnInv, [Next]_vars PROVE Collected' /\ OwnReports'
<1>0. /\ TypeInv /\ DeliverInv /\ TurnsInOrder /\ Queued /\ ReaderLast /\ OnTurn
      /\ Collected /\ OwnReports
  BY OwnParts
<1>1. /\ issues \subseteq Script /\ \A t \in Turns : drain[t].got \subseteq Script
  BY <1>0 DEF TypeInv, TypeOK, TypeAcc, TypeDrain
<1>2. ASSUME NEW l \in Script, l \notin todo PROVE l \notin todo' /\ by'[l] = by[l]
  BY <1>0, <1>2, DatesKept
<1>3. Quiet' => Quiet
  BY <1>0, HistoryStays
<1>4. ASSUME NEW l \in issues'
      PROVE  l \notin todo' /\ (Quiet' => by'[l] = iiTurnID')
  <2>1. ASSUME l \in issues, iiTurnID' = iiTurnID
        PROVE  l \notin todo' /\ (Quiet' => by'[l] = iiTurnID')
    BY <1>0, <1>1, <1>2, <1>3, <2>1 DEF Collected
  <2>2. ASSUME NEW i \in Follows, FollowProcess(i), ~(UNCHANGED accVars)
        PROVE  l \notin todo' /\ (Quiet' => by'[l] = iiTurnID')
    <3>1. /\ fol[i].bytes = 2 /\ iiTurnID' = fol[i].turn /\ fol[i].pc = "process"
          /\ fol[i].turn = iiTurnID => issues' = issues \cup {fol[i].line}
          /\ fol[i].turn # iiTurnID => issues' = {fol[i].line}
      BY <1>0, <2>2, Accumulates, ProcessFields
    <3>2. CASE l = fol[i].line
      <4>1. l \in Script /\ l \notin todo
        BY <1>0, <3>1, <3>2, WorkWritten
      <4>2. Quiet => by[l] = fol[i].turn
        BY <1>0, <3>1, <3>2 DEF OnTurn
      <4> QED BY <1>2, <1>3, <3>1, <4>1, <4>2
    <3>3. CASE l # fol[i].line
      BY <2>1, <3>1, <3>3
    <3> QED BY <3>2, <3>3
  <2>3. ASSUME NEW t \in Turns, DrainInternalIssues(t), ~(UNCHANGED accVars) PROVE FALSE
    BY <2>3 DEF DrainInternalIssues
  <2> QED BY <1>0, <2>1, <2>2, <2>3, AccMoves DEF accVars
<1>5. ASSUME NEW t \in Turns, NEW l \in drain'[t].got
      PROVE  l \notin todo' /\ (Quiet' => by'[l] = t)
  <2>1. CASE drain'[t].got = drain[t].got
    BY <1>0, <1>1, <1>2, <1>3, <1>5, <2>1 DEF Collected, OwnReports, Quiet
  <2>2. CASE drain'[t].got = IF iiTurnID = t THEN issues ELSE {}
    BY <1>0, <1>1, <1>2, <1>3, <1>5, <2>2 DEF Collected
  <2> QED BY <1>0, <2>1, <2>2, GotOf
<1>6. Collected'
  BY <1>4, <1>5 DEF Collected
<1>7. OwnReports'
  BY <1>5 DEF OwnReports, Quiet
<1> QED BY <1>6, <1>7

\* OwnReports: as long as every drain caught up before the next turn was
\* submitted, no file was read twice and followers did not overlap,
\* DrainInternalIssues delivers a report with the turn that wrote it, although
\* it is booked on the turn current at its reading.
THEOREM ReportsAreOwn == Spec => []OwnReports
<1>1. Init => OwnInv
  BY OwnInit
<1>2. OwnInv /\ [Next]_vars => OwnInv'
  <2> SUFFICES ASSUME OwnInv, [Next]_vars PROVE OwnInv'
    OBVIOUS
  <2>1. DeliverInv'
    BY OwnParts, DeliverStep
  <2>2. PathKnown' /\ SeenFirst' /\ InTime' /\ Waiting' /\ Unread'
    BY PathKnownStep, SeenFirstStep, InTimeStep, WaitingStep, UnreadStep
  <2>3. NoneSettled' /\ OnTurn' /\ Collected' /\ OwnReports'
    BY NoneSettledStep, OnTurnStep, CollectedStep
  <2> QED BY <2>1, <2>2, <2>3 DEF OwnInv
<1>3. OwnInv => OwnReports
  BY DEF OwnInv
<1> QED BY <1>1, <1>2, <1>3, PTL DEF Spec
=============================================================================
