----------------------- MODULE FinalizerReportsProofs -----------------------
(***************************************************************************)
(* The reports of the agent (report_internal_issue) reach the operator     *)
(* exactly once: the theorem about Finalizer's hand-over of reports, from  *)
(* the tailer to the finalisers, between finalisers whose callbacks were   *)
(* suppressed, and to the callbacks.  The types of all variables follow.   *)
(***************************************************************************)
EXTENDS FinalizerProofs

\* The part of the types the reports depend on.
ReportTypes ==
  /\ begun \in 0..MaxTurns /\ slot \in 0..MaxTurns
  /\ accTurn \in 0..MaxTurns
  /\ filed \subseteq Turns /\ acc \subseteq Turns /\ lost \subseteq Turns
  /\ heldIssues \subseteq Turns
  /\ fin \in [Turns -> FinPC]
  /\ issues \in [Turns -> SUBSET Turns]
  /\ delivery \in [Turns -> {"none", "posting", "ok", "dropped", "refused"}]

\* The turn in the slot is the last one; it and those to come have no
\* finaliser.
LastTurn ==
  /\ slot # 0 => slot = begun
  /\ \A t \in Turns : t > begun \/ t = slot => fin[t] = "off"

\* A record is empty before the finaliser collects, and a callback goes out
\* at its end.
Collecting ==
  \A t \in Turns :
    /\ fin[t] \in {"off", "ended", "push"} => issues[t] = {}
    /\ delivery[t] # "none" => fin[t] = "done"

\* What is in the accumulator can still be drained.
Undrained ==
  acc # {} => /\ accTurn \in Turns /\ accTurn <= begun
              /\ fin[accTurn] \in {"off", "ended", "push", "drain"}

\* An operator that waits starts no turn before the last one's finaliser has
\* drained the accumulator.
InTurn ==
  OperatorWaits =>
    /\ lost = {}
    /\ \A t \in Turns : t < begun => fin[t] \in {"holdIssues", "holdRepos", "done"}

\* A report that was filed is in one place,
Somewhere ==
  \A x \in Turns :
    x \in filed <=> \/ x \in acc \/ x \in heldIssues \/ x \in lost
                    \/ \E t \in Turns : x \in Carried(t)

\* and in one only.
NowhereElse ==
  \A x \in Turns :
    /\ ~(x \in acc /\ x \in heldIssues)
    /\ ~(x \in acc /\ x \in lost)
    /\ ~(x \in lost /\ x \in heldIssues)
    /\ \A t \in Turns : x \in Carried(t) =>
         /\ x \notin acc /\ x \notin heldIssues /\ x \notin lost
         /\ \A u \in Turns : x \in Carried(u) => u = t

\* The inductive invariant.  That no report is lost rests on the order of
\* things (Undrained, InTurn), that none is told twice on Collecting.
ReportInv ==
  /\ ReportTypes /\ LastTurn /\ Collecting /\ Undrained /\ InTurn
  /\ Somewhere /\ NowhereElse

reportVars == <<begun, slot, accTurn, filed, acc, lost, heldIssues, fin, issues,
                delivery>>

\* What a turn carries is a set of turns.
LEMMA CarriedType ==
  ASSUME ReportTypes PROVE \A t \in Turns : Carried(t) \subseteq Turns
BY DEF ReportTypes, Carried

\* The invariant says what ReportsConserved says.
LEMMA Conserved == ASSUME ReportInv PROVE ReportsConserved
<1>1. \A t \in Turns : Carried(t) \subseteq Turns
  BY CarriedType DEF ReportInv
<1> HIDE DEF Carried
<1>2. filed = acc \union heldIssues \union lost
              \union UNION {Carried(t) : t \in Turns}
  <2>1. \A x : x \in filed => x \in acc \union heldIssues \union lost
                                  \union UNION {Carried(t) : t \in Turns}
    BY DEF ReportInv, ReportTypes, Somewhere
  <2>2. \A x : x \in acc \union heldIssues \union lost
                     \union UNION {Carried(t) : t \in Turns} => x \in filed
    BY <1>1 DEF ReportInv, ReportTypes, Somewhere
  <2> QED BY <2>1, <2>2
<1>3. acc \cap heldIssues = {} /\ lost \cap (acc \union heldIssues) = {}
  BY DEF ReportInv, ReportTypes, NowhereElse
<1>4. \A t \in Turns :
        /\ Carried(t) \cap (acc \union heldIssues \union lost) = {}
        /\ \A u \in Turns \ {t} : Carried(t) \cap Carried(u) = {}
  BY <1>1 DEF ReportInv, NowhereElse
<1>5. OperatorWaits => lost = {}
  BY DEF ReportInv, InTurn
<1> QED BY <1>2, <1>3, <1>4, <1>5 DEF ReportsConserved

\* Nothing the invariant looks at changes.
LEMMA ReportFrame == ASSUME ReportInv, UNCHANGED reportVars PROVE ReportInv'
BY DEF ReportInv, ReportTypes, LastTurn, Collecting, Undrained, InTurn,
       Somewhere, NowhereElse, Carried, reportVars

\* No report moves.
LEMMA NothingMoves ==
  ASSUME Somewhere, NowhereElse, UNCHANGED <<filed, acc, heldIssues, lost>>,
         \A t \in Turns : Carried(t)' = Carried(t)
  PROVE  Somewhere' /\ NowhereElse'
BY DEF Somewhere, NowhereElse

\* Nothing was filed when the wrapper starts.
LEMMA ReportInit == ASSUME Init PROVE ReportInv
<1>1. ReportTypes
  BY FinalizerAssumption DEF FinalizerAssumption, Init, ReportTypes, FinPC
<1>2. LastTurn /\ Collecting /\ Undrained
  BY DEF Init, LastTurn, Collecting, Undrained
<1>3. InTurn
  BY FinalizerAssumption DEF FinalizerAssumption, Init, InTurn, Turns
<1>4. Somewhere /\ NowhereElse
  BY DEF Init, Somewhere, NowhereElse, Carried
<1> QED BY <1>1, <1>2, <1>3, <1>4 DEF ReportInv

----------------------------------------------------------------------------
(* The steps *)

\* A finaliser that goes on, once it was started, keeps the order of turns.
LEMMA OrderKept ==
  ASSUME ReportInv, NEW t \in Turns, NEW pc \in FinPC \ {"off"},
         fin[t] \notin {"off", "done"}, FinGoto(t, pc),
         fin[t] \in {"holdIssues", "holdRepos"} => pc \in {"holdRepos", "done"},
         UNCHANGED <<begun, slot, lost>>
  PROVE  /\ fin' \in [Turns -> FinPC]
         /\ \A u \in Turns : fin'[u] = IF u = t THEN pc ELSE fin[u]
         /\ delivery[t] = "none"
         /\ LastTurn' /\ InTurn'
<1>1. /\ fin' \in [Turns -> FinPC]
      /\ \A u \in Turns : fin'[u] = IF u = t THEN pc ELSE fin[u]
  BY DEF ReportInv, ReportTypes, FinGoto
<1>2. delivery[t] = "none"
  BY DEF ReportInv, Collecting
<1>3. LastTurn'
  BY <1>1 DEF ReportInv, LastTurn
<1>4. InTurn'
  BY <1>1 DEF ReportInv, InTurn
<1> QED BY <1>1, <1>2, <1>3, <1>4

\* A finaliser that moves on after the drain, without touching reports.
LEMMA ReportStays ==
  ASSUME ReportInv, NEW t \in Turns,
         NEW pc \in FinPC \ {"off", "ended", "push", "drain", "holdRepos", "done"},
         fin[t] \in {"repos", "scan", "reprompt"}, FinGoto(t, pc),
         UNCHANGED <<begun, slot, accTurn, filed, acc, lost, heldIssues,
                     issues, delivery>>
  PROVE  ReportInv'
<1>1. /\ fin' \in [Turns -> FinPC]
      /\ \A u \in Turns : fin'[u] = IF u = t THEN pc ELSE fin[u]
      /\ delivery[t] = "none" /\ LastTurn' /\ InTurn'
  BY OrderKept
<1>2. ReportTypes'
  BY <1>1 DEF ReportInv, ReportTypes
<1>3. Collecting' /\ Undrained'
  BY <1>1 DEF ReportInv, Collecting, Undrained
<1>4. \A u \in Turns : Carried(u)' = Carried(u)
  BY <1>1 DEF Carried
<1>5. Somewhere' /\ NowhereElse'
  BY <1>4, NothingMoves DEF ReportInv
<1> QED BY <1>1, <1>2, <1>3, <1>5 DEF ReportInv

\* The session takes the operator's next turn.
LEMMA OperatorSubmitKeeps == ASSUME ReportInv, OperatorSubmit PROVE ReportInv'
<1> USE FinalizerAssumption DEF FinalizerAssumption
<1>1. /\ slot = 0 /\ begun < MaxTurns /\ begun' = begun + 1 /\ slot' = begun + 1
      /\ UNCHANGED <<accTurn, filed, acc, lost, heldIssues, fin, issues, delivery>>
      /\ OperatorWaits /\ begun > 0 => delivery[begun] = "ok"
  BY DEF OperatorSubmit, Accept, agentVars, recVars, heldVars, sendVars
<1>2. begun \in 0..MaxTurns
  BY DEF ReportInv, ReportTypes
<1>3. ReportTypes'
  BY <1>1, <1>2 DEF ReportInv, ReportTypes
<1>4. LastTurn'
  BY <1>1, <1>2 DEF ReportInv, LastTurn, Turns
<1>5. Collecting' /\ Undrained'
  BY <1>1, <1>2 DEF ReportInv, Collecting, Undrained, Turns
<1>6. InTurn'
  <2>1. SUFFICES ASSUME OperatorWaits, NEW t \in Turns, t < begun + 1
                 PROVE  fin[t] \in {"holdIssues", "holdRepos", "done"}
    BY <1>1 DEF ReportInv, InTurn
  <2>2. CASE t < begun
    BY <2>1, <2>2 DEF ReportInv, InTurn
  <2>3. CASE t = begun
    BY <1>1, <2>1, <2>3 DEF ReportInv, Collecting, Turns
  <2> QED BY <1>2, <2>1, <2>2, <2>3 DEF Turns
<1>7. \A u \in Turns : Carried(u)' = Carried(u)
  BY <1>1 DEF Carried
<1>8. Somewhere' /\ NowhereElse'
  BY <1>1, <1>7, NothingMoves DEF ReportInv
<1> QED BY <1>3, <1>4, <1>5, <1>6, <1>8 DEF ReportInv

\* The agent files a report.
LEMMA AgentReportKeeps == ASSUME ReportInv, AgentReport PROVE ReportInv'
<1> USE FinalizerAssumption DEF FinalizerAssumption
<1>1. /\ slot # 0 /\ slot \notin filed /\ filed' = filed \union {slot}
      /\ acc' = {slot} \union (IF accTurn = slot THEN acc ELSE {})
      /\ accTurn' = slot
      /\ lost' = IF accTurn = slot THEN lost ELSE lost \union acc
      /\ UNCHANGED <<begun, slot, heldIssues, fin, issues, delivery>>
  BY DEF AgentReport, Working, sessionVars, recVars, heldVars, sendVars
<1>2. slot \in Turns /\ slot = begun /\ fin[slot] = "off"
  BY <1>1 DEF ReportInv, ReportTypes, LastTurn, Turns
<1>3. ReportTypes'
  BY <1>1, <1>2 DEF ReportInv, ReportTypes
<1>4. LastTurn' /\ Collecting'
  BY <1>1 DEF ReportInv, LastTurn, Collecting
<1>5. Undrained'
  BY <1>1, <1>2 DEF Undrained, Turns
<1>6. InTurn'
  <2>1. SUFFICES ASSUME OperatorWaits PROVE lost' = {}
    BY <1>1 DEF ReportInv, InTurn
  <2>2. CASE accTurn = slot
    BY <1>1, <2>1, <2>2 DEF ReportInv, InTurn
  <2>3. CASE accTurn # slot
    <3>1. acc = {}
      <4>1. SUFFICES ASSUME acc # {} PROVE FALSE
        OBVIOUS
      <4>2. accTurn \in Turns /\ accTurn < begun
        BY <4>1, <1>2, <2>3 DEF ReportInv, Undrained, Turns
      <4>3. fin[accTurn] \in {"off", "ended", "push", "drain"}
        BY <4>1 DEF ReportInv, Undrained
      <4>4. fin[accTurn] \in {"holdIssues", "holdRepos", "done"}
        BY <2>1, <4>2 DEF ReportInv, InTurn
      <4> QED BY <4>3, <4>4
    <3> QED BY <1>1, <2>1, <2>3, <3>1 DEF ReportInv, InTurn
  <2> QED BY <2>2, <2>3
<1>7. \A u \in Turns : Carried(u)' = Carried(u)
  BY <1>1 DEF Carried
<1> HIDE DEF Carried
<1>8. Somewhere'
  BY <1>1, <1>2, <1>7 DEF ReportInv, Somewhere
<1>9. /\ slot \notin acc /\ slot \notin heldIssues /\ slot \notin lost
      /\ \A t \in Turns : slot \notin Carried(t)
  BY <1>1, <1>2 DEF ReportInv, Somewhere
<1>10. NowhereElse'
  BY <1>1, <1>2, <1>7, <1>9 DEF ReportInv, NowhereElse
<1> QED BY <1>3, <1>4, <1>5, <1>6, <1>8, <1>10 DEF ReportInv

\* A turn ends, before anything was collected for it.
LEMMA TurnEndKeeps == ASSUME ReportInv, TurnEnd PROVE ReportInv'
<1>1. /\ slot # 0 /\ fin' = [fin EXCEPT ![slot] = "ended"] /\ slot' = 0
      /\ UNCHANGED <<begun, accTurn, filed, acc, lost, heldIssues, issues, delivery>>
  BY DEF TurnEnd, Working, agentVars, recVars, heldVars, sendVars
<1>2. slot \in Turns /\ slot = begun /\ fin[slot] = "off" /\ delivery[slot] = "none"
  BY <1>1 DEF ReportInv, ReportTypes, LastTurn, Collecting, Turns
<1>3. /\ fin' \in [Turns -> FinPC]
      /\ \A u \in Turns : fin'[u] = IF u = slot THEN "ended" ELSE fin[u]
  BY <1>1, <1>2 DEF ReportInv, ReportTypes, FinPC
<1>4. ReportTypes'
  BY <1>1, <1>3, FinalizerAssumption DEF FinalizerAssumption, ReportInv, ReportTypes
<1>5. LastTurn'
  BY <1>1, <1>2, <1>3 DEF ReportInv, LastTurn, Turns
<1>6. Collecting' /\ Undrained'
  BY <1>1, <1>2, <1>3 DEF ReportInv, Collecting, Undrained
<1>7. InTurn'
  BY <1>1, <1>2, <1>3 DEF ReportInv, InTurn, Turns
<1>8. \A u \in Turns : Carried(u)' = Carried(u)
  BY <1>1, <1>2, <1>3 DEF Carried
<1>9. Somewhere' /\ NowhereElse'
  BY <1>1, <1>8, NothingMoves DEF ReportInv
<1> QED BY <1>4, <1>5, <1>6, <1>7, <1>9 DEF ReportInv

\* The finaliser starts with an empty record.
LEMMA OnTurnDoneKeeps ==
  ASSUME ReportInv, NEW t \in Turns, OnTurnDone(t) PROVE ReportInv'
<1>1. /\ fin[t] = "ended" /\ FinGoto(t, "push")
      /\ UNCHANGED <<begun, slot, accTurn, filed, acc, lost, heldIssues, issues,
                     delivery>>
  BY DEF OnTurnDone, FinGoto, sessionVars, agentVars, recVars, heldVars, sendVars
<1>2. /\ fin' \in [Turns -> FinPC]
      /\ \A u \in Turns : fin'[u] = IF u = t THEN "push" ELSE fin[u]
      /\ delivery[t] = "none" /\ LastTurn' /\ InTurn'
  BY <1>1, OrderKept DEF FinPC
<1>3. ReportTypes'
  BY <1>1, <1>2 DEF ReportInv, ReportTypes
<1>4. Collecting' /\ Undrained'
  BY <1>1, <1>2 DEF ReportInv, Collecting, Undrained
<1>5. \A u \in Turns : Carried(u)' = Carried(u)
  BY <1>1, <1>2 DEF ReportInv, Collecting, Carried
<1>6. Somewhere' /\ NowhereElse'
  BY <1>1, <1>5, NothingMoves DEF ReportInv
<1> QED BY <1>2, <1>3, <1>4, <1>6 DEF ReportInv

\* takePendingInternalIssues moves what is held into the record.
LEMMA FinTakeIssuesKeeps ==
  ASSUME ReportInv, NEW t \in Turns, FinTakeIssues(t) PROVE ReportInv'
<1>1. /\ fin[t] = "push" /\ FinGoto(t, "drain")
      /\ issues' = [issues EXCEPT ![t] = heldIssues] /\ heldIssues' = {}
      /\ UNCHANGED <<begun, slot, accTurn, filed, acc, lost, delivery>>
  BY DEF FinTakeIssues, sessionVars, agentVars, sendVars
<1>2. /\ fin' \in [Turns -> FinPC]
      /\ \A u \in Turns : fin'[u] = IF u = t THEN "drain" ELSE fin[u]
      /\ delivery[t] = "none" /\ LastTurn' /\ InTurn'
  BY <1>1, OrderKept DEF FinPC
<1>3. /\ issues' \in [Turns -> SUBSET Turns]
      /\ \A u \in Turns : issues'[u] = IF u = t THEN heldIssues ELSE issues[u]
  BY <1>1 DEF ReportInv, ReportTypes
<1>4. ReportTypes'
  BY <1>1, <1>2, <1>3 DEF ReportInv, ReportTypes
<1>5. Collecting' /\ Undrained'
  BY <1>1, <1>2, <1>3 DEF ReportInv, Collecting, Undrained
<1>6. /\ Carried(t) = {}
      /\ \A u \in Turns : Carried(u)' = IF u = t THEN heldIssues ELSE Carried(u)
  BY <1>1, <1>2, <1>3 DEF ReportInv, Collecting, Carried
<1> HIDE DEF Carried
<1>7. Somewhere'
  BY <1>1, <1>6 DEF ReportInv, Somewhere
<1>8. NowhereElse'
  BY <1>1, <1>6 DEF ReportInv, NowhereElse
<1> QED BY <1>2, <1>4, <1>5, <1>7, <1>8 DEF ReportInv

\* DrainInternalIssues moves the accumulator into the record.
LEMMA FinDrainIssuesKeeps ==
  ASSUME ReportInv, NEW t \in Turns, FinDrainIssues(t) PROVE ReportInv'
<1>1. /\ fin[t] = "drain" /\ FinGoto(t, "repos")
      /\ UNCHANGED <<begun, slot, filed, lost, heldIssues, delivery>>
  BY DEF FinDrainIssues, sessionVars, heldVars, sendVars
<1>2. /\ fin' \in [Turns -> FinPC]
      /\ \A u \in Turns : fin'[u] = IF u = t THEN "repos" ELSE fin[u]
      /\ delivery[t] = "none" /\ LastTurn' /\ InTurn'
  BY <1>1, OrderKept DEF FinPC
<1>3. CASE accTurn # t
  <2>1. UNCHANGED <<issues, acc, accTurn>>
    BY <1>3 DEF FinDrainIssues
  <2>2. ReportTypes' /\ Collecting' /\ Undrained'
    BY <1>1, <1>2, <1>3, <2>1 DEF ReportInv, ReportTypes, Collecting, Undrained
  <2>3. \A u \in Turns : Carried(u)' = Carried(u)
    BY <1>1, <1>2, <2>1 DEF Carried
  <2>4. Somewhere' /\ NowhereElse'
    BY <1>1, <2>1, <2>3, NothingMoves DEF ReportInv
  <2> QED BY <1>2, <2>2, <2>4 DEF ReportInv
<1>4. CASE accTurn = t
  <2>1. /\ issues' = [issues EXCEPT ![t] = @ \union acc]
        /\ acc' = {} /\ accTurn' = 0
    BY <1>4 DEF FinDrainIssues
  <2>2. /\ issues' \in [Turns -> SUBSET Turns]
        /\ \A u \in Turns :
             issues'[u] = IF u = t THEN issues[t] \union acc ELSE issues[u]
    BY <2>1 DEF ReportInv, ReportTypes
  <2>3. ReportTypes'
    BY <1>1, <1>2, <2>1, <2>2, FinalizerAssumption
    DEF FinalizerAssumption, ReportInv, ReportTypes
  <2>4. Collecting' /\ Undrained'
    BY <1>1, <1>2, <2>1, <2>2 DEF ReportInv, Collecting, Undrained
  <2>5. \A u \in Turns :
          Carried(u)' = IF u = t THEN Carried(t) \union acc ELSE Carried(u)
    BY <1>1, <1>2, <2>2 DEF Carried
  <2> HIDE DEF Carried
  <2>6. Somewhere'
    BY <1>1, <2>1, <2>5 DEF ReportInv, Somewhere
  <2>7. NowhereElse'
    BY <1>1, <2>1, <2>5 DEF ReportInv, NowhereElse
  <2> QED BY <1>2, <2>3, <2>4, <2>6, <2>7 DEF ReportInv
<1> QED BY <1>3, <1>4

\* A re-prompt is submitted, or given up.
LEMMA FinSubmitKeeps ==
  ASSUME ReportInv, NEW t \in Turns, FinSubmit(t) PROVE ReportInv'
<1> USE FinalizerAssumption DEF FinalizerAssumption
<1>1. /\ fin[t] = "submit"
      /\ UNCHANGED <<accTurn, filed, acc, lost, heldIssues, issues, delivery>>
  BY DEF FinSubmit, agentVars, recVars, heldVars, sendVars
<1>2. delivery[t] = "none" /\ begun \in 0..MaxTurns
  BY <1>1 DEF ReportInv, ReportTypes, Collecting
<1>3. PICK pc \in {"holdIssues", "deliver"} :
        /\ FinGoto(t, pc)
        /\ \/ pc = "deliver" /\ UNCHANGED <<begun, slot>>
           \/ /\ pc = "holdIssues" /\ slot = 0 /\ begun < MaxTurns
              /\ begun' = begun + 1 /\ slot' = begun + 1
  BY DEF FinSubmit, Accept, sessionVars
<1>4. /\ fin' \in [Turns -> FinPC]
      /\ \A u \in Turns : fin'[u] = IF u = t THEN pc ELSE fin[u]
  BY <1>3 DEF ReportInv, ReportTypes, FinGoto, FinPC
<1>5. t <= begun
  BY <1>1, <1>2 DEF ReportInv, LastTurn, Turns
<1>6. ReportTypes'
  BY <1>1, <1>2, <1>3, <1>4 DEF ReportInv, ReportTypes
<1>7. LastTurn'
  BY <1>1, <1>2, <1>3, <1>4, <1>5 DEF ReportInv, LastTurn, Turns
<1>8. Collecting' /\ Undrained'
  BY <1>1, <1>2, <1>3, <1>4 DEF ReportInv, Collecting, Undrained, Turns
<1>9. InTurn'
  <2>1. SUFFICES ASSUME OperatorWaits
                 PROVE  \A u \in Turns : u < begun' =>
                          fin'[u] \in {"holdIssues", "holdRepos", "done"}
    BY <1>1 DEF ReportInv, InTurn
  <2>2. t = begun
    BY <1>1, <1>2, <1>5, <2>1 DEF ReportInv, InTurn, Turns
  <2> QED BY <1>2, <1>3, <1>4, <2>1, <2>2 DEF ReportInv, InTurn, Turns
<1>10. \A u \in Turns : Carried(u)' = Carried(u)
  BY <1>1, <1>3, <1>4 DEF Carried
<1>11. Somewhere' /\ NowhereElse'
  BY <1>1, <1>10, NothingMoves DEF ReportInv
<1> QED BY <1>6, <1>7, <1>8, <1>9, <1>11 DEF ReportInv

\* holdInternalIssues moves the record's reports to those held.
LEMMA FinHoldIssuesKeeps ==
  ASSUME ReportInv, NEW t \in Turns, FinHoldIssues(t) PROVE ReportInv'
<1>1. /\ fin[t] = "holdIssues" /\ FinGoto(t, "holdRepos")
      /\ heldIssues' = heldIssues \union issues[t]
      /\ UNCHANGED <<begun, slot, accTurn, filed, acc, lost, issues, delivery>>
  BY DEF FinHoldIssues, HoldWith, sessionVars, agentVars, recVars, sendVars
<1>2. /\ fin' \in [Turns -> FinPC]
      /\ \A u \in Turns : fin'[u] = IF u = t THEN "holdRepos" ELSE fin[u]
      /\ delivery[t] = "none" /\ LastTurn' /\ InTurn'
  BY <1>1, OrderKept DEF FinPC
<1>3. ReportTypes'
  BY <1>1, <1>2 DEF ReportInv, ReportTypes
<1>4. Collecting' /\ Undrained'
  BY <1>1, <1>2 DEF ReportInv, Collecting, Undrained
<1>5. /\ Carried(t) = issues[t]
      /\ \A u \in Turns : Carried(u)' = IF u = t THEN {} ELSE Carried(u)
  BY <1>1, <1>2 DEF Carried
<1> HIDE DEF Carried
<1>6. Somewhere'
  BY <1>1, <1>5 DEF ReportInv, Somewhere
<1>7. NowhereElse'
  BY <1>1, <1>5 DEF ReportInv, NowhereElse
<1> QED BY <1>2, <1>3, <1>4, <1>6, <1>7 DEF ReportInv

\* The finaliser of a suppressed turn ends.
LEMMA FinHoldReposKeeps ==
  ASSUME ReportInv, NEW t \in Turns, FinHoldRepos(t) PROVE ReportInv'
<1>1. /\ fin[t] = "holdRepos" /\ FinGoto(t, "done")
      /\ UNCHANGED <<begun, slot, accTurn, filed, acc, lost, heldIssues, issues,
                     delivery>>
  BY DEF FinHoldRepos, sessionVars, agentVars, sendVars
<1>2. /\ fin' \in [Turns -> FinPC]
      /\ \A u \in Turns : fin'[u] = IF u = t THEN "done" ELSE fin[u]
      /\ delivery[t] = "none" /\ LastTurn' /\ InTurn'
  BY <1>1, OrderKept DEF FinPC
<1>3. ReportTypes' /\ Collecting' /\ Undrained'
  BY <1>1, <1>2 DEF ReportInv, ReportTypes, Collecting, Undrained
<1>4. \A u \in Turns : Carried(u)' = Carried(u)
  BY <1>1, <1>2 DEF Carried
<1>5. Somewhere' /\ NowhereElse'
  BY <1>1, <1>4, NothingMoves DEF ReportInv
<1> QED BY <1>2, <1>3, <1>5 DEF ReportInv

\* The record goes into a callback, or is refused with it.
LEMMA FinDeliverKeeps ==
  ASSUME ReportInv, NEW t \in Turns, FinDeliver(t) PROVE ReportInv'
<1>1. PICK d \in {"refused", "posting"} :
        /\ fin[t] = "deliver" /\ FinGoto(t, "done")
        /\ delivery' = [delivery EXCEPT ![t] = d]
        /\ UNCHANGED <<begun, slot, accTurn, filed, acc, lost, heldIssues, issues>>
  BY DEF FinDeliver, sessionVars, agentVars, heldVars
<1>2. /\ fin' \in [Turns -> FinPC]
      /\ \A u \in Turns : fin'[u] = IF u = t THEN "done" ELSE fin[u]
      /\ LastTurn' /\ InTurn'
  BY <1>1, OrderKept DEF FinPC
<1>3. \A u \in Turns : delivery'[u] = IF u = t THEN d ELSE delivery[u]
  BY <1>1 DEF ReportInv, ReportTypes
<1>4. ReportTypes'
  BY <1>1, <1>2 DEF ReportInv, ReportTypes
<1>5. Collecting' /\ Undrained'
  BY <1>1, <1>2, <1>3 DEF ReportInv, Collecting, Undrained
<1>6. \A u \in Turns : Carried(u)' = Carried(u)
  BY <1>1, <1>2, <1>3 DEF Carried
<1>7. Somewhere' /\ NowhereElse'
  BY <1>1, <1>6, NothingMoves DEF ReportInv
<1> QED BY <1>2, <1>4, <1>5, <1>7 DEF ReportInv

\* A delivery is settled.
LEMMA SettleKeeps ==
  ASSUME ReportInv, NEW t \in Turns, NEW o \in {"ok", "dropped"}, Settle(t, o)
  PROVE  ReportInv'
<1>1. /\ delivery[t] = "posting" /\ delivery' = [delivery EXCEPT ![t] = o]
      /\ UNCHANGED <<begun, slot, accTurn, filed, acc, lost, heldIssues, fin,
                     issues>>
  BY DEF Settle, sessionVars, agentVars, recVars, heldVars
<1>2. \A u \in Turns : delivery'[u] = IF u = t THEN o ELSE delivery[u]
  BY <1>1 DEF ReportInv, ReportTypes
<1>3. ReportTypes' /\ LastTurn' /\ Collecting' /\ Undrained' /\ InTurn'
  BY <1>1, <1>2 DEF ReportInv, ReportTypes, LastTurn, Collecting, Undrained, InTurn
<1>4. \A u \in Turns : Carried(u)' = Carried(u)
  BY <1>1, <1>2 DEF Carried
<1>5. Somewhere' /\ NowhereElse'
  BY <1>1, <1>4, NothingMoves DEF ReportInv
<1> QED BY <1>3, <1>5 DEF ReportInv

\* The actions that touch no report and no turn.
ReportIdle ==
  \/ AgentOutcome \/ SafetyTick
  \/ \E r \in Repos : \/ AgentEdit(r) \/ AgentBuild(r) \/ AgentCommit(r) \/ SafetyPush(r)
  \/ \E t \in Turns : PostRetry(t) \/ \E r \in Repos : FinPush(t, r)
  \/ ShutdownBegin \/ ShutdownStep

\* They leave the reports alone.
LEMMA ReportIdleFrame == ASSUME ReportIdle PROVE UNCHANGED reportVars
<1> USE DEF reportVars, sessionVars, agentVars, recVars, heldVars, sendVars
<1>1. CASE AgentOutcome \/ SafetyTick
  BY <1>1 DEF AgentOutcome, SafetyTick
<1>2. ASSUME NEW r \in Repos,
             AgentEdit(r) \/ AgentBuild(r) \/ AgentCommit(r) \/ SafetyPush(r)
      PROVE  UNCHANGED reportVars
  BY <1>2 DEF AgentEdit, AgentBuild, AgentCommit, SafetyPush
<1>3. ASSUME NEW t \in Turns, PostRetry(t) \/ \E r \in Repos : FinPush(t, r)
      PROVE  UNCHANGED reportVars
  BY <1>3 DEF PostRetry, FinPush
<1>4. CASE ShutdownBegin \/ ShutdownStep
  BY <1>4 DEF ShutdownBegin, ShutdownStep, ShutdownSafety, ShutdownSession,
       ShutdownDrain, SenderClose, SenderCancel, SenderDone, ShutVars
<1> QED BY <1>1, <1>2, <1>3, <1>4 DEF ReportIdle

\* Every step keeps the invariant.
LEMMA ReportStep == ASSUME ReportInv, [Next]_vars PROVE ReportInv'
<1>1. CASE UNCHANGED vars
  BY <1>1, ReportFrame
  DEF vars, reportVars, sessionVars, agentVars, recVars, heldVars, sendVars
<1>2. CASE ReportIdle
  BY <1>2, ReportIdleFrame, ReportFrame
<1>3. CASE OperatorSubmit \/ AgentReport \/ TurnEnd
  BY <1>3, OperatorSubmitKeeps, AgentReportKeeps, TurnEndKeeps
<1>4. ASSUME NEW t \in Turns, OnTurnDone(t) \/ FinTakeIssues(t)
               \/ FinDrainIssues(t) \/ FinSubmit(t) \/ FinHoldIssues(t)
               \/ FinHoldRepos(t) \/ FinDeliver(t)
      PROVE  ReportInv'
  BY <1>4, OnTurnDoneKeeps, FinTakeIssuesKeeps, FinDrainIssuesKeeps,
     FinSubmitKeeps, FinHoldIssuesKeeps, FinHoldReposKeeps, FinDeliverKeeps
<1>5. ASSUME NEW t \in Turns, FinTakeRepos(t) \/ FinScan(t) \/ FinReprompt(t)
      PROVE  ReportInv'
  <2>1. PICK pc \in {"scan", "reprompt", "deliver", "submit"} : FinGoto(t, pc)
    BY <1>5 DEF FinTakeRepos, FinScan, FinReprompt
  <2>2. /\ fin[t] \in {"repos", "scan", "reprompt"}
        /\ UNCHANGED <<begun, slot, accTurn, filed, acc, lost, heldIssues,
                       issues, delivery>>
    BY <1>5 DEF FinTakeRepos, FinScan, FinReprompt, sessionVars, agentVars,
         recVars, heldVars, sendVars
  <2> QED BY <2>1, <2>2, ReportStays DEF FinPC
<1>6. ASSUME NEW t \in Turns, PostOK(t) \/ PostDropped(t) PROVE ReportInv'
  BY <1>6, SettleKeeps DEF PostOK, PostDropped
<1> QED BY <1>1, <1>2, <1>3, <1>4, <1>5, <1>6
        DEF Next, FinStep, PostStep, ReportIdle

\* The invariant holds in every reachable state.
LEMMA ReportInvariance == Spec => []ReportInv
<1>1. Init => ReportInv
  BY ReportInit
<1>2. ReportInv /\ [Next]_vars => ReportInv'
  BY ReportStep
<1> QED BY <1>1, <1>2, PTL DEF Spec

\* However finalisers overlap, whatever callbacks re-prompts suppress and
\* wherever shutdown cuts in, a report the agent filed is in exactly one of
\* the accumulator, a live record, the held reports and a callback; an
\* operator that waits for its callbacks makes the tailer drop none.
THEOREM ReportsKept == Spec => []ReportsConserved
<1>1. ReportInv => ReportsConserved
  BY Conserved
<1> QED BY <1>1, ReportInvariance, PTL

----------------------------------------------------------------------------
(* The type invariant *)

\* What the invariants above leave of it.
Flags == rejected \in BOOLEAN /\ senderCancelled \in BOOLEAN
RestTypes ==
  /\ ahead \in [Repos -> 0..MaxTurns] /\ safety \subseteq Repos
  /\ oversized \in [Repos -> 0..MaxTurns]
  /\ attempt \in [Turns -> 0..Retries] /\ late \subseteq Turns
  /\ app \in {"up", "stopping", "noSafety", "noSession", "drained", "closing", "down"}

\* The flags stay flags.
LEMMA FlagsStep == ASSUME Flags, [Next]_vars PROVE Flags'
<1>1. CASE AgentOutcome
  BY <1>1, Zenon DEF Flags, AgentOutcome, sendVars
<1>2. CASE SenderCancel \/ SenderDone
  BY <1>2, Zenon DEF Flags, SenderCancel, SenderDone, ShutVars, agentVars
<1>3. CASE \/ OperatorSubmit \/ AgentReport \/ TurnEnd \/ SafetyTick \/ ShutdownBegin
           \/ ShutdownSafety \/ ShutdownSession \/ ShutdownDrain \/ SenderClose
           \/ \E r \in Repos : \/ AgentEdit(r) \/ AgentBuild(r)
                               \/ AgentCommit(r) \/ SafetyPush(r)
           \/ \E t \in Turns : FinStep(t) \/ PostStep(t)
           \/ UNCHANGED vars
  <2>1. UNCHANGED <<rejected, senderCancelled>>
    BY <1>3 DEF OperatorSubmit, AgentReport, TurnEnd, SafetyTick, ShutdownBegin,
       ShutdownSafety, ShutdownSession, ShutdownDrain, SenderClose, ShutVars, AgentEdit,
       AgentBuild, AgentCommit, SafetyPush, FinStep, OnTurnDone, FinPush, FinTakeIssues,
       FinDrainIssues, FinTakeRepos, FinScan, FinReprompt, FinSubmit, FinHoldIssues,
       FinHoldRepos, FinDeliver, PostStep, PostOK, PostDropped, PostRetry, Settle, vars, agentVars, sendVars
  <2> QED BY <2>1 DEF Flags
<1> QED BY <1>1, <1>2, <1>3 DEF Next, ShutdownStep

\* Only a few steps touch the rest.
LEMMA RestStep == ASSUME PushTypes, RestTypes, [Next]_vars PROVE RestTypes'
<1>1. ASSUME NEW r \in Repos, SafetyPush(r) PROVE RestTypes'
  BY <1>1, FinalizerAssumption
  DEF FinalizerAssumption, SafetyPush, RestTypes, sendVars, appVars
<1>2. ASSUME NEW r \in Repos, NEW big \in 0..MaxTurns, NEW onOrigin \in BOOLEAN,
             Committed(r, big, onOrigin)
      PROVE  /\ ahead' \in [Repos -> 0..MaxTurns] /\ safety' \subseteq Repos
             /\ oversized' \in [Repos -> 0..MaxTurns]
  <2>1. dirty[r] \in 0..MaxTurns /\ 0 \in 0..MaxTurns
    BY FinalizerAssumption DEF FinalizerAssumption, PushTypes
  <2>2. Later(dirty[r], big) \in 0..MaxTurns
    BY <2>1 DEF Later
  <2> QED BY <1>2, <2>1, <2>2 DEF Committed, RestTypes
<1>3. ASSUME NEW r \in Repos, AgentCommit(r) PROVE RestTypes'
  <2>1. UNCHANGED <<attempt, late, app>>
    BY <1>3 DEF AgentCommit, sendVars, appVars
  <2> QED BY <1>2, <1>3, <2>1 DEF AgentCommit, RestTypes
<1>4. ASSUME NEW t \in Turns, NEW r \in Repos, FinPush(t, r) PROVE RestTypes'
  <2>1. UNCHANGED <<attempt, late, app>>
    BY <1>4 DEF FinPush, sendVars, appVars
  <2>2. CASE UNCHANGED gitVars
    BY <2>1, <2>2 DEF gitVars, RestTypes
  <2>3. CASE ~UNCHANGED gitVars
    <3>1. PICK big \in 0..MaxTurns :
               Committed(r, big, TRUE) \/ Committed(r, big, FALSE)
      BY <1>4, <2>3 DEF FinPush, PushNothing, PushFails, PushSucceeds
    <3> QED BY <1>2, <2>1, <3>1 DEF RestTypes
  <2> QED BY <2>2, <2>3
<1>5. ASSUME NEW t \in Turns, OnTurnDone(t) PROVE RestTypes'
  BY <1>5 DEF OnTurnDone, RestTypes, gitVars, sendVars
<1>6. ASSUME NEW t \in Turns, PostRetry(t) PROVE RestTypes'
  <2>1. attempt[t] + 1 \in 0..Retries
    BY <1>6, FinalizerAssumption DEF FinalizerAssumption, PostRetry, RestTypes
  <2> QED BY <1>6, <2>1 DEF PostRetry, RestTypes, gitVars, appVars
<1>7. CASE SafetyTick
  BY <1>7 DEF SafetyTick, RestTypes, sendVars, appVars
<1>8. ASSUME NEW r \in Repos, AgentBuild(r) PROVE RestTypes'
  BY <1>8 DEF AgentBuild, RestTypes, PushTypes, sendVars, appVars
<1>9. CASE ShutdownBegin \/ ShutdownStep
  <2>1. UNCHANGED <<ahead, oversized, safety, attempt, late>>
    BY <1>9 DEF ShutdownBegin, ShutdownStep, ShutdownSafety, ShutdownSession, ShutdownDrain,
       SenderClose, SenderCancel, SenderDone, ShutVars, gitVars, appVars
  <2>2. app' \in {app, "stopping", "noSafety", "noSession", "drained", "closing", "down"}
    BY <1>9 DEF ShutdownBegin, ShutdownStep, ShutdownSafety, ShutdownSession, ShutdownDrain,
       SenderClose, SenderCancel, SenderDone, appVars
  <2> QED BY <2>1, <2>2 DEF RestTypes
<1>10. CASE \/ OperatorSubmit \/ AgentReport \/ AgentOutcome \/ TurnEnd
            \/ \E r \in Repos : AgentEdit(r)
            \/ \E t \in Turns : \/ FinTakeIssues(t) \/ FinDrainIssues(t) \/ FinTakeRepos(t)
                                \/ FinScan(t) \/ FinReprompt(t) \/ FinSubmit(t)
                                \/ FinHoldIssues(t) \/ FinHoldRepos(t) \/ FinDeliver(t)
                                \/ PostOK(t) \/ PostDropped(t)
            \/ UNCHANGED vars
  <2>1. UNCHANGED <<ahead, oversized, safety, attempt, late, app>>
    BY <1>10 DEF OperatorSubmit, AgentReport, AgentOutcome, TurnEnd, AgentEdit, FinTakeIssues,
       FinDrainIssues, FinTakeRepos, FinScan, FinReprompt, FinSubmit, FinHoldIssues,
       FinHoldRepos, FinDeliver, PostOK, PostDropped, Settle, vars, gitVars, sendVars, appVars
  <2> QED BY <2>1 DEF RestTypes
<1>11. ASSUME NEW r \in Repos,
              AgentEdit(r) \/ AgentBuild(r) \/ AgentCommit(r) \/ SafetyPush(r)
       PROVE  RestTypes'
  BY <1>1, <1>3, <1>8, <1>10, <1>11
<1>12. ASSUME NEW t \in Turns, FinStep(t) \/ PostStep(t) PROVE RestTypes'
  BY <1>4, <1>5, <1>6, <1>10, <1>12 DEF FinStep, PostStep
<1> QED BY <1>7, <1>9, <1>10, <1>11, <1>12 DEF Next

\* The type invariant of the finalisers, the webhook sender and the shutdown
\* (cmd/wrapper), the bounds on re-prompts and on POST attempts included.
THEOREM TypeCorrect == Spec => []TypeOK
<1>1. Init => Flags /\ RestTypes
  <2> SUFFICES ASSUME Init PROVE Flags /\ RestTypes
    OBVIOUS
  <2>1. Flags
    BY Zenon DEF Init, Flags
  <2> QED BY <2>1, FinalizerAssumption DEF FinalizerAssumption, Init, RestTypes
<1>2. Flags /\ [Next]_vars => Flags'
  BY FlagsStep
<1>3. PushInv /\ RestTypes /\ [Next]_vars => RestTypes'
  BY RestStep DEF PushInv
<1>4. PushInv /\ ReportInv /\ DrainInv /\ BudgetInv /\ Flags /\ RestTypes => TypeOK
  <2> SUFFICES ASSUME PushInv, ReportInv, DrainInv, BudgetInv, Flags, RestTypes
               PROVE  TypeOK
    OBVIOUS
  <2>1. reprompted \subseteq Turns
    BY FinalizerAssumption DEF FinalizerAssumption, BudgetInv, PushInv, PushTypes, Turns
  <2> QED BY <2>1, Zenon DEF TypeOK, PushInv, PushTypes, ReportInv, ReportTypes, DrainInv,
          DrainTypes, BudgetInv, Flags, RestTypes
<1> QED BY <1>1, <1>2, <1>3, <1>4, PushInvariance, ReportInvariance, DrainInvariance,
        BudgetInvariance, PTL DEF Spec

============================================================================
