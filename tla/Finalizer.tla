----------------------------- MODULE Finalizer -----------------------------
(***************************************************************************)
(* What happens to a turn once it ended (cmd/wrapper): its finaliser       *)
(* goroutine pushes the repositories, collects the reports and the push    *)
(* lists, may re-prompt the agent instead of calling the operator back,    *)
(* and hands the callback to the webhook sender; the safety pusher runs    *)
(* beside it and the shutdown sequence drains all of it.                   *)
(*                                                                         *)
(* Turns are numbered in the order in which the session accepts them.  The *)
(* session itself is reduced to its slot (see Session for the rest), the   *)
(* work in a repository and a report to the number of the turn they come   *)
(* from (0: none), and the lists of repositories to sets: their order is   *)
(* not something the operator looks at.                                    *)
(***************************************************************************)
EXTENDS Integers, FiniteSets

CONSTANTS
  MaxTurns,       \* bound: turns ever accepted
  NumRepos,       \* the repositories of the workspace, in their order
  MaxReprompts,   \* maxOutcomeReprompts
  Retries,        \* webhook.Config.Retries
  SafetyNet,      \* the mid-turn safety pusher is enabled
  OperatorWaits,  \* the operator waits for a callback before the next turn
  AgentCommits,   \* the agent makes commits of its own
  AgentReports,   \* the agent files reports
  Artifacts,      \* the agent leaves files over MaxStagedBlobBytes behind
  CanShutdown     \* whether the pod is ever stopped

ASSUME FinalizerAssumption ==
  /\ MaxTurns \in Nat /\ MaxReprompts \in Nat /\ Retries \in Nat
  /\ NumRepos \in Nat
  /\ SafetyNet \in BOOLEAN /\ AgentCommits \in BOOLEAN
  /\ AgentReports \in BOOLEAN /\ CanShutdown \in BOOLEAN
  /\ OperatorWaits \in BOOLEAN /\ Artifacts \in BOOLEAN

Turns == 1..MaxTurns
Repos == 1..NumRepos

VARIABLES
  \* the session and its agent
  begun,          \* turns accepted so far
  slot,           \* the turn in flight, 0: none
  rejected,       \* the transcript's last submit_outcome was refused
  dirty,          \* dirty[r]: the last turn with uncommitted work in r
  oversized,      \* oversized[r]: the same, of files over MaxStagedBlobBytes
  ahead,          \* ahead[r]: the last turn with commits not on origin
  filed,          \* turns that filed a report
  acc,            \* the tailer's accumulator: reports not yet drained
  accTurn,        \* the turn it is keyed by, 0: none
  lost,           \* history: reports it dropped for those of a later turn
  safety,         \* repositories left to push in the safety pusher's tick
  \* the finalisers
  fin,            \* fin[t]: where the finaliser of t is
  todo,           \* todo[t]: repositories it has not pushed yet
  issues,         \* issues[t]: rec.InternalIssues
  pushed, failed, \* pushed[t], failed[t]: rec.PushedRepos, rec.FailedRepos
  \* the app's hand-over between turns
  reprompts,      \* outcomeReprompts
  reprompted,     \* turns that are re-prompts
  heldIssues, heldPushed, heldFailed,
  \* the webhook sender and the shutdown
  delivery,       \* delivery[t]: the callback of t
  attempt,        \* attempt[t]: POST attempts it has used
  senderClosed, senderCancelled,
  app,            \* how far shutdown has come
  timedOut,       \* the drain of the finalisers was given up
  late            \* history: finalisers started after that drain

sessionVars == <<begun, slot>>
agentVars   == <<rejected, filed, acc, accTurn, lost>>
gitVars     == <<dirty, oversized, ahead, safety>>
recVars     == <<issues, pushed, failed>>
heldVars    == <<heldIssues, heldPushed, heldFailed>>
budgetVars  == <<reprompts, reprompted>>
sendVars    == <<delivery, attempt, senderClosed, senderCancelled>>
appVars     == <<app, timedOut, late>>
vars == <<sessionVars, agentVars, gitVars, fin, todo, recVars, heldVars,
          budgetVars, sendVars, appVars>>

FinPC == {"off", "ended", "push", "drain", "repos", "scan", "reprompt",
          "submit", "holdIssues", "holdRepos", "deliver", "done"}

\* The type invariant of the finalisers, the sender and the shutdown.
TypeOK ==
  /\ begun \in 0..MaxTurns /\ slot \in 0..MaxTurns
  /\ rejected \in BOOLEAN
  /\ dirty \in [Repos -> 0..MaxTurns] /\ ahead \in [Repos -> 0..MaxTurns]
  /\ oversized \in [Repos -> 0..MaxTurns] /\ safety \subseteq Repos
  /\ filed \subseteq Turns /\ acc \subseteq Turns /\ accTurn \in 0..MaxTurns
  /\ lost \subseteq Turns
  /\ fin \in [Turns -> FinPC]
  /\ todo \in [Turns -> SUBSET Repos]
  /\ issues \in [Turns -> SUBSET Turns]
  /\ pushed \in [Turns -> SUBSET Repos] /\ failed \in [Turns -> SUBSET Repos]
  /\ reprompts \in 0..MaxReprompts /\ reprompted \subseteq Turns
  /\ heldIssues \subseteq Turns
  /\ heldPushed \subseteq Repos /\ heldFailed \subseteq Repos
  /\ delivery \in [Turns -> {"none", "posting", "ok", "dropped", "refused"}]
  /\ attempt \in [Turns -> 0..Retries]
  /\ senderClosed \in BOOLEAN /\ senderCancelled \in BOOLEAN
  /\ app \in {"up", "stopping", "noSafety", "noSession", "drained", "closing",
              "down"}
  /\ timedOut \in BOOLEAN /\ late \subseteq Turns

Init ==
  /\ begun = 0 /\ slot = 0 /\ rejected = FALSE
  /\ dirty = [r \in Repos |-> 0] /\ ahead = [r \in Repos |-> 0]
  /\ oversized = [r \in Repos |-> 0] /\ safety = {}
  /\ filed = {} /\ acc = {} /\ accTurn = 0 /\ lost = {}
  /\ fin = [t \in Turns |-> "off"]
  /\ todo = [t \in Turns |-> {}]
  /\ issues = [t \in Turns |-> {}]
  /\ pushed = [t \in Turns |-> {}] /\ failed = [t \in Turns |-> {}]
  /\ reprompts = 0 /\ reprompted = {}
  /\ heldIssues = {} /\ heldPushed = {} /\ heldFailed = {}
  /\ delivery = [t \in Turns |-> "none"]
  /\ attempt = [t \in Turns |-> 0]
  /\ senderClosed = FALSE /\ senderCancelled = FALSE
  /\ app = "up" /\ timedOut = FALSE /\ late = {}

----------------------------------------------------------------------------
(* The session, its agent and the safety pusher *)

SessionUp == app \in {"up", "stopping", "noSafety"}

\* The agent is at work on a turn.
Working == SessionUp /\ slot # 0

\* The session accepts one more turn.
Accept ==
  /\ SessionUp /\ slot = 0 /\ begun < MaxTurns
  /\ begun' = begun + 1
  /\ slot' = begun + 1

\* The operator sends the next turn: the session takes it as soon as the
\* slot is free, whether or not the last one was called back.
OperatorSubmit ==
  /\ OperatorWaits /\ begun > 0 => delivery[begun] = "ok"
  /\ Accept
  /\ UNCHANGED <<agentVars, gitVars, fin, todo, recVars, heldVars,
                 budgetVars, sendVars, appVars>>

AgentEdit(r) ==
  /\ Working
  /\ dirty' = [dirty EXCEPT ![r] = slot]
  /\ UNCHANGED <<sessionVars, agentVars, oversized, ahead, safety, fin, todo,
                 recVars, heldVars, budgetVars, sendVars, appVars>>

\* A build of the agent leaves a file over MaxStagedBlobBytes in r.
AgentBuild(r) ==
  /\ Artifacts /\ Working
  /\ oversized' = [oversized EXCEPT ![r] = slot]
  /\ UNCHANGED <<sessionVars, agentVars, dirty, ahead, safety, fin, todo,
                 recVars, heldVars, budgetVars, sendVars, appVars>>

\* A commit takes what is dirty in r and, when big is not 0, the oversized
\* file that turn big left; on origin, or only ahead of it.
Later(a, b) == IF a >= b THEN a ELSE b
Committed(r, big, onOrigin) ==
  /\ big \in {0, oversized[r]}
  /\ Later(dirty[r], big) # 0
  /\ dirty' = [dirty EXCEPT ![r] = 0]
  /\ oversized' = [oversized EXCEPT ![r] = IF big = 0 THEN @ ELSE 0]
  /\ ahead' = [ahead EXCEPT ![r] = IF onOrigin THEN 0
                                   ELSE Later(dirty[r], big)]
  /\ UNCHANGED safety

\* The agent's own commit, with the oversized file or without.
AgentCommit(r) ==
  /\ AgentCommits /\ Working
  /\ \E big \in 0..MaxTurns : Committed(r, big, FALSE)
  /\ UNCHANGED <<sessionVars, agentVars, fin, todo, recVars, heldVars,
                 budgetVars, sendVars, appVars>>

\* report_internal_issue, read off the transcript: accumulateInternalIssue
\* drops what another turn left behind.
AgentReport ==
  /\ AgentReports /\ Working /\ slot \notin filed
  /\ filed' = filed \union {slot}
  /\ acc' = {slot} \union (IF accTurn = slot THEN acc ELSE {})
  /\ accTurn' = slot
  /\ lost' = IF accTurn = slot THEN lost ELSE lost \union acc
  /\ UNCHANGED <<sessionVars, rejected, gitVars, fin, todo, recVars,
                 heldVars, budgetVars, sendVars, appVars>>

\* submit_outcome comes back, refused or not.
AgentOutcome ==
  /\ Working
  /\ rejected' \in BOOLEAN \ {rejected}
  /\ UNCHANGED <<sessionVars, filed, acc, accTurn, lost, gitVars, fin, todo,
                 recVars, heldVars, budgetVars, sendVars, appVars>>

\* The turn ends under the session's lock,
TurnEnd ==
  /\ Working
  /\ fin' = [fin EXCEPT ![slot] = "ended"]
  /\ slot' = 0
  /\ UNCHANGED <<begun, agentVars, gitVars, todo, recVars, heldVars,
                 budgetVars, sendVars, appVars>>

\* and OnTurnDone, called without it, starts the finaliser.
OnTurnDone(t) ==
  /\ fin[t] = "ended"
  /\ fin' = [fin EXCEPT ![t] = "push"]
  /\ todo' = [todo EXCEPT ![t] = Repos]
  /\ late' = IF app \in {"drained", "closing", "down"}
             THEN late \union {t} ELSE late
  /\ UNCHANGED <<sessionVars, agentVars, gitVars, recVars, heldVars,
                 budgetVars, sendVars, app, timedOut>>

\* A loop over the repositories is at r.
IsNext(r, S) == r \in S /\ \A q \in S : r <= q

\* The safety pusher's ticker fires.  A tick that is due when the pusher is
\* stopped may still win the select.
SafetyTick ==
  /\ SafetyNet /\ app \in {"up", "stopping"}
  /\ safety = {}
  /\ safety' = Repos
  /\ UNCHANGED <<sessionVars, agentVars, dirty, oversized, ahead, fin, todo,
                 recVars, heldVars, budgetVars, sendVars, appVars>>

\* PushOnly of one repository: commits only, never the working tree.  An
\* error is only counted.
SafetyPush(r) ==
  /\ IsNext(r, safety)
  /\ safety' = safety \ {r}
  /\ ahead' \in {ahead, [ahead EXCEPT ![r] = 0]}
  /\ UNCHANGED <<sessionVars, agentVars, dirty, oversized, fin, todo, recVars,
                 heldVars, budgetVars, sendVars, appVars>>

----------------------------------------------------------------------------
(* finalizeTurn *)

FinGoto(t, pc) == fin' = [fin EXCEPT ![t] = pc]

\* CommitAndPush of one repository stages all of it and takes oversized files
\* out again: with nothing else staged it returns, and the file stays where
\* it is, in neither list.
PushNothing(r) ==
  /\ dirty[r] = 0
  /\ UNCHANGED gitVars

\* Otherwise an error comes before the commit or at the push, or both are
\* done.  The oversized file is left out of the commit unless its reset
\* failed (then it is all that may be in it).
PushFails(r) ==
  \/ UNCHANGED gitVars
  \/ \E big \in 0..MaxTurns : Committed(r, big, FALSE)

PushSucceeds(r) == \E big \in 0..MaxTurns : Committed(r, big, TRUE)

\* One round of CommitAndPushAll, which goes on whatever fails.
FinPush(t, r) ==
  /\ fin[t] = "push" /\ IsNext(r, todo[t])
  /\ todo' = [todo EXCEPT ![t] = @ \ {r}]
  /\ \/ /\ PushNothing(r)
        /\ UNCHANGED <<pushed, failed>>
     \/ /\ PushFails(r)
        /\ failed' = [failed EXCEPT ![t] = @ \union {r}]
        /\ UNCHANGED pushed
     \/ /\ PushSucceeds(r)
        /\ pushed' = [pushed EXCEPT ![t] = @ \union {r}]
        /\ UNCHANGED failed
  /\ UNCHANGED <<sessionVars, agentVars, fin, issues, heldVars, budgetVars,
                 sendVars, appVars>>

\* All repositories are done; takePendingInternalIssues.
FinTakeIssues(t) ==
  /\ fin[t] = "push" /\ todo[t] = {}
  /\ FinGoto(t, "drain")
  /\ issues' = [issues EXCEPT ![t] = heldIssues]
  /\ heldIssues' = {}
  /\ UNCHANGED <<sessionVars, agentVars, gitVars, todo, pushed, failed,
                 heldPushed, heldFailed, budgetVars, sendVars, appVars>>

\* DrainInternalIssues of this turn.
FinDrainIssues(t) ==
  /\ fin[t] = "drain"
  /\ FinGoto(t, "repos")
  /\ \/ /\ accTurn = t
        /\ issues' = [issues EXCEPT ![t] = @ \union acc]
        /\ acc' = {} /\ accTurn' = 0
     \/ /\ accTurn # t
        /\ UNCHANGED <<issues, acc, accTurn>>
  /\ UNCHANGED <<sessionVars, rejected, filed, lost, gitVars, todo, pushed,
                 failed, heldVars, budgetVars, sendVars, appVars>>

\* Faulty variant: a held push outlives a later failure.
mergePushedForever(hp, hf, tp, tf) == hp \union tp

\* mergeRepoLists: what held lists and newer ones say together.
mergePushed(hp, hf, tp, tf) == (hp \union tp) \ tf
mergeFailed(hp, hf, tp, tf) == (hf \ (hp \union tp)) \union tf

\* takePendingRepoLists, folded into this turn's lists.
FinTakeRepos(t) ==
  /\ fin[t] = "repos"
  /\ FinGoto(t, "scan")
  /\ pushed' = [pushed EXCEPT ![t] =
                  mergePushed(heldPushed, heldFailed, @, failed[t])]
  /\ failed' = [failed EXCEPT ![t] =
                  mergeFailed(heldPushed, heldFailed, pushed[t], @)]
  /\ heldPushed' = {} /\ heldFailed' = {}
  /\ UNCHANGED <<sessionVars, agentVars, gitVars, todo, issues, heldIssues,
                 budgetVars, sendVars, appVars>>

\* FailedCriticalOutcome; it may also fail or find no transcript.
FinScan(t) ==
  /\ fin[t] = "scan"
  /\ \/ rejected /\ FinGoto(t, "reprompt")
     \/ FinGoto(t, "deliver")
  /\ UNCHANGED <<sessionVars, agentVars, gitVars, todo, recVars, heldVars,
                 budgetVars, sendVars, appVars>>

\* Faulty variant: one re-prompt too many.
BudgetOverspent == reprompts > MaxReprompts

BudgetSpent == reprompts >= MaxReprompts

\* reprompt: the budget is taken first,
FinReprompt(t) ==
  /\ fin[t] = "reprompt"
  /\ \/ /\ BudgetSpent
        /\ FinGoto(t, "deliver")
        /\ UNCHANGED reprompts
     \/ /\ ~BudgetSpent
        /\ reprompts' = reprompts + 1
        /\ FinGoto(t, "submit")
  /\ UNCHANGED <<sessionVars, agentVars, gitVars, todo, recVars, heldVars,
                 reprompted, sendVars, appVars>>

\* Faulty variant: a refused re-prompt is not given back.
KeptBudget == reprompts

\* A refused re-prompt gives its share of the budget back.
RolledBack == reprompts - 1

\* then submitFn is called, which any turn in the slot, the deadline or a
\* failing write makes it refuse.
FinSubmit(t) ==
  /\ fin[t] = "submit"
  /\ \/ /\ Accept
        /\ reprompted' = reprompted \union {begun + 1}
        /\ FinGoto(t, "holdIssues")
        /\ UNCHANGED reprompts
     \/ /\ reprompts' = RolledBack
        /\ FinGoto(t, "deliver")
        /\ UNCHANGED <<sessionVars, reprompted>>
  /\ UNCHANGED <<agentVars, gitVars, todo, recVars, heldVars, sendVars,
                 appVars>>

\* Faulty variant: what another finaliser holds is overwritten.
HoldOver(t) == issues[t]

\* Faulty variant: the suppressed turn's reports go with its record.
HoldNothing(t) == heldIssues

\* holdInternalIssues appends.
HoldWith(t) == heldIssues \union issues[t]

FinHoldIssues(t) ==
  /\ fin[t] = "holdIssues"
  /\ FinGoto(t, "holdRepos")
  /\ heldIssues' = HoldWith(t)
  /\ UNCHANGED <<sessionVars, agentVars, gitVars, todo, recVars, heldPushed,
                 heldFailed, budgetVars, sendVars, appVars>>

\* The finaliser is done with the record.
Discarded(t) ==
  /\ pushed' = [pushed EXCEPT ![t] = {}]
  /\ failed' = [failed EXCEPT ![t] = {}]

\* holdRepoLists folds; the callback of this turn is suppressed.
FinHoldRepos(t) ==
  /\ fin[t] = "holdRepos"
  /\ FinGoto(t, "done")
  /\ Discarded(t)
  /\ heldPushed' = mergePushed(heldPushed, heldFailed, pushed[t], failed[t])
  /\ heldFailed' = mergeFailed(heldPushed, heldFailed, pushed[t], failed[t])
  /\ UNCHANGED <<sessionVars, agentVars, gitVars, todo, issues, heldIssues,
                 budgetVars, sendVars, appVars>>

\* DeliverPayload, then the agentTurnFinished hook.
FinDeliver(t) ==
  /\ fin[t] = "deliver"
  /\ FinGoto(t, "done")
  /\ Discarded(t)
  /\ delivery' = [delivery EXCEPT ![t] =
                    IF senderClosed THEN "refused" ELSE "posting"]
  /\ UNCHANGED <<sessionVars, agentVars, gitVars, todo, issues, heldVars,
                 budgetVars, attempt, senderClosed, senderCancelled, appVars>>

----------------------------------------------------------------------------
(* The webhook sender *)

Settle(t, outcome) ==
  /\ delivery[t] = "posting"
  /\ delivery' = [delivery EXCEPT ![t] = outcome]
  /\ UNCHANGED <<sessionVars, agentVars, gitVars, fin, todo, recVars,
                 heldVars, budgetVars, attempt, senderClosed,
                 senderCancelled, appVars>>

PostOK(t) == ~senderCancelled /\ Settle(t, "ok")

\* The last attempt failed, or the backoff was cancelled.
PostDropped(t) ==
  (attempt[t] = Retries \/ senderCancelled) /\ Settle(t, "dropped")

PostRetry(t) ==
  /\ delivery[t] = "posting"
  /\ attempt[t] < Retries /\ ~senderCancelled
  /\ attempt' = [attempt EXCEPT ![t] = @ + 1]
  /\ UNCHANGED <<sessionVars, agentVars, gitVars, fin, todo, recVars,
                 heldVars, budgetVars, delivery, senderClosed,
                 senderCancelled, appVars>>

----------------------------------------------------------------------------
(* shutdown *)

ShutVars == <<sessionVars, agentVars, gitVars, fin, todo, recVars, heldVars,
              budgetVars, delivery, attempt>>

\* safety.Shutdown: cancel, then wait for the tick that runs, with no bound.
ShutdownBegin ==
  /\ CanShutdown /\ app = "up"
  /\ app' = "stopping"
  /\ UNCHANGED <<ShutVars, senderClosed, senderCancelled, timedOut, late>>

ShutdownSafety ==
  /\ app = "stopping"
  /\ safety = {}
  /\ app' = "noSafety"
  /\ UNCHANGED <<ShutVars, senderClosed, senderCancelled, timedOut, late>>

\* sess.Shutdown.
ShutdownSession ==
  /\ app = "noSafety"
  /\ app' = "noSession"
  /\ UNCHANGED <<ShutVars, senderClosed, senderCancelled, timedOut, late>>

\* Faulty variant: shutdown does not wait for the finalisers.
NoDrain == TRUE

\* turnWG.Wait returns: it counts the finalisers that were started.
TurnsDrained == \A t \in Turns : fin[t] \in {"off", "ended", "done"}

\* Faulty variant: the drain is not bounded.
DrainUnbounded == FALSE

\* The context of the shutdown may be done at any time.
CtxDone == TRUE

ShutdownDrain ==
  /\ app = "noSession"
  /\ app' = "drained"
  /\ \/ TurnsDrained /\ UNCHANGED timedOut
     \/ CtxDone /\ timedOut' = TRUE
  /\ UNCHANGED <<ShutVars, senderClosed, senderCancelled, late>>

\* Sender.Shutdown: refuse new deliveries, wait for the others for a
\* bounded time, cancel them, and wait until they gave up.
SenderClose ==
  /\ app = "drained"
  /\ app' = "closing"
  /\ senderClosed' = TRUE
  /\ UNCHANGED <<ShutVars, senderCancelled, timedOut, late>>

SenderCancel ==
  /\ app = "closing" /\ ~senderCancelled
  /\ senderCancelled' = TRUE
  /\ UNCHANGED <<ShutVars, senderClosed, appVars>>

\* Faulty variant: the cancelled deliveries are not waited for.
NotJoined == senderCancelled \/ \A t \in Turns : delivery[t] # "posting"

SenderJoined == \A t \in Turns : delivery[t] # "posting"

SenderDone ==
  /\ app = "closing"
  /\ SenderJoined
  /\ app' = "down"
  /\ senderCancelled' = TRUE
  /\ UNCHANGED <<ShutVars, senderClosed, timedOut, late>>

----------------------------------------------------------------------------
FinStep(t) ==
  \/ OnTurnDone(t)
  \/ \E r \in Repos : FinPush(t, r)
  \/ FinTakeIssues(t) \/ FinDrainIssues(t) \/ FinTakeRepos(t) \/ FinScan(t)
  \/ FinReprompt(t) \/ FinSubmit(t) \/ FinHoldIssues(t) \/ FinHoldRepos(t)
  \/ FinDeliver(t)
PostStep(t) == PostOK(t) \/ PostDropped(t) \/ PostRetry(t)
ShutdownStep ==
  \/ ShutdownSafety \/ ShutdownSession
  \/ ShutdownDrain \/ SenderClose \/ SenderCancel \/ SenderDone

Next ==
  \/ OperatorSubmit \/ AgentReport \/ AgentOutcome \/ TurnEnd \/ SafetyTick
  \/ \E r \in Repos : \/ AgentEdit(r) \/ AgentBuild(r) \/ AgentCommit(r)
                   \/ SafetyPush(r)
  \/ \E t \in Turns : FinStep(t) \/ PostStep(t)
  \/ ShutdownBegin \/ ShutdownStep

Spec == Init /\ [][Next]_vars

\* Deliveries and the shutdown sequence go on; a git command may hang for
\* ever (gitRunner has no timeout), the operator and the agent may do
\* nothing, and nobody has to stop the pod.
FairSpec ==
  /\ Spec
  /\ \A t \in Turns : WF_vars(PostStep(t))
  /\ WF_vars(ShutdownStep)

----------------------------------------------------------------------------
(* Properties *)

\* Where the report of a turn may be: still with the tailer, in a record
\* whose finaliser is at work, held for the next callback, or in a callback.
Carried(t) ==
  IF delivery[t] # "none" \/ fin[t] \notin {"off", "ended", "holdRepos", "done"}
  THEN issues[t] ELSE {}

\* No report is told twice, and none is lost, whatever callbacks re-prompts
\* suppress and however finalisers overlap: but for those the tailer dropped
\* because a turn that was not waited for filed its own before they were
\* drained.
ReportsConserved ==
  /\ filed = acc \union heldIssues \union lost
             \union UNION {Carried(t) : t \in Turns}
  /\ acc \cap heldIssues = {} /\ lost \cap (acc \union heldIssues) = {}
  /\ OperatorWaits => lost = {}
  /\ \A t \in Turns :
       /\ Carried(t) \cap (acc \union heldIssues \union lost) = {}
       /\ \A u \in Turns \ {t} : Carried(t) \cap Carried(u) = {}

\* One repository that fails costs no other its commit, and an oversized file
\* costs nothing that lies beside it: once the finaliser of a turn is through
\* the loop, what that turn left uncommitted in a repository, files over
\* MaxStagedBlobBytes apart, is named as failed in the report it delivers or
\* holds.  (Of an oversized file no report says anything: a repository with
\* nothing else to commit is in neither list, and one that was pushed may
\* still hold such a file.)
NoWorkSkipped ==
  \A t \in Turns, r \in Repos :
    fin[t] \notin {"off", "ended", "push", "done"} /\ dirty[r] = t
      => r \in failed[t]

\* "keeps the lists DISJOINT": no callback says of one repository that it
\* was pushed and that its commits exist nowhere.
ListsDisjoint ==
  /\ heldPushed \cap heldFailed = {}
  /\ \A t \in Turns : pushed[t] \cap failed[t] = {}

\* The budget counts the re-prompts that were issued and those being tried:
\* one that the session refused never costs the pod a later one.
BudgetExact ==
  reprompts = Cardinality(reprompted)
              + Cardinality({t \in Turns : fin[t] = "submit"})

\* The sender refuses no callback unless shutdown gave up on a finaliser, or
\* the finaliser was started when the drain was already over.
NoCallbackRefused ==
  \A t \in Turns : delivery[t] = "refused" => timedOut \/ t \in late

\* When shutdown is over no delivery goroutine is left behind.
NothingLeftBehind == app = "down" => \A t \in Turns : delivery[t] # "posting"

\* "[...] so a hung push cannot block shutdown indefinitely": shutdown ends
\* even when a git command hangs or the operator never answers.
ShutdownEnds == app = "stopping" ~> app = "down"

\* "Push BEFORE the callback: [...] the branch must already carry the
\* agent's commits": a callback that does not name a repository as failed
\* goes out with the turn's commits in it on origin.
CommitsOnOriginFirst ==
  [][\A t \in Turns : fin[t] = "deliver" /\ fin'[t] = "done" =>
       \A r \in Repos : ahead[r] = t => r \in failed[t]]_vars

============================================================================
