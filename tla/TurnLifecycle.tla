--------------------------- MODULE TurnLifecycle ---------------------------
(***************************************************************************)
(* What the session manager promises the operator about turns, without any *)
(* of the machinery (PTY, claude process, crash recovery, hooks) that      *)
(* delivers it: turns run one at a time, each one ends at most once, an    *)
(* ended turn never changes again, and the OnTurnDone notification of a    *)
(* turn is fired at the moment it ends and never a second time.  The only  *)
(* turn that ends without a notification is one whose Submit call reports  *)
(* the failure to its own caller.                                          *)
(***************************************************************************)
EXTENDS Naturals

CONSTANT Turns          \* the turn ids Submit may hand out

VARIABLES
  rec,                  \* rec[t]: the state of turn t's record
  fired                 \* fired[t]: how often OnTurnDone was called for t

vars == <<rec, fired>>

Terminal == {"complete", "failed"}

Init ==
  /\ rec = [t \in Turns |-> "none"]
  /\ fired = [t \in Turns |-> 0]

\* Turn t is accepted.  No other turn may be running.
Begin(t) ==
  /\ rec[t] = "none"
  /\ \A u \in Turns : rec[u] # "running"
  /\ rec' = [rec EXCEPT ![t] = "running"]
  /\ UNCHANGED fired

\* Turn t ends and its record is handed to OnTurnDone.
End(t) ==
  /\ rec[t] = "running"
  /\ \E s \in Terminal : rec' = [rec EXCEPT ![t] = s]
  /\ fired' = [fired EXCEPT ![t] = @ + 1]

\* The prompt of turn t could not be written: the Submit call itself fails.
Withdraw(t) ==
  /\ rec[t] = "running"
  /\ rec' = [rec EXCEPT ![t] = "failed"]
  /\ UNCHANGED fired

Next == \E t \in Turns : Begin(t) \/ End(t) \/ Withdraw(t)

Spec == Init /\ [][Next]_vars

\* What a healthy session adds: an accepted turn does end.
FairSpec == Spec /\ \A t \in Turns : WF_vars(End(t) \/ Withdraw(t))

============================================================================
