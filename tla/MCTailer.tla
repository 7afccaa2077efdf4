----------------------------- MODULE MCTailer -----------------------------
(***************************************************************************)
(* Instances of Tailer for TLC.                                            *)
(***************************************************************************)
EXTENDS Tailer

L(k, n) == [kind |-> k, id |-> n]

\* Two reports, one of them longer than the buffer, and a subagent's call and
\* return.
Reporting == {L("report", 1), L("huge", 2), L("call", 1), L("result", 1)}
=============================================================================
