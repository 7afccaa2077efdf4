----------------------------- MODULE MCSession -----------------------------
(* Instances of Session for TLC. *)
EXTENDS Session

CONSTANTS t1, t2, t3, i1, i2

OneTurn    == {t1}
TwoTurns   == {t1, t2}
ThreeTurns == {t1, t2, t3}
NoCalls    == {}
OneInterrupt  == {i1}
TwoInterrupts == {i1, i2}
OneHandoff == {t2}
TwoHandoffs == {t2, t3}

============================================================================
