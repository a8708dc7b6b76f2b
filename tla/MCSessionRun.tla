------------------------- MODULE MCSessionRun -------------------------
(* Instances of SessionRun for TLC. *)
EXTENDS SessionRun, TLC

CONSTANTS u1, u2, s1

OneSession == [u \in Users |-> DirectSession]
OneTurn == <<u1>>
TwoTurns == <<u1, u2>>

ExecBatches == {<<"exec">>}
=============================================================================
