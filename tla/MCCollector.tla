---------------------------- MODULE MCCollector ----------------------------
(* Instances of Collector for TLC. *)
EXTENDS Collector, TLC

CONSTANTS i1, i2

\* Two tasks that share their image, and two that do not.
SameOrNot == {<<i1, i1>>, <<i1, i2>>}
=============================================================================
