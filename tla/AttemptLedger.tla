--------------------------- MODULE AttemptLedger ---------------------------
(***************************************************************************)
(* What a run directory promises to whoever reads it later                 *)
(* (load_completed_ids, the viewers, the simulator): an append-only ledger *)
(* with at most one verdict per attempt.  A verdict once readable is never *)
(* changed or withdrawn, by a resumed collection or a rerun either.        *)
(***************************************************************************)
CONSTANTS Tasks, Attempts

VARIABLE verdict

Verdicts == {"completed", "exhausted", "error"}

Init == verdict = [t \in Tasks |-> [a \in Attempts |-> "none"]]

\* The verdicts of some attempts without one appear.
Enter ==
  /\ verdict' \in [Tasks -> [Attempts -> Verdicts \cup {"none"}]]
  /\ \A t \in Tasks, a \in Attempts :
       verdict[t][a] # "none" => verdict'[t][a] = verdict[t][a]

Spec == Init /\ [][Enter]_verdict
=============================================================================
