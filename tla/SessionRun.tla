---------------------------- MODULE SessionRun ----------------------------
(***************************************************************************)
(* The drivers that put an agent loop to work on one task and report how   *)
(* it went: SessionRunner.run (src/src/agents/openclaw/_session_runner.py),*)
(* with one turn, and the BFCL runner (src/src/agents/benchmarks/_bfcl.py),*)
(* with several.  A driver publishes a turn's message, waits until the     *)
(* ResultCollector (eval/collector.py) has seen a reply on its chat, and   *)
(* after the last turn stops the loop and looks up the recorded outcome.   *)
(***************************************************************************)
EXTENDS AgentLoop

CONSTANTS
  Turns,          \* the messages of the task, in order
  OutcomeKind,    \* the kind of key under which the driver looks up the outcome:
                  \* "override" in SessionRunner, "session" in the BFCL runner
  ReadsTrace      \* whether the driver looks for llm_error events: SessionRunner does

ASSUME DriverAssumption ==
  /\ Overridden = Users
  /\ Turns \in Seq(Users) /\ Turns # <<>>
  /\ \A i, j \in 1..Len(Turns) : Turns[i] = Turns[j] => i = j
  /\ \A u \in Users : SessionOf[u] = SessionOf[Turns[1]]
  /\ OutcomeKind \in KeyKinds
  /\ ReadsTrace \in BOOLEAN

VARIABLES
  driver,     \* what the driver is doing
  turn,       \* how many turns it has published
  collected,  \* how many outbound messages the collector has taken
  event,      \* the Event of the driver's chat
  ended,      \* how each turn ended, as AgentRunResult says (history variable)
  verdict     \* the stop_reason the driver reports

driverVars == <<driver, turn, collected, event, ended, verdict>>
allVars == <<vars, driverVars>>

Chat == <<"chat", SessionOf[Turns[1]]>>

\* What the runner said of the turns that end in this step.
HowTurnsEnd ==
  ended' = [m \in M |->
    IF pc'[m] = "done" /\ pc[m] # "done"
    THEN IF Len(outbound') > Len(outbound) /\ outbound'[Len(outbound')].is = "error"
         THEN "error"
         ELSE outcome'[OutcomeKey(m)]
    ELSE ended[m]]

RunInit ==
  /\ Init
  /\ driver = "start" /\ turn = 0 /\ collected = 0 /\ event = FALSE
  /\ ended = [m \in M |-> "none"]
  /\ verdict = "none"

\* The event is fresh for every turn, and registered before anything can run.
\* Mutant: the event of the turn before is waited for again.
StaleEvent == UNCHANGED event
FreshEvent == event' = FALSE

\* The next turn: at the beginning, or when the wait for the last one is over.
PublishTurn ==
  /\ driver = "start" \/ (driver = "waiting" /\ event)
  /\ turn < Len(Turns)
  /\ Publish(Turns[turn + 1])
  /\ turn' = turn + 1
  /\ driver' = "waiting"
  /\ FreshEvent
  /\ UNCHANGED <<collected, ended, verdict>>

\* Any reply but a tool's message ends the wait of who listens on its chat.
\* Mutant: only an error does.
SignalsError(r) == r.to = Chat /\ r.is = "error"
Signals(r) == r.to = Chat /\ r.is # "tool"

\* ResultCollector._run_loop takes the next reply.
Collect ==
  /\ Idle
  /\ driver \in {"start", "waiting"}
  /\ collected < Len(outbound)
  /\ collected' = collected + 1
  /\ event' = (event \/ Signals(outbound[collected + 1]))
  /\ UNCHANGED <<vars, driver, turn, ended, verdict>>

\* The wait for the last turn is over: the exit stack stops loop and collector.
Close ==
  /\ driver = "waiting" /\ event /\ turn = Len(Turns)
  /\ driver' = "closing"
  /\ Stop
  /\ UNCHANGED <<turn, collected, event, ended, verdict>>

\* The trace, which only the task's own turns write to, holds an llm_error event.
LlmErrorTraced == ReadsTrace /\ \E i \in 1..Len(Turns) : ended[Turns[i]] = "error"

\* _resolve_run_outcome: a missing outcome counts as "completed", unless the
\* trace says otherwise.
Resolved(o) ==
  IF o \notin {"none", "completed"} THEN o
  ELSE IF LlmErrorTraced THEN "error" ELSE "completed"

\* The loop has ended; the outcome is looked up and reported.
Report ==
  /\ Idle
  /\ driver = "closing" /\ ~polling
  /\ driver' = "reported"
  /\ verdict' = Resolved(outcome[<<OutcomeKind, SessionOf[Turns[1]]>>])
  /\ UNCHANGED <<vars, turn, collected, event, ended>>

Step == LoopStep /\ HowTurnsEnd /\ UNCHANGED <<driver, turn, collected, event, verdict>>

RunNext == Step \/ PublishTurn \/ Collect \/ Close \/ Report

RunSpec == RunInit /\ [][RunNext]_allVars

\* The driver and the collector are tasks of the same event loop.
FairRunSpec ==
  /\ RunSpec
  /\ WF_allVars(Step /\ Dispatch)
  /\ WF_allVars(Step /\ PollTimesOut)
  /\ \A m \in M : WF_allVars(Step /\ TurnStep(m))
  /\ \A x \in Subs : WF_allVars(Step /\ Announce(x)) /\ WF_allVars(Step /\ Cleanup(x))
  /\ WF_allVars(PublishTurn) /\ WF_allVars(Collect)
  /\ WF_allVars(Close) /\ WF_allVars(Report)

-----------------------------------------------------------------------------
(* Properties.                                                              *)

\* The driver goes on to the next turn, or stops the loop, only when the turn
\* it waits for is over: no reply of another turn is taken for its answer.
NoEarlyWake ==
  \A i \in 1..Len(Turns) :
    (i < turn \/ (i = turn /\ (event \/ driver \in {"closing", "reported"})))
      => pc[Turns[i]] = "done"

\* The reported stop reason is how the last turn ended.
VerdictIsOutcome == driver = "reported" => verdict = ended[Turns[Len(Turns)]]

\* A turn that has been answered does not keep the driver waiting: it publishes
\* the next one or, after the last, reports.
AnsweredIsReported ==
  \A t \in 1..Len(Turns) :
    (\E i \in 1..Len(outbound) : outbound[i].msg = Turns[t] /\ outbound[i].is = "answer")
      ~> turn > t \/ driver = "reported"

\* A started task is reported, however its turns end.
StartedIsReported == driver = "waiting" ~> driver = "reported"
=============================================================================
