---------------------------- MODULE AgentLoop ----------------------------
(***************************************************************************)
(* The OpenClaw agent loop (src/src/agents/openclaw/_loop.py), the tool    *)
(* calling iterations it drives (_runner.py), the subagents those          *)
(* iterations start (_subagent.py, tools/spawn.py, tools/sessions_yield.py)*)
(* and the message bus between them (bus/queue.py).                        *)
(*                                                                         *)
(* Everything runs in one asyncio event loop: a task keeps the processor   *)
(* until it awaits something that is not ready.  An action below is the    *)
(* code between two such awaits, and Idle says that no task is inside one. *)
(***************************************************************************)
EXTENDS Naturals, Sequences, FiniteSets

CONSTANTS
  Users,          \* messages that clients publish
  Overridden,     \* those sent as SessionRunner sends them: channel "system",
                  \* sender "user", with a session_key_override
  Subs,           \* subagent task ids; x also names x's announcement message
  Sessions,       \* "channel:chat_id" pairs
  DirectSession,  \* "cli:direct", the context the tools are created with
  SessionOf,      \* the session each user message belongs to
  Cli,            \* the sessions whose channel is "cli"
  MaxIter,        \* AgentRunSpec.max_iterations
  GateLimit,      \* NANOBOT_MAX_CONCURRENT_REQUESTS
  MalformedBudget, \* malformed_retry_budget
  Batches,        \* the tool call lists a model may answer with
  MayStop         \* whether whoever owns the loop may stop it at any time

M == Users \cup Subs
Tools == {"exec", "message", "yield"}

ASSUME MessageAssumption ==
  /\ Overridden \subseteq Users
  /\ Users \cap Subs = {}
  /\ DirectSession \in Sessions
  /\ SessionOf \in [Users -> Sessions]
ASSUME BoundAssumption ==
  /\ MaxIter \in Nat \ {0}
  /\ GateLimit \in Nat \ {0}
  /\ MalformedBudget \in Nat
  /\ MayStop \in BOOLEAN
ASSUME BatchAssumption ==
  /\ Tools \cap Subs = {}
  /\ "asleep" \notin Subs
  /\ Batches \subseteq Seq(Tools \cup Subs)

VARIABLES
  inbound,      \* every message put on bus.inbound, in order
  consumed,     \* how many of them AgentLoop.run has taken
  outbound,     \* every message put on bus.outbound, in order
  running,      \* AgentLoop._running
  polling,      \* AgentLoop.run is still in its consume loop
  pc,           \* where the dispatch task of a message is
  lockQ,        \* _session_locks: the holder of a key's lock, then its waiters
  gateQ,        \* the waiters of _concurrency_gate
  hist,         \* Session.messages
  ckpt,         \* Session.metadata["runtime_checkpoint"], as it would restore
  buf,          \* the messages a turn has added since its history snapshot
  fed,          \* the turn's last message is malformed-call feedback, which
                \* _strip_synthetic_malformed_pairs drops before buf is saved
  iter,         \* AgentRunner.run's iteration counter
  todo,         \* the tool calls of the current batch not yet executed
  toolCtx,      \* the session the shared tools were last set to
  sentInTurn,   \* MessageTool._sent_in_turn
  outcome,      \* AgentLoop._last_run_outcomes
  sub,          \* where a subagent is
  origin,       \* the session a subagent announces to
  pending,      \* SubagentManager._pending_results
  seen          \* the subagent results a turn has been given

busVars == <<inbound, consumed, outbound, running, polling>>
taskVars == <<pc, lockQ, gateQ>>
sessionVars == <<hist, ckpt>>
turnVars == <<buf, fed, iter, todo>>
toolVars == <<toolCtx, sentInTurn, outcome>>
subVars == <<sub, origin, pending, seen>>
vars == <<inbound, consumed, outbound, running, polling, pc, lockQ, gateQ,
          hist, ckpt, buf, fed, iter, todo, toolCtx, sentInTurn, outcome,
          sub, origin, pending, seen>>

-----------------------------------------------------------------------------
(* Messages, keys and history entries.                                      *)

KeyKinds == {"session", "override", "system"}
Keys == KeyKinds \X Sessions

\* The session a message is processed in.
Session(m) == IF m \in Subs THEN origin[m] ELSE SessionOf[m]

\* InboundMessage.session_key, under which the dispatcher locks.
Key(m) == <<CASE m \in Subs -> "system"
              [] m \in Overridden -> "override"
              [] OTHER -> "session", Session(m)>>

\* Where an error is sent: the message's own channel and chat_id.
ErrorAddress(m) ==
  <<IF m \in Subs \cup Overridden THEN "system" ELSE "chat", Session(m)>>

Reasons == {"completed", "error", "empty_final_response",
            "malformed_tool_call_budget_exhausted", "max_iterations"}

Kinds == {"input", "calls", "results", "interrupted", "injected", "final"}
Entry == [turn : M, it : Nat, is : Kinds]
Reply == [msg : M, to : {"chat", "system"} \X Sessions,
          is : {"answer", "empty", "error", "tool"}]

Calls(m) == [turn |-> m, it |-> iter[m], is |-> "calls"]
Results(m) == [turn |-> m, it |-> iter[m], is |-> "results"]
Interrupted(m) == [turn |-> m, it |-> iter[m], is |-> "interrupted"]
\* The checkpoint of a batch before its tools run and after, as it would restore.
\* Mutant: calls whose tools have not finished are restored without a result.
CallsOnly(m) == <<Calls(m)>>
AwaitingTools(m) == <<Calls(m), Interrupted(m)>>
ToolsCompleted(m) == <<Calls(m), Results(m)>>
Final(m) == [turn |-> m, it |-> iter[m], is |-> "final"]

\* The role a message is given: an announcement speaks as the assistant.
\* Mutant: every message on the system channel does.
AlwaysAssistant(m) == "assistant"
InputRole(m) == IF m \in Subs THEN "assistant" ELSE "user"
Role(e) == CASE e.is = "input" -> InputRole(e.turn)
             [] e.is \in {"results", "interrupted"} -> "tool"
             [] OTHER -> "assistant"

\* build_messages merges the new message into a last history entry of the same
\* role; the merged entry is among those that _save_turn skips.
Input(m, h) ==
  IF h # <<>> /\ Role(h[Len(h)]) = InputRole(m)
  THEN <<>>
  ELSE <<[turn |-> m, it |-> 0, is |-> "input"]>>

\* _append_final_message: a last assistant message without tool calls is
\* replaced.  When the input was merged into the history (b is empty) that
\* message is not one that _save_turn keeps.
Replaceable(m, b) ==
  IF b = <<>> THEN InputRole(m) = "assistant"
  ELSE Role(b[Len(b)]) = "assistant" /\ b[Len(b)].is # "calls"
AppendFinal(m, b) ==
  CASE fed[m] \/ ~Replaceable(m, b) -> Append(b, Final(m))
    [] ~fed[m] /\ Replaceable(m, b) /\ b = <<>> -> <<>>
    [] OTHER -> Append(SubSeq(b, 1, Len(b) - 1), Final(m))

\* _restore_runtime_checkpoint: what of r does the end of h not hold already?
Overlaps(h, r) ==
  {n \in 0..Len(r) : n <= Len(h) /\ SubSeq(h, Len(h) - n + 1, Len(h)) = SubSeq(r, 1, n)}
Overlap(h, r) == CHOOSE n \in Overlaps(h, r) : \A k \in Overlaps(h, r) : k <= n
Restored(h, r) == h \o SubSeq(r, Overlap(h, r) + 1, Len(r))

-----------------------------------------------------------------------------
(* The event loop, the locks and the pending results.                       *)

\* A task executing tool calls runs until one of them suspends it.
Busy(m) == /\ pc[m] = "tools"
           /\ todo[m] # <<>> => Head(todo[m]) \notin {"exec", "asleep"}
Idle == \A m \in M : ~Busy(m)

Running == {m \in M : pc[m] \in {"begin", "model", "tools"}}

\* pending_subagent_count: a task counts until its done callback has run.
\* Mutant: there is no such callback.
LiveForever(s) == {x \in Subs : origin[x] = s /\ sub[x] \in {"running", "announced", "cleaned"}}
LiveSubs(s) == {x \in Subs : origin[x] = s /\ sub[x] \in {"running", "announced"}}

\* The holder of a key's lock; a free slot in the gate.
\* Mutant: a lock that lets everybody pass.
LockIgnored(m) == TRUE
HoldsLock(m) == Head(lockQ[Key(m)]) = m
GateHasSlot == Cardinality(Running) < GateLimit

\* Only a user's turn drains pending results between iterations.
Drained(m) == IF m \in Subs THEN {} ELSE pending
Injected(m, it) == IF Drained(m) = {} THEN <<>>
                   ELSE <<[turn |-> m, it |-> it, is |-> "injected"]>>
\* Mutant: the results are read without being taken.
LeftUntouched(taken) == pending
Left(taken) == pending \ taken
Drain(m) == /\ pending' = Left(Drained(m))
            /\ seen' = [seen EXCEPT ![m] = @ \cup Drained(m)]

\* Subagents that a batch would start and that have not been started yet.
Startable(b) == \A i, j \in 1..Len(b) :
                  b[i] \in Subs => /\ sub[b[i]] = "free"
                                   /\ i # j => b[i] # b[j]
Named(b) == {x \in Subs : \E i \in 1..Len(b) : b[i] = x}
Called(b) == [x \in Subs |-> IF x \in Named(b) THEN "called" ELSE sub[x]]

Init ==
  /\ inbound = <<>> /\ consumed = 0 /\ outbound = <<>>
  /\ running = TRUE /\ polling = TRUE
  /\ pc = [m \in M |-> "new"]
  /\ lockQ = [k \in Keys |-> <<>>]
  /\ gateQ = <<>>
  /\ hist = [s \in Sessions |-> <<>>]
  /\ ckpt = [s \in Sessions |-> <<>>]
  /\ buf = [m \in M |-> <<>>]
  /\ fed = [m \in M |-> FALSE]
  /\ iter = [m \in M |-> 0]
  /\ todo = [m \in M |-> <<>>]
  /\ toolCtx = DirectSession
  /\ sentInTurn = FALSE
  /\ outcome = [k \in Keys |-> "none"]
  /\ sub = [x \in Subs |-> "free"]
  /\ origin = [x \in Subs |-> DirectSession]
  /\ pending = {}
  /\ seen = [m \in M |-> {}]

-----------------------------------------------------------------------------
(* Publishing and dispatching.                                              *)

\* A client puts message u on the bus.
Publish(u) ==
  /\ Idle
  /\ pc[u] = "new"
  /\ inbound' = Append(inbound, u)
  /\ pc' = [pc EXCEPT ![u] = "inbound"]
  /\ UNCHANGED <<consumed, outbound, running, polling, lockQ, gateQ, sessionVars,
                 turnVars, toolVars, subVars>>

\* AgentLoop.run takes the next message and creates its dispatch task; tasks
\* start in the order they are created, so they queue for the lock in it too.
Dispatch ==
  /\ Idle
  /\ polling
  /\ consumed < Len(inbound)
  /\ LET m == inbound[consumed + 1] IN
       /\ pc' = [pc EXCEPT ![m] = "lock"]
       /\ lockQ' = [lockQ EXCEPT ![Key(m)] = Append(@, m)]
  /\ consumed' = consumed + 1
  /\ polling' = running
  /\ UNCHANGED <<inbound, outbound, running, gateQ, sessionVars, turnVars,
                 toolVars, subVars>>

\* consume_inbound times out after a second and the loop looks at _running.
PollTimesOut ==
  /\ Idle
  /\ polling
  /\ ~running
  /\ polling' = FALSE
  /\ UNCHANGED <<inbound, consumed, outbound, running, taskVars, sessionVars,
                 turnVars, toolVars, subVars>>

\* AgentLoop.stop.
Stop ==
  /\ Idle
  /\ running
  /\ running' = FALSE
  /\ UNCHANGED <<inbound, consumed, outbound, polling, taskVars, sessionVars,
                 turnVars, toolVars, subVars>>

\* "async with lock, gate": the lock first ...
AcquireLock(m) ==
  /\ Idle
  /\ pc[m] = "lock"
  /\ HoldsLock(m)
  /\ pc' = [pc EXCEPT ![m] = "gate"]
  /\ gateQ' = Append(gateQ, m)
  /\ UNCHANGED <<busVars, lockQ, sessionVars, turnVars, toolVars, subVars>>

\* ... then the gate, and _process_message up to the consolidation it awaits:
\* an unfinished turn of the session is materialised first.
PassGate(m) ==
  /\ Idle
  /\ pc[m] = "gate"
  /\ Head(gateQ) = m
  /\ GateHasSlot
  /\ gateQ' = Tail(gateQ)
  /\ pc' = [pc EXCEPT ![m] = "begin"]
  /\ hist' = [hist EXCEPT ![Session(m)] = Restored(@, ckpt[Session(m)])]
  /\ ckpt' = [ckpt EXCEPT ![Session(m)] = <<>>]
  /\ UNCHANGED <<busVars, lockQ, turnVars, toolVars, subVars>>

\* MessageTool.start_turn, which the system channel's branch does not call.
\* Mutant: nobody calls it.
NeverReset(m) == sentInTurn
StartTurn(m) == IF m \in Users \ Overridden THEN FALSE ELSE sentInTurn

\* The history snapshot, the tool context, and the first request to the model.
Begin(m) ==
  /\ Idle
  /\ pc[m] = "begin"
  /\ pc' = [pc EXCEPT ![m] = "model"]
  /\ toolCtx' = Session(m)
  /\ sentInTurn' = StartTurn(m)
  /\ buf' = [buf EXCEPT ![m] = Input(m, hist[Session(m)]) \o Injected(m, 0)]
  /\ Drain(m)
  /\ UNCHANGED <<busVars, lockQ, gateQ, sessionVars, fed, iter, todo, outcome, sub, origin>>

-----------------------------------------------------------------------------
(* How a turn ends.                                                         *)

\* The dispatch task releases its key's lock, which wakes the next waiter.
Release(m) ==
  /\ pc' = [pc EXCEPT ![m] = "done"]
  /\ lockQ' = [lockQ EXCEPT ![Key(m)] = Tail(@)]
  /\ buf' = [buf EXCEPT ![m] = <<>>]
  /\ fed' = [fed EXCEPT ![m] = FALSE]
  /\ iter' = [iter EXCEPT ![m] = 0]
  /\ todo' = [todo EXCEPT ![m] = <<>>]
  /\ UNCHANGED <<inbound, consumed, running, polling, gateQ, toolCtx, sentInTurn,
                 origin, pending, seen>>

\* Mutant: announcements are answered like everything else on the channel.
AnswerAll(m) == <<[msg |-> m, to |-> <<"chat", Session(m)>>, is |-> "answer"]>>
\* What _process_message returns and _dispatch then publishes.  Only a message
\* that did not come over the system channel heeds the message tool's flag.
Answer(m) ==
  LET Out(is) == <<[msg |-> m, to |-> <<"chat", Session(m)>>, is |-> is]>> IN
  CASE m \in Subs -> <<>>
    [] m \in Overridden \/ (m \in Users /\ ~sentInTurn) -> Out("answer")
    [] OTHER -> IF Session(m) \in Cli THEN Out("empty") ELSE <<>>

\* _clear_runtime_checkpoint.  Mutant: the checkpoint of the last batch is kept.
KeepCheckpoint(s) == UNCHANGED ckpt
ClearCheckpoint(s) == ckpt' = [ckpt EXCEPT ![s] = <<>>]

\* _last_run_outcomes is keyed by the session that was processed.
\* Mutant: by the key that the message was dispatched under.
DispatchKey(m) == Key(m)
OutcomeKey(m) == <<"session", Session(m)>>

\* The runner returns with messages b of the turn: they are saved, the checkpoint is
\* cleared, the outcome recorded and the answer published, without an await.
Finish(m, b, reason) ==
  /\ Release(m)
  /\ hist' = [hist EXCEPT ![Session(m)] = @ \o b]
  /\ ClearCheckpoint(Session(m))
  /\ outcome' = [outcome EXCEPT ![OutcomeKey(m)] = reason]
  /\ outbound' = outbound \o Answer(m)
  /\ UNCHANGED sub

\* An exception leaves _process_message; c is what it leaves as checkpoint.
Abort(m, c) ==
  /\ Release(m)
  /\ ckpt' = [ckpt EXCEPT ![Session(m)] = c]
  /\ outcome' = [outcome EXCEPT ![Key(m)] = "error"]
  /\ outbound' = Append(outbound, [msg |-> m, to |-> ErrorAddress(m), is |-> "error"])
  /\ UNCHANGED <<hist, sub>>

\* Mutant: one iteration too many.
IterationsLeftAtEnd(m) == iter[m] + 1 <= MaxIter
IterationsLeft(m) == iter[m] + 1 < MaxIter

\* The next iteration of AgentRunner.run, or its for loop's else branch.
Continue(m, b, feedback, c) ==
  \/ /\ IterationsLeft(m)
     /\ pc' = [pc EXCEPT ![m] = "model"]
     /\ iter' = [iter EXCEPT ![m] = @ + 1]
     /\ buf' = [buf EXCEPT ![m] = b \o Injected(m, iter[m] + 1)]
     /\ fed' = [fed EXCEPT ![m] = feedback /\ Drained(m) = {}]
     /\ Drain(m)
     /\ ckpt' = [ckpt EXCEPT ![Session(m)] = c]
     /\ UNCHANGED <<busVars, lockQ, gateQ, hist, todo, toolVars, sub, origin>>
  \/ /\ ~IterationsLeft(m)
     /\ Finish(m, IF feedback THEN Append(b, Final(m)) ELSE AppendFinal(m, b), "max_iterations")

-----------------------------------------------------------------------------
(* The model's replies.                                                     *)

\* Tool calls: the batch is checkpointed as interrupted until it is complete.
ReplyTools(m, b) ==
  /\ Idle
  /\ pc[m] = "model"
  /\ b # <<>>
  /\ Startable(b)
  /\ pc' = [pc EXCEPT ![m] = "tools"]
  /\ todo' = [todo EXCEPT ![m] = b]
  /\ buf' = [buf EXCEPT ![m] = Append(@, Calls(m))]
  /\ ckpt' = [ckpt EXCEPT ![Session(m)] = AwaitingTools(m)]
  /\ toolCtx' = Session(m)
  /\ sub' = Called(b)
  /\ fed' = [fed EXCEPT ![m] = FALSE]
  /\ UNCHANGED <<busVars, lockQ, gateQ, hist, iter, sentInTurn, outcome, origin,
                 pending, seen>>

\* Text that looks like a tool call.  The hash of the request changes with every
\* feedback pair, so malformed_retry_count is 1 at each of them.
ReplyMalformed(m) ==
  /\ Idle
  /\ pc[m] = "model"
  /\ IF 1 > MalformedBudget
     THEN Finish(m, AppendFinal(m, buf[m]), "malformed_tool_call_budget_exhausted")
     ELSE Continue(m, buf[m], TRUE, ckpt[Session(m)])

\* A final answer.
ReplyFinal(m) ==
  /\ Idle
  /\ pc[m] = "model"
  /\ Finish(m, Append(buf[m], Final(m)), "completed")

\* finish_reason "error", or no text even after the finalization retry.
ReplyEnd(m, reason) ==
  /\ Idle
  /\ pc[m] = "model"
  /\ reason \in {"error", "empty_final_response"}
  /\ Finish(m, AppendFinal(m, buf[m]), reason)

\* Consolidation or the provider raises.
Raise(m) ==
  /\ Idle
  /\ pc[m] \in {"begin", "model"}
  /\ Abort(m, ckpt[Session(m)])

\* Saving a checkpoint raises, after the session's metadata have been changed.
RaiseInSave(m) ==
  /\ \/ /\ Idle
        /\ pc[m] = "model"
        /\ \E c \in {AwaitingTools(m), <<Final(m)>>} : Abort(m, c)
     \/ /\ pc[m] = "tools"
        /\ todo[m] = <<>>
        /\ Abort(m, ToolsCompleted(m))

-----------------------------------------------------------------------------
(* Executing the tool calls, in order.                                      *)

\* The first call of the batch has returned (or, with next, changes its state).
Pop(m) == todo' = [todo EXCEPT ![m] = Tail(@)]
Others(m) == \A n \in M \ {m} : ~Busy(n)
Calling(m, t) == /\ Others(m)
                 /\ pc[m] = "tools"
                 /\ todo[m] # <<>>
                 /\ Head(todo[m]) = t

\* A shell command, a file or a web tool: it suspends the task until it returns.
Exec(m) ==
  /\ Calling(m, "exec")
  /\ Pop(m)
  /\ UNCHANGED <<busVars, taskVars, sessionVars, buf, fed, iter, toolVars, subVars>>

\* MessageTool.execute without an explicit target sends to the tools' context.
SendMessage(m) ==
  /\ Calling(m, "message")
  /\ Pop(m)
  /\ outbound' = Append(outbound, [msg |-> m, to |-> <<"chat", toolCtx>>, is |-> "tool"])
  /\ sentInTurn' = TRUE
  /\ UNCHANGED <<inbound, consumed, running, polling, taskVars, sessionVars, buf,
                 fed, iter, toolCtx, outcome, subVars>>

\* SpawnTool.execute: the subagent's origin is the tools' context.
Spawn(m, x) ==
  /\ Calling(m, x)
  /\ Pop(m)
  /\ sub' = [sub EXCEPT ![x] = "running"]
  /\ origin' = [origin EXCEPT ![x] = toolCtx]
  /\ UNCHANGED <<busVars, taskVars, sessionVars, buf, fed, iter, toolVars, pending, seen>>

\* YieldTool.execute, one poll: results of any session end it, and so does the
\* absence of live subagents of the tools' context; otherwise it sleeps.
YieldPoll(m) ==
  /\ Calling(m, "yield") \/ (Idle /\ Calling(m, "asleep"))
  /\ \/ /\ pending # {}
        /\ pending' = Left(pending)
        /\ seen' = [seen EXCEPT ![m] = @ \cup pending]
        /\ Pop(m)
     \/ /\ pending = {}
        /\ LiveSubs(toolCtx) = {}
        /\ Pop(m)
        /\ UNCHANGED <<pending, seen>>
     \/ /\ pending = {}
        /\ LiveSubs(toolCtx) # {}
        /\ todo' = [todo EXCEPT ![m] = <<"asleep">> \o Tail(@)]
        /\ UNCHANGED <<pending, seen>>
  /\ UNCHANGED <<busVars, taskVars, sessionVars, buf, fed, iter, toolVars, sub, origin>>

\* Ten minutes have passed since the yield began.
YieldTimesOut(m) ==
  /\ Calling(m, "asleep")
  /\ Pop(m)
  /\ UNCHANGED <<busVars, taskVars, sessionVars, buf, fed, iter, toolVars, subVars>>

\* All calls have returned: the batch is complete in the messages and in the
\* checkpoint, and the next iteration begins.
ToolsDone(m) ==
  /\ pc[m] = "tools"
  /\ todo[m] = <<>>
  /\ Continue(m, Append(buf[m], Results(m)), FALSE, ToolsCompleted(m))

-----------------------------------------------------------------------------
(* Subagents.                                                               *)

\* However it ends, _run_subagent announces: into the pending results, which an
\* iteration drains, and on the bus, from where it starts a turn of its own.
Announce(x) ==
  /\ Idle
  /\ sub[x] = "running"
  /\ sub' = [sub EXCEPT ![x] = "announced"]
  /\ pending' = pending \cup {x}
  /\ inbound' = Append(inbound, x)
  /\ pc' = [pc EXCEPT ![x] = "inbound"]
  /\ UNCHANGED <<consumed, outbound, running, polling, lockQ, gateQ, sessionVars,
                 turnVars, toolVars, origin, seen>>

\* The subagent task's done callback.
Cleanup(x) ==
  /\ Idle
  /\ sub[x] = "announced"
  /\ sub' = [sub EXCEPT ![x] = "cleaned"]
  /\ UNCHANGED <<busVars, taskVars, sessionVars, turnVars, toolVars, origin,
                 pending, seen>>

-----------------------------------------------------------------------------
ModelReplies(m) ==
  \/ \E b \in Batches : ReplyTools(m, b)
  \/ ReplyMalformed(m)
  \/ ReplyFinal(m)
  \/ \E reason \in Reasons : ReplyEnd(m, reason)

ToolStep(m) ==
  \/ Exec(m)
  \/ SendMessage(m)
  \/ \E x \in Subs : Spawn(m, x)
  \/ YieldPoll(m)
  \/ ToolsDone(m)

TurnStep(m) == AcquireLock(m) \/ PassGate(m) \/ Begin(m) \/ ModelReplies(m) \/ ToolStep(m)

\* What the event loop does with what has been published.
LoopStep ==
  \/ Dispatch
  \/ PollTimesOut
  \/ \E m \in M : TurnStep(m) \/ YieldTimesOut(m) \/ Raise(m) \/ RaiseInSave(m)
  \/ \E x \in Subs : Announce(x) \/ Cleanup(x)

Next ==
  \/ \E u \in Users : Publish(u)
  \/ MayStop /\ Stop
  \/ LoopStep

\* Ready tasks get to run; the model, the tools and the subagents (all of which
\* the code bounds by timeouts and iteration counts) come to an end.
Fairness ==
  /\ WF_vars(Dispatch)
  /\ WF_vars(PollTimesOut)
  /\ \A m \in M : WF_vars(TurnStep(m))
  /\ \A x \in Subs : WF_vars(Announce(x)) /\ WF_vars(Cleanup(x))

Spec == Init /\ [][Next]_vars
FairSpec == Spec /\ Fairness

-----------------------------------------------------------------------------
(* Properties.                                                              *)

\* The type of every variable.
TypeOK ==
  /\ inbound \in Seq(M) /\ consumed \in Nat /\ outbound \in Seq(Reply)
  /\ running \in BOOLEAN /\ polling \in BOOLEAN
  /\ pc \in [M -> {"new", "inbound", "lock", "gate", "begin", "model", "tools", "done"}]
  /\ lockQ \in [Keys -> Seq(M)]
  /\ gateQ \in Seq(M)
  /\ hist \in [Sessions -> Seq(Entry)]
  /\ ckpt \in [Sessions -> Seq(Entry)]
  /\ buf \in [M -> Seq(Entry)]
  /\ fed \in [M -> BOOLEAN]
  /\ iter \in [M -> 0..(MaxIter - 1)]
  /\ todo \in [M -> Seq(Tools \cup {"asleep"} \cup Subs)]
  /\ toolCtx \in Sessions
  /\ sentInTurn \in BOOLEAN
  /\ outcome \in [Keys -> Reasons \cup {"none"}]
  /\ sub \in [Subs -> {"free", "called", "running", "announced", "cleaned"}]
  /\ origin \in [Subs -> Sessions]
  /\ pending \subseteq Subs
  /\ seen \in [M -> SUBSET Subs]

\* Announced subagents: their result has been handed over.
Announced == {x \in Subs : sub[x] \in {"announced", "cleaned"}}
Receivers(x) == {m \in M : x \in seen[m]}

\* The direct path neither loses nor repeats a result: a finished subagent's
\* result waits in _pending_results or has gone to exactly one turn, through
\* whichever of the draining iterations and yields came first.
ResultsConserved ==
  \A x \in Subs :
    /\ x \in pending => x \in Announced /\ Receivers(x) = {}
    /\ x \in Announced \ pending => \E m \in M : Receivers(x) = {m}
    /\ x \notin Announced => Receivers(x) = {}

\* A reply that ends the wait of whoever listens on a chat.
EndsWait(r) == r.to[1] = "chat" /\ r.is # "tool"

\* The turn of a subagent's announcement publishes nothing to a chat, whatever
\* it does and however it ends: the collector would take it for the answer.
OnlyUsersAnswered ==
  \A i \in 1..Len(outbound) : EndsWait(outbound[i]) => outbound[i].msg \in Users

\* Session history stays a legal conversation: every assistant message with
\* tool calls is directly followed by the outcome of those very calls.
CallsPaired ==
  \A s \in Sessions : \A i \in 1..Len(hist[s]) :
    hist[s][i].is = "calls" =>
      /\ i < Len(hist[s])
      /\ hist[s][i + 1].is \in {"results", "interrupted"}
      /\ hist[s][i + 1].turn = hist[s][i].turn
      /\ hist[s][i + 1].it = hist[s][i].it

\* "Task interrupted before this tool finished" is recorded of dead turns only.
OnlyDeadTurnsInterrupted ==
  \A s \in Sessions : \A i \in 1..Len(hist[s]) :
    hist[s][i].is = "interrupted" => pc[hist[s][i].turn] = "done"

\* No part of a turn is recorded twice, be it saved at the turn's end or
\* restored from its checkpoint.
NoDuplicates ==
  \A s \in Sessions : \A i, j \in 1..Len(hist[s]) :
    hist[s][i] = hist[s][j] => i = j

\* A turn goes without an answer of its own only if it sent a message itself.
\* (The flag is one for all sessions; this is a promise to messages that share
\* a session and therefore a lock.)
SuppressedOnlyIfSent ==
  \A u \in Users :
    pc[u] = "done" =>
      \E i \in 1..Len(outbound) : /\ outbound[i].msg = u
                                  /\ outbound[i].is # "empty"

\* What a user was answered is in the session's history with what was asked.
AnsweredTurnRecorded ==
  \A i \in 1..Len(outbound) :
    outbound[i].is = "answer" =>
      LET u == outbound[i].msg
          h == hist[SessionOf[u]]
      IN \E j, k \in 1..Len(h) :
           /\ j < k
           /\ h[j].turn = u /\ h[j].is = "input"
           /\ h[k].turn = u /\ h[k].is = "final"

\* Every published message is processed to its end, unless the loop is stopped;
\* what has been dispatched is processed even then.
EveryMessageProcessed ==
  \A m \in M :
    /\ pc[m] = "inbound" ~> pc[m] = "done" \/ ~running
    /\ pc[m] = "lock" ~> pc[m] = "done"

-----------------------------------------------------------------------------
(* The loop implements the dispatcher's promise.                            *)

Phase(m) == CASE pc[m] = "new" -> "new"
              [] pc[m] \in {"inbound", "lock", "gate"} -> "waiting"
              [] pc[m] \in {"begin", "model", "tools"} -> "processing"
              [] pc[m] = "done" -> "finished"

NoKey == <<"none", DirectSession>>

D == INSTANCE Dispatcher WITH
       Msgs <- M, Limit <- GateLimit, order <- inbound,
       key <- [m \in M |-> IF pc[m] = "new" THEN NoKey ELSE Key(m)],
       phase <- [m \in M |-> Phase(m)]

\* Messages of a key are processed one at a time in the order of publication,
\* at most GateLimit at once, and each once.
DispatchesInOrder == D!Spec

=============================================================================
