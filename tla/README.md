# TLA+ verification of agent-test-bench

agent-test-bench records agents at work on benchmark tasks and replays the
recordings to measure systems.  This directory holds TLA+ models of its
concurrent core, the TLC configurations that check them on small instances, and
theorems about them that TLAPS checks for every value of the constants.  Paths
below are relative to the repository; `oc/` stands for `src/agents/openclaw/`.

- [1. The system](#1-the-system)
- [2. The modules and the code](#2-the-modules-and-the-code)
- [3. What the runs check](#3-what-the-runs-check)
- [4. What is proved](#4-what-is-proved)
- [5. Where the code and its description disagree](#5-where-the-code-and-its-description-disagree)
- [6. What is not modelled, and why](#6-what-is-not-modelled-and-why)
- [7. Plan](#7-plan)
- [8. Running it](#8-running-it)

## 1. The system

### 1.1 Components that decide something concurrently

| component | state | operations | interacts with | hard because | correct when |
|---|---|---|---|---|---|
| agent loop and dispatcher, `oc/_loop.py` | a lock per dispatch key, the concurrency gate, last outcomes, running flag | `run`, `_dispatch`, `_process_message`, save and restore of checkpoints | takes from and puts on the bus; runs `AgentRunner`; reads and writes sessions | many dispatch tasks interleave at every `await`; errors and checkpoints | per key one at a time and in order; a session's history is a legal conversation that repeats nothing; everyone is answered |
| agent runner, `oc/_runner.py` | messages of the turn, iteration, malformed counters | request, tools, finalisation, drain of results | provider, tools, hooks, subagent manager | six ways to end | the bound on iterations holds, what is answered is recorded |
| subagent manager, `oc/_subagent.py` | running tasks, tasks per session, pending results | `spawn`, announce, drain, count, cancel | loop (through bus and drain), tools | every result travels on two paths | a result is neither lost nor handed out twice |
| tools, `oc/tools/` | context of message/spawn/yield, sent-in-turn flag | execute | bus, subagent manager, processes | one tool object serves all sessions | a reply goes to its own chat; an answer is suppressed only if one was sent |
| message bus, `oc/bus/` | two unbounded queues | publish, consume | everyone | order | fifo |
| session drivers, `oc/_session_runner.py`, `src/agents/benchmarks/_bfcl.py`, `oc/eval/collector.py` | an event per chat, replies | publish a turn, wait, stop, report | bus, loop | the wait has no timeout | waits for its own turn, reports how it ended |
| session store, `oc/session/manager.py` | files, cache | get, save, load | loop | files are rewritten in place | what was saved is what is loaded |
| memory consolidation, `oc/_memory.py` | last consolidated index, failure count, `MEMORY.md`, `HISTORY.md` | consolidate, archive | loop, provider, session store | awaits the model between reading and writing, for sessions that share the memory; agents write `MEMORY.md` too | a message hidden from the prompt is archived, once; no facts are lost but to a writer that knew an older file |
| trace simulator, `src/trace_collect/simulator.py` | sessions, thread pools, semaphore, barrier, event, time zero | prepare, meet, replay, tear down | containers, worker processes | several processes that fail or die | nobody replays early or alone; everything ends and is cleaned up |
| trace collector, `src/trace_collect/collector.py` | results, completed tasks, prefetch, the run directory | run, resume, report, clean up images | attempt pipeline, image preparation, docker | concurrent attempts; kills and full disks between any two writes; a run directory outlives its process | what is finished is not repeated, what failed is; a verdict stands on a whole trace and is never changed; images stay within their budget |
| attempt pipeline, `src/trace_collect/attempt_pipeline.py` | steps of an attempt, sampler watcher | preflight, run, manifest | samplers, containers | every step may fail; the watcher races with teardown | a directory, a row and a manifest of its own for each attempt |
| image preparation, `src/harness/container_image_prep.py` | cache of fixed images, a lock per image | ensure, drop | collector, docker | double-checked locking, a cache that outlives what it names | nothing is built twice, what is handed out is there |
| runtime history, `src/trace_collect/package_runtime_prediction.py`, `runtime_knowledge.py` | history file, lock file, Personal KB | seed, finalize, merge | containers of concurrent attempts | a lock file between containers that may die; a file without a lock | every install is counted once, nobody waits for ever |
| container bootstrap, `src/trace_collect/runtime/task_container.py` | package directories, markers, user base, file lock | bootstrap | other processes, scripts in containers | checked without, then with the lock; scripts outlive commands that time out | a container starts with complete packages |
| tool scheduler, `prototype/tool_scheduler/` | core assignment, queues | admit, place, finish | tool processes | limits | cores are never oversubscribed beyond the limit |
| HF recording backend, `src/serving/recording/`, with the eviction policies, `src/serving/kv_policies/` | KV cache and token ids of an attempt, scores, recordings | chat, start, wait, finish; update, observe, evict | attempt pipeline, the agent in the container, the library's `generate` | one cache for all calls, evicted from while it is fed; calls that raise; attempts that start beside a call | the cache is the conversation, under the policy; a recording belongs to the attempt it ran in |
| samplers, `src/harness/*_sampler.py` | thread, samples | start, stop | attempt pipeline | start/stop from different threads | stop ends the thread and keeps its samples |

Components without concurrency or state of their own (plugins, parsers, text
and statistics, viewers, command line) are listed in `PROJECT.json` with the
reason they are left out.

### 1.2 How a request travels

A driver or client puts an inbound message on the bus.  `AgentLoop.run` takes
it and creates a dispatch task, which waits for the lock of the message's key
and then for the gate.  `_process_message` restores what a dead turn left in the
session's checkpoint, consolidates memory, takes a snapshot of the history and
runs `AgentRunner`.  The runner asks the model, executes the tools it calls in
order, and goes on until an answer or a limit.  Meanwhile each batch of calls is
written to the checkpoint, first as interrupted, then as complete.  At the end
the messages of the turn are saved to the history, the checkpoint is cleared,
the outcome is recorded and the reply goes on the outbound queue, where the
collector wakes whoever waits for that chat.

`spawn` starts a subagent task.  When it ends it announces its result twice: in
a list that running user turns drain between iterations (and `yield` polls),
and as an inbound message on channel "system", which starts a turn of its own
under a key of its own.  That two turns of one session can thus be under way at
once is the root of most of what is checked here.

`trace-collect simulate` with several workers partitions the sessions over
processes.  Each prepares all its sessions at once (in its thread pool, under a
shared semaphore), then all meet at a barrier; the main process writes the time
zero and sets an event; everyone replays and tears down.  Whoever fails breaks
the barrier and sets the event so that nobody waits for it; a done callback
does so for workers that die.

`trace-collect` itself goes through the tasks of a benchmark one after the
other.  For each it waits for the prefetched image, starts the attempts of the
task at once, starts the pull for the next task, gathers the attempts, writes a
row for each and removes the images that the next task does not need.  An
attempt makes its directory, gets a fixed image (built once, behind a lock),
runs the agent in a container, copies and rewrites the trace, and writes the
manifest last: a run that is killed and started again on the same directory
decides by the manifests which tasks are finished.  The containers of an
attempt use two stores that other attempts use at the same time: the Python
packages, filled by the first that needs them, and the runtime history, which is
seeded before and merged after the agent runs, and written by the agent itself.
With a local model, the agents of successive attempts talk to one recording
provider, which keeps a KV cache from call to call and writes a recording of
each call into the directory of the attempt.

## 2. The modules and the code

| module | models | composed with |
|---|---|---|
| `Dispatcher` | the promise of `AgentLoop.run`/`_dispatch`, abstractly | implemented by `AgentLoop` |
| `AgentLoop` | `_loop.py`, `_runner.py`, `_subagent.py`, the three context tools, the bus | `INSTANCE Dispatcher` |
| `SessionRun` | `SessionRunner.run`, the BFCL runner, `ResultCollector` | extends `AgentLoop` |
| `SessionMemory` | `session/manager.py`, `_memory.py` and how `_loop.py` calls them; the file tools of `tools/filesystem.py` on `MEMORY.md` | `MCStores` |
| `ReplayStart` | multi-process start and end of a cloud-model replay | |
| `AttemptLedger` | what a run directory promises to its readers, abstractly | implemented by `Collector` |
| `Collector` | `collector.py`, `attempt_pipeline.py`, `container_image_prep.py` | `INSTANCE AttemptLedger` |
| `SharedHistory` | `package_runtime_prediction.py`, `runtime_knowledge.py` | `MCStores` |
| `Bootstrap` | `runtime/task_container.py`, `bootstrap_task_container_python` | `MCStores` |
| `SessionCache` | `backend_hf.py`, `hooks.py`, `kv_policies/`, their use by `run_attempt` | `MCStores` |
| `MCAgentLoop`, `MCSessionRun`, `MCCollector`, `MCStores` | instances for TLC | |
| `AgentLoopProofs`, `ResultProofs`, `RunProofs`, `ReplayProofs`, `CollectorProofs` | theorems of the modules they are named for | |
| `MemoryProofs`, `CacheProofs` | theorems of `SessionMemory` and `SessionCache` | |
| `StoresProofs` | theorems of `SharedHistory` and `Bootstrap`, and of the four stores together | extends `MemoryProofs`, `CacheProofs` |

### AgentLoop

*Atomicity.*  Everything runs in one asyncio loop, so an action is the code
between two awaits that may really suspend.  `Busy` and `Idle` say this: while
a task is inside such a stretch (executing tool calls that do not suspend), no
other moves.  Awaits that never suspend (an uncontended `asyncio.Queue.put` on
an unbounded queue, an `async def` that does no I/O) are not interleaving
points.

| variable | code |
|---|---|
| `inbound`, `consumed`, `outbound` | the two bus queues; `inbound` keeps what has been taken so that order can be spoken of |
| `running`, `polling` | `AgentLoop._running`, the `while` of `run` |
| `pc[m]` | where m's dispatch task is: `lock`, `gate`, `begin` (in consolidation), `model`, `tools`, `done` |
| `lockQ`, `gateQ` | holders and waiters of `asyncio.Lock`, waiters of the semaphore; both are fifo |
| `hist`, `ckpt` | `Session.messages`, the runtime checkpoint as it would be restored |
| `buf`, `fed`, `iter`, `todo` | the turn's own messages, whether the last is synthetic feedback, iteration, remaining calls |
| `toolCtx`, `sentInTurn` | the shared state of the message, spawn and yield tools |
| `outcome` | `_last_run_outcomes` |
| `sub`, `origin`, `pending`, `seen` | subagent tasks, their announce address, `_pending_results`, and (history variable) who was given which |

*Actions.*  `Publish`, `Dispatch`, `PollTimesOut`, `Stop` are the bus, `run` and
`stop` (taken freely if `MayStop`, else only by a driver); `AcquireLock` and
`PassGate` are `async with lock, gate`; `PassGate` goes on to consolidation, which
is an await, `Begin` from there to the model. `ReplyTools`, `ReplyMalformed`,
`ReplyFinal`, `ReplyEnd`, `Raise` and `RaiseInSave` are all that a request can
come to, `Exec`, `SendMessage`, `Spawn`, `YieldPoll`, `YieldTimesOut` and
`ToolsDone` execute a batch, `Announce` and `Cleanup` end a subagent.  A turn ends
through `Finish` or `Abort`, each one stretch without an await, as in the code.

*Data.*  A history entry is (turn, iteration, kind): enough to tell whose it is,
whether calls and results pair up and what `_restore_runtime_checkpoint`
compares.  Text, arguments and prompts are left out; that the model answers,
calls, fails or writes a malformed call is chosen freely.

### SessionRun

Composes the loop with one driver: `OutcomeKind` and `ReadsTrace` make it
`SessionRunner` (looks the outcome up under the overriding key, then searches
the trace for LLM errors) or the BFCL runner (several turns, looks up under
"channel:chat_id").  `ended` is a history variable: what the runner itself said
of each turn.

### ReplayStart

`at[s]` is the stage of a session's preparation, `jobs[p]` the queue of the
thread pool of process p, whose first `Threads` entries have a thread (each
`asyncio.to_thread` is a new entry at the end), `permits` the semaphore,
`up` the running containers.  `arrived`, `barrier`, `event`, `zero` are the
shared objects, `proc`, `result` and `watch` each process, how its part ended,
and the done callback of a worker.  Every step of a preparation can fail.
`Crash` is the operating system killing a worker: `ProcessPoolExecutor` then
terminates the others and fails all futures; what the dead had asked of the
manager process (a permit) is still granted.

### Collector

One process that goes through the tasks (`Loop`), a thread that prefetches
(`PrefetchEnds`) and one worker per concurrent attempt (`Attempt(x)`).  A worker
is at a step `at[x]` of `run_attempt`: preflight, waiting for the image lock,
build, box (it has an image), agent, trace, manifest.

| variable | code |
|---|---|
| `dirs`, `trace`, `manifest`, `report` | on the disk: attempt directories, `trace.jsonl`, `run_manifest.json`, `results.jsonl` |
| `local`, `boxes` | images and containers that docker has |
| `done`, `rows`, `pre` | completed tasks as loaded at the start, results, the prefetch and its future |
| `cache`, `lock` | `_IMAGE_CACHE` and the lock of the image at hand |
| `img`, `out` | the context's fixed image, how its inner coroutine ended |
| `born`, `excused` | history variables: the directories of this invocation; images that cleanup could not or did not know to remove |

Two kinds of command have no timeout: `_image_exists`, and the agent, whose
output is read to its end before the timeout of its process applies.  That one
of them never returns is a fault (`LookHangs`, `PrefetchHangs`, `SourceHangs`,
`CleanHangs`, `AgentHangs`): the thread is `stuck`, and with it whoever needs
what it holds.  A build that is reported as failed may have committed its image
(`BuildLeaves`), because the removal of its container, or the commit itself,
exceeded its time; a commit that did is taken to be done, or never to be, by the
time the container is removed.

A file is missing, torn or whole; a manifest also holds its verdict.  `Fault`
counts whatever goes wrong: failed pulls, probes, builds, containers, agents, a
stop that times out, a full disk in the middle of a write, a kill (`Crash`) with
any of the writers in the middle of its file.  `Start` begins another invocation
on what is left, with any concurrency, with or without `--rerun-completed`.

`AttemptLedger` is the view of who reads the directory later: a verdict appears
at most once and is never changed.

### SharedHistory, SessionMemory, Bootstrap, SessionCache

Four stores that several attempts, turns or calls share, each with the protocol by
which it is written.  They do not touch each other, so `MCStores` runs one of
them at a time, chosen in the initial state.

`SharedHistory`: a container p is the thread of one attempt and then its agent,
which seed, finalize and merge.  `_history_lock` is modelled step by step
(exclusive creation, the stale check, the unlink *by name*, the deadline), as
are the two ways of replacing a file: under a name of one's own, and under a
name built from a process id that two containers may share.  `robbed`, `stale`
and `kbRaces` are history variables that say whether the situations in which the
code gives no guarantee have occurred.

`SessionMemory`: a turn consolidates before it asks the model, a background task
does so after it was saved.  `chunk[t]` is what `maybe_consolidate_by_tokens`
holds across the await: the boundary, the round and the memory it read.
Tokens are counted in messages.  A save truncates, then writes the offset, then
the messages; `Interrupted` is what can be loaded of a save that did not end.
The third failure in a row archives the chunk as it is and moves the offset like
a summary, and the save of that offset may fail in either case (`Done`).
`MEMORY.md` has a second kind of writer, the agent of a running turn, whose
prompt tells it to note facts there: it edits the file in one place, writes all
of it as it was last shown it, or reads it again (`AgentEdits`, `AgentWrites`,
`AgentReads`).  `behind` are those, asking or running, who were shown a file that
somebody has written since.

`Bootstrap`: workers check the marker without and then with the file lock; a
script in the container fills a directory in steps and writes the marker last.
A script that outlives its command goes on writing (`TimesOut`).  `Contaminate`
is an agent that installs packages of its own into the shared user base or
directory.

`SessionCache`: an action of a call for each stretch of `_chat_locked` between
which another thread can act, and for each forward pass; `run_attempt` beside it.
A token is known by the call that said it; `kv[l]` are the slots of a layer, with
the position each was given, and `fed` is a history of what was put in. `Updates`
is `BaseEvictionCache.update`, `Observe` what H2O does when the hook delivers the
attention, and `mass[l][i]` the slot whose attention score i accumulates.  Which
slots have the most attention is left open, so every selection H2O could make is
explored.  With `prefill_mode = "full"` (`setup.sample = 0`) the hook shows H2O
every row of a prompt's attention; with "sampled" at most so many, the same of
every layer, and whether the last row is among them is open (`LastShown`): only if
it is does H2O decide what it put off.  When a pass ends in an exception, the
layers before it have passed, the one at fault is untouched, or updated and not
observed, and the later ones are untouched (`PassesUntil`).

## 3. What the runs check

| run | instance | checks |
|---|---|---|
| `loop_users` | two user messages of one session, two iterations, tool and message calls, one malformed call | `TypeOK`; `CallsPaired`: calls are directly followed by their own results or interruptions; `NoDuplicates`: nothing is recorded twice, though saving and restoring overlap; `OnlyDeadTurnsInterrupted`; `AnsweredTurnRecorded`: what a user was answered is in the history with the question; `SuppressedOnlyIfSent`: a turn without answer has sent a message |
| `loop_subs` | one evaluated message, two subagents spawned by any turn, waited for or not | `ResultsConserved`: a result waits or went to exactly one turn; `OnlyUsersAnswered`: an announcement's turn never ends a client's wait; `DispatchesInOrder`: the loop implements `Dispatcher` |
| `loop_live` | one message, one subagent, one gate slot, a loop that may be stopped, fairness | `EveryMessageProcessed`: what is dispatched is processed, stopped or not, also when the only slot is held by a turn that yields for a subagent whose announcement waits for that slot |
| `run_bfcl` | BFCL runner, two turns, fairness | `NoEarlyWake`: no reply of an earlier turn ends the wait for a later one; `VerdictIsOutcome`: the reported stop reason is how the last turn ended; `AnsweredIsReported` |
| `start_prep` | 2 processes, 4 sessions, limit 2, 2 threads each, every step may fail | `PrepLimited`; `OnlyKnownLeaks`: containers left running are those of a failed interpreter probe; `RunEnds` |
| `start_crash` | 3 processes, 3 sessions, workers may be killed | `ReplayAfterAllPrepared`; `StartIsGlobal`: if one replays, nobody else was turned away, unless a worker died or the main process failed; `RunEnds` |
| `collect` | two tasks that share an image or do not, one or two attempts at once, three attempt numbers, two invocations on one directory, two faults, commands that never return among them | see below |
| `stores` | four parts, one of which runs: two containers and one history, lock limit 1, one install, one mishap; two sessions with two turns each and one memory, a background task, budget 3, two rounds, the second failure in a row archives raw, one note by an agent or one trouble; three workers, one set of requirements, two hitches; two attempts and three calls of one cache, one failure, seven policies with their budgets | see below |
| `v_interrupted`, `v_verdict`, `v_unreported`, `v_starved` | see section 5 | violated |

`collect` (545 796 states): `VerdictHasTrace`: a manifest that says completed or
exhausted stands beside a whole trace, whatever was killed in the middle of which
file; `NoDoubleBuild`: an image is built by one worker at most, and only if it is
not there; `ImageAtHand`: a worker that starts a container has the image it names,
though the loop removes images and the prefetch of the next task brings one;
`ImageBudget`: no more images than the task at hand and the next one need, but for
those that cleanup could not remove, that a killed process left, that concurrent
attempts built while the first one fell back to the source image, or that a build
had committed when it was reported as failed; `FreshDirectory`: no attempt writes
into a directory that was there; `EveryAttemptReported`: whenever `results.jsonl`
is written it has a row for every attempt this invocation began; `LedgerSpec`: the
run directory implements `AttemptLedger`, that is a verdict once visible is never
changed by later invocations; `InvocationEnds`: under fairness, each invocation
ends, is killed, or has a thread that waits for a command without a timeout which
never returns (`Stuck`); whatever else fails, nobody waits for ever for a lock, a
prefetch or an attempt.

`stores` (387 166 states): `StoreTypes` (the one type invariant); for the history
`LockKept` (two containers are inside the lock only if one lock was taken for
stale), `HistoryExact` (the history holds the last `HISTORY_LIMIT` installs of all
containers, each once, unless a lock was broken), `KbKept` (the Personal KB loses
an install only when two containers updated it at once, and is a whole file even
then, unless they share a process id); for the memory `HiddenIsArchived` (what the
offset hides from the prompt is in `HISTORY.md`, once, and once more at most for
every kill or failed write), `SavedAsKept` (a session is on the disk as it is in
memory unless its last save failed), `MemoryKeepsFacts` (`MEMORY.md` loses facts,
consolidated ones or the notes of agents, only when somebody wrote over what
another one had written since the file was shown to him, or when a kill or a full
disk truncated it); for the packages `ScriptsApart` (one script writes a
directory, unless one outlived its command), `NotUnderAnAgent` (no directory that
a ready container uses is being filled, with the same exception),
`ReadyIsComplete`; for the cache `CacheIsText` (as long as no call has failed on
it, the cache was fed the conversation the provider compares the next prompt with,
each token at its position - `FedTheText`; a layer holds of it what the policy
promises, or, if H2O sees a sample of the rows only, all it had when it put off
the decision - `Windowed`; and a score belongs to the slot with its index, even
after failures - `ScoresFollow`), `RecordedWhereItRan` (a `meta.json` lists all
recordings of its attempt and no others, unless a call that began after the wait
overlapped the start or the end); and `WaitsEnd`: whoever waits for the lock file
or the package lock gets on.

*Bounds.*  `MaxIter = 2` reaches both an iteration that continues and the last
one.  Two messages of a session suffice for "one after the other": restoring
looks at one earlier turn only, and the drivers compare a turn with the one
before.  Two subagents are the fewest that can be drained together, apart, or
by turns that race.  Malformed budget 1 reaches the feedback, 0 the exhausted
budget.  In `start_prep` each process has as many sessions as threads, and the
limit is below the number of sessions, so sessions wait for permits in threads;
`start_crash` needs two workers (one dies, another is terminated) beside the
main process.  A message is published once and a subagent started once, so all
the loop's instances are finite without further bounds.

In `collect`, two tasks are the fewest with a next task to prefetch for, and the
choice of whether they share an image decides whether cleanup may remove it.
Two invocations are a crash and a resumption; two faults allow a failure and a
kill, or a kill in each invocation.  Three attempt numbers leave room for two
concurrent attempts and one more by the second invocation, or the reverse.  In
`stores`, the lock file needs a holder and a waiter, the memory two sessions
because they share `MEMORY.md`, and the packages three workers: one whose script
outlives its command, one that takes over, one that finds the marker.  For the
cache (`Policies` in `MCStores`), three calls build, extend and extend or rebuild
it; texts of five tokens pass the budgets of two and three, so that slots are
evicted in the prompt and again while generating; a sample of one row leaves a
prompt of two or more without its last, and the second of two calls finds the
decision put off; two layers let a failure leave
them uneven; and a call outside the run of its agent needs two attempts.  These
are varied separately, not all with each policy.  In the memory a note and a trouble do not meet
in one behaviour (`OneOff` in `MCStores`); that they may is part of the theorems.

*Deadlock* checking is off because every instance ends: all messages processed,
the simulation over, the invocations used up.  That they do not end too early is
what the liveness properties say.

*Fairness.*  In `AgentLoop`, weak fairness of each task's next step and of
subagents: asyncio runs ready tasks, requests and tools have timeouts, subagents
have an iteration limit.  Publishing, stopping, raising and `YieldTimesOut` are
not fair: nothing may depend on them.  `FairRunSpec` adds the driver and the
collector, tasks of the same loop.  In `ReplayStart`, weak fairness of each thread
and process; the container commands they wait for have timeouts, but for the check
whether an image is there, which is taken to return here.  In `Collector`,
of the loop, the prefetch and each attempt: they are threads that run on, and
their commands have timeouts but for two.  `_image_exists` has none
(`container_image_prep.py:73`; it runs in the prefetch, under the image lock and
in cleanup), and the output of the agent is read to its end before `wait` applies
the timeout (`runtime/task_container.py:786`).  A thread whose command never
returns is stuck, none of its steps is enabled, and fairness says nothing of it.
In the stores, of each container's, worker's and script's next step
(`ContainerStep`, `Prepare`, `Script`).  Crashes, faults, kills, mishaps, hitches
and commands that never return are never obliged to happen.  Locks and the gate
are fifo in `AgentLoop` because they are in asyncio, so weak fairness is enough
there; the lock file is not, and a waiter is sure to end only by its deadline.

*Mutants.*  Beside each definition that a property depends on stands a mutated
form of it (`LockIgnored`, `KeepPermit`, `EventFirst`, ...), a plausible slip in
that code.  `PROJECT.json` pairs each property with one; with the mutant in
place TLC finds the property violated.

## 4. What is proved

TLC's results are for the instances above.  The theorems hold for all constants
that satisfy the assumptions in the modules: user and subagent names are
disjoint, bounds are positive, tool names are no subagents
(`MessageAssumption`, `BoundAssumption`, `BatchAssumption`); a driver's turns are
different messages with one override (`DriverAssumption`); there are at least
two processes and at most as many permits as sessions (`StartAssumption`); the
attempt numbers leave room for one task (`CollectorAssumption`,
`ImagesAreNamed`); the names that mean "nobody" are nobody's
(`HistoryAssumption`, `BootstrapAssumption`); background tasks have numbers other
than that of a turn, and the bounds of a session are numbers
(`MemoryAssumption`); a policy is configured as its constructor demands: `h2o`
with room for its two windows, `streaming` with exactly that
(`CacheAssumption`).  Finiteness of `Users` and `Subs` is not assumed, nor that
of the containers, the workers, the sessions and the setups.

| theorem | statement |
|---|---|
| `AgentLoopProofs!TypeCorrect`, `InvariantHolds` | `Spec => []TypeOK`, `Spec => []IInv` |
| `AgentLoopProofs!LoopImplementsDispatcher` | `Spec => DispatchesInOrder`, that is `D!Spec` |
| `ResultProofs!ResultsAreConserved` | `Spec => []ResultsConserved` |
| `ResultProofs!AnnouncementsStaySilent` | `Spec => []OnlyUsersAnswered` |
| `ResultProofs!AnswersAreRecorded` | `Spec => []AnsweredTurnRecorded` |
| `ResultProofs!CallsStayPaired` | `Spec => []CallsPaired` |
| `ResultProofs!NothingTwice`, `OnlyTheDeadInterrupted` | `Spec => []NoDuplicates`, `Spec => []OnlyDeadTurnsInterrupted`, if turns of a session share a lock (`SharedLocks`: no subagents, and the users of a session are all overridden or none) |
| `ResultProofs!NobodyIsLeftOut` | `Spec => []SuppressedOnlyIfSent`, if all turns share a lock (`OneLock`) |
| `RunProofs!NobodyWakesEarly` | `RunSpec => []NoEarlyWake` |
| `RunProofs!SessionVerdictIsOutcome` | `RunSpec => []VerdictIsOutcome` for the runner that looks the outcome up under the processed session, without subagents |
| `ReplayProofs!NobodyReplaysEarly` | `Spec => []ReplayAfterAllPrepared` |
| `ReplayProofs!PreparationIsLimited` | `Spec => []PrepLimited` |
| `ReplayProofs!NobodyReplaysAlone` | `Spec => []StartIsGlobal` |
| `ReplayProofs!OnlyKnownOnesLeak` | `Spec => []OnlyKnownLeaks` |
| `CollectorProofs!Types`, `NotRepeated` | `Spec => []TypeOK`, `Spec => []EndedIsNotRepeated` |
| `CollectorProofs!Verdict`, `OneBuild`, `AtHand`, `Stock` | `Spec => []VerdictHasTrace`, `[]NoDoubleBuild`, `[]ImageAtHand`, `[]ImageBudget` |
| `CollectorProofs!Fresh`, `Reported` | `Spec => FreshDirectory`, `Spec => EveryAttemptReported` |
| `CollectorProofs!Ledgers` | `Spec => LedgerSpec`, the refinement of `AttemptLedger` |
| `StoresProofs!Exclusion`, `Updated` | `HistSpec => []LockKept`, `HistSpec => []UpdatedWasWritten` |
| `StoresProofs!NoInstallLost`, `KbIsKept`, `HistoryTypes` | `HistSpec => []HistoryExact`, `[]KbKept`, `[]HistTypeOK` |
| `StoresProofs!Apart`, `Ready`, `Undisturbed`, `BootTypes` | `BootSpec => []ScriptsApart`, `ReadyIsComplete`, `[]NotUnderAnAgent`, `[]BootTypeOK` |
| `MemoryProofs!NothingForgotten`, `KeptAsSaved`, `FactsStay`, `MemoryTypes` | `MemSpec => []HiddenIsArchived`, `[]SavedAsKept`, `[]MemoryKeepsFacts`, `[]MemTypeOK` |
| `CacheProofs!Recorded`, `CacheKeepsText`, `CacheKeepsTypes` | `CacheSpec => []RecordedWhereItRan`, `[]CacheIsText`, `[]CacheTypeOK` |
| `StoresProofs!StoresImplement` | a behaviour of `MCStores` is one of `HistSpec`, `MemSpec`, `BootSpec` and `CacheSpec` |
| `StoresProofs!StoresTyped` | `FairSpec => []StoreTypes`, with it |

*The loop.*  `TypeOK` is not inductive: `Tail(lockQ[Key(m)])` is a sequence only
if the queue is not empty, and a subagent's `origin` (hence its key) may change
only while no announcement of it is about.  `IInv` adds `SubInv` (no message of
a subagent before it announces), `TodoInv` (a called subagent is in one batch
only, so it starts once), `LockInv` and `GateInv` (who waits is in the queue,
who holds is its head) and `QueueInv` (messages are on the bus once and have
been dispatched up to `consumed`).  There is a lemma per action.

*The dispatcher.*  The refinement maps the phases of a message to
waiting/processing/finished and the published order to `inbound`.  A step that
starts a turn must show that all earlier messages of the key are finished;
`FifoInv` does: the queue of a lock holds exactly live messages of its key
(`LockQueues`), in the order of publication (`QueuedInOrder`).  `StepShapes`
classifies all steps of the loop, as far as the dispatcher sees them, into five
kinds, and each kind is dealt with once.  The gate bound is the guard of
`PassGate`.

*Results.*  `ResultsConserved` is inductive relative to `IInv`: a step hands all
or part of `pending` to one turn (`TakesConserves`), adds one announced result
that nobody has seen (`AnnounceConserves`), or touches neither.
`OnlyUsersAnswered` needs only what is known of each reply when it is put on the
outbound queue (`Proper`); the step that does it is the end of a turn.

*Histories.*  A history changes in three ways: it is given what a checkpoint
restores, what a turn saves, or nothing.  `RecInv` says that no history ends with
a user's message (`EndInv`), so that none is merged into the next one's, that a
turn whose buffer can be saved has its question in it (`AskedInv`), and that what
was saved stays (`AnswersRecorded`).  `PairInv` says that histories, checkpoints
and buffers are sequences of rounds, in each of which every call is followed by
what became of it: joining such sequences gives such a sequence, whoever they
belong to, so `CallsPaired` holds also for turns that race.  `NoDuplicates` does
not, and is proved for turns that share a lock: `OnceInv` says that what is in a
history belongs to turns that are over (`DeadInHistory`), that the turns in a
checkpoint have nothing in the history yet (`NewInCheckpoint`), and that a buffer
holds messages of its own turn only, none of them twice (`OwnMessages`).
`SentInv` follows the sent-in-turn flag, which belongs to the one turn under way.

*The drivers.*  Each step of the loop either is `Unseen` by the drivers or `Ends`
one turn: appends its answer to the outbound queue and records its outcome.
`RInv` counts: which turns are published (`Progress`, `Published`), answered
(`Once`), signalled and waited for (`Signalled`, `Waited`).  `Settled` says that
the recorded outcome is that of the turn last ended.

*The replay.*  `ChunksPartition` shows that quotient and remainder divide the
sessions into disjoint chunks that cover all, so that "all processes have
prepared theirs" is "all sessions are prepared".  `StartInv` says that who
stands at the barrier has prepared everything (`ArrivedPrepared`), that nothing
has been decided about a process before (`Undecided`), and that beyond the
barrier everyone has arrived (`BeyondBarrier`).  `PermitInv` counts permits and
holders; `PrepareShape` reduces the six actions of a preparation to "the stage
changes and the permit with it".

That nobody replays alone is harder, because so many steps break the barrier or
set the event: failures, the end of the main process, the done callbacks.
`GlobalInv` separates two times.  While the barrier fills (`Filling`), nobody
has got beyond it, no callback has acted and the event is not set, unless a
worker was killed.  When everyone has arrived (`Released`), and as long as no
worker has been killed and the main process has not failed, no process has been
turned away, the event comes after the time zero, no callback is about to abort
(a worker that ended has seen the event), and the barrier is broken only by a
main process whose workers have all ended.  `ResultsFinal` supplies that a
result, once there, never changes, so that an excuse stays one.  `LeakInv` says
for each session in which stage its container is up (`UpStages`), that a process
ends only when its sessions are through (`Through`), and what the last one did
with its container (`LastOut`).

*The collector.*  `Inv` has two halves.  `Loaded` is about the process: the types,
where the loop and its workers stand (`Placed`), that caches, prefetch and workers
speak of images that are there (`Stocked`), and that who builds has the lock
(`Building`).  `Files` is about the disk: nothing is there beyond the directories
made (`Untouched`), attempts at hand are above all that were there (`Rising`),
each has a directory, no manifest yet, and a whole trace when it comes to the
manifest (`Owned`), manifests are in directories only (`Filed`), a verdict has its
trace, a task that ended is not at hand again (`EndedIsNotRepeated`), and the rows
cover the attempts (`Covered`).  The two halves are preserved together, action by
action; a kill may tear what is being written and clears the process.  `BInv` adds
for `ImageBudget` which images may be there (`Known`): those of the tasks at hand
and next, and the excused ones, among them what a failed build committed.

*The shared stores.*  For the lock file, `LockInv` says that a container inside
holds it or was robbed (`InsideHolds`), and that a lock file is removed by others
only after it was old (`StaleFirst`); `RowInv` that a row is written after the
history is.  `HistoryExact` is not inductive: between its load and its write a
container has the history in memory.  `ShelfInv` adds that until a lock is taken
for stale this is the history still (`ReadIsHistory`), which needs `InsideHolds`.
Two lemmas do the rest: a merge finds nothing to take, because every row says
that its install is in the shared history already, and to cut a sequence, append
to it and cut again is as good as to cut once.  For the Personal KB, which has
no lock, the same is said of the one container between its load and its
replacement (`OneUpdates`), and that it finds in the temporary file what it put
there (`OwnFile`).

For the packages, `BootInv`: who runs a script has the lock (`LockHeld`), a
script without a worker outlived its command (`WaitedFor`), scripts fill before
they mark (`Installed`), and none begins before its worker has left the queue
(`NotBegun`).  That nothing is installed under an agent needs `PlaceInv`: an
agent at work has a directory with a marker (`ReadyMarked`), a script that is
waited for fills one without (`FillsUnmarked`), and an isolated directory is
used by one worker only (`OwnIsolated`).

*The memory.*  `MemInv` is the three properties and what they rest on.  A message
must not be archived twice although chunks, turns and restarts interleave, so
`IdInv` says where messages can be: identities rise within a session and belong
to one session, in memory and in its file.  `AskInv` says that a task that asks
the model works from the session's offset on, and is the only one of its session
that does; `SeenInv` that a task, asking or running, which is not `behind` has
seen the memory there is;
`CountInv` that what is not hidden yet is archived only as often as something
went wrong in between.

*The cache.*  Two invariants on the same types (`CacheInv`, which says of a call
what it has of the prompt when).  `RecInv` is about the recordings: past a wait
the call under way began after it (`LateInv`), so an attempt that such a call
overlaps is among the strayed; of an attempt that has not started there is nothing
(`FreshInv`); the provider's notes and the directory agree, and its numbers are
new (`DirInv`); and nobody records any more where a `meta.json` has been written
(`SavedInv`).  `TextInv` is about the text: what was fed is the conversation up to
a point that moves with the passes, but for the ends of answers (`FedInv`); every
layer holds of it what the policy keeps, which is to say as many slots as the
budget, or as H2O had when it put off a decision, in order, with both windows
(`HoldInv`); and scores are those of their slots (`ScoreInv`).  `HoldsStep` shows
the second for any policy at once: to evict from what was kept, with new slots
behind, keeps of the whole what the policy promises.  It rests on lemmas about
`Pick` (what is kept moves up and keeps its order), proved by cardinality and not
by induction.

*The stores together.*  A step of one store leaves the variables of the others
alone (`StoresStep`), so a behaviour of `MCStores` is one of each, and what is
proved of each store holds of what the run checks.

*Only model-checked.*  Liveness (`EveryMessageProcessed`, `AnsweredIsReported`,
`RunEnds`, `InvocationEnds`, `WaitsEnd`), which is beyond the prover.
`UpdatedWasWritten` (a row says "updated" only of an install that was written to
the history) is the reverse: it is proved, and no run repeats it.  The type
invariant of `ReplayStart` is proved as `Typed` but for `jobs`, from which
entries are removed by the recursive `SelectSeq`.  `VerdictIsOutcome`,
`NoDuplicates`, `OnlyDeadTurnsInterrupted` and `SuppressedOnlyIfSent` are proved
under the conditions in the table; outside of them the code breaks them
(`v_verdict`), or nothing is claimed beyond the runs.

## 5. Where the code and its description disagree

Each of these has a run in which TLC finds the stated promise violated.

- `v_interrupted`: an announcement has a dispatch key of its own, so its turn
  does not wait for the turn that spawned the subagent.  It restores the
  checkpoint of that *running* turn into the history as "Task interrupted
  before this tool finished" and clears it (`oc/_loop.py:635`).
- `v_verdict`: `SessionRunner.run` looks the outcome up under its
  `session_key`, the loop stores it under the session processed, so a turn that
  ran out of iterations is reported as completed
  (`oc/_session_runner.py:1234`).  The BFCL runner does it right (`run_bfcl`).
- `v_unreported`: the error reply for a message on channel "system" goes to that
  channel, while the collector waits for `cli:<id>`, without a timeout
  (`oc/_loop.py:579`).
- `v_starved`: sessions wait for the shared permit inside pool threads that the
  permit holders need for `docker run`; with more sessions per process than
  threads, all stop (`src/trace_collect/simulator.py:2117`).

Seen while modelling, kept without a run of their own.  The properties except
these situations by name, usually with a history variable:

- `yield` ends at the first result, and at results of any session;
  `oc/tools/sessions_yield.py:50` reads as if it waited for all.
- `oc/_loop.py:387-390` says that the turn of an announcement leaves pending
  results to the main agent's loop; it does not drain between iterations, but a
  `yield` that its model calls takes them.
- A checkpoint that is restored does not hold the user's message of that turn.
- The sent-in-turn flag is one for all sessions: two sessions can suppress each
  other's answers.  `SuppressedOnlyIfSent` is for messages that share a lock.
- A killed worker takes its permits with it.  With fewer permits than sessions
  the main process can then wait for ever: set `PrepLimit = 1` in
  `start_crash.cfg` and `RunEnds` fails.
- A failed interpreter probe leaks its container; `OnlyKnownLeaks` excepts it.
- When several attempts of a task fall back to the source image, the loop
  removes what the first context names; an image that another one built stays
  (`excused` in `Collector`).
- A resumed invocation writes `results.jsonl` anew, with the rows of its own
  attempts only.
- A kill after the manifest leaves an attempt that counts as completed though
  its row and the artifacts written later are missing.
- The Personal KB is read and replaced without a lock: two containers that write
  it at once lose one's outcomes, and the temporary name is built from a process
  id that containers may share (`kbRaces` in `SharedHistory`).
- A build that is reported as failed may have committed its image: `docker stop`
  or `docker rm` in the `finally` of `_build_fixed_image` exceeds its time, or
  `docker commit` does and the daemon goes on.  The source image is then cached
  and used, and cleanup does not know of the other one
  (`src/harness/container_image_prep.py:262`; `excused` in `Collector`).
- A command without a timeout that never returns hangs the invocation: the probe
  `_image_exists`, and an agent that keeps its stdout open, which is read to its
  end before the timeout applies (`Stuck` in `Collector`).
- One consolidation is enough to lose what an agent notes in `MEMORY.md`, as its
  prompt tells it to (`oc/_context.py:93`): the file is read before the model is
  asked and written whole after it (`oc/_memory.py:133`, `:210`).  The agent can do
  the same to a consolidation with the tool that writes whole files (`behind` in
  `SessionMemory`).
- A session file cut short in the middle of a save can hold an offset that lies
  behind its messages (`Interrupted` in `SessionMemory`).
- Packages that an agent installs into the shared user base before a new
  directory is built are recorded with it as legitimate (`Contaminate` in
  `Bootstrap`).
- With an eviction policy the last generated token of a call is counted among the
  cached ids but is in no cache, now or later: only the plain cache truncates
  (`src/serving/recording/backend_hf.py:1105-1118`), though
  `tests/test_hf_session_cache.py:283` speaks of a call that "ingests (prompt_1 +
  generated_1)".  `AnswerEnd` excepts it.
- A generation that raises leaves the cache ahead of the token ids.  The plain
  cache then fails the assertion at `backend_hf.py:1027` on every later call of
  the attempt, unless only layers after the first are uneven, which it does not
  look at; an eviction cache goes on with tokens the conversation does not have
  (`torn` in `SessionCache`).
- The hooks call a pass "decode" only if there are more slots than prompt tokens
  (`hooks.py:1056`, `1427`), which after an eviction is no longer so; the caches
  count passes and claim to match them (`kv_policies/base.py:263`).  With
  `per_head_stats_layers` the second such pass raises "second prefill capture".
  After a call that raised, the two can differ the other way: H2O then puts off
  a decision that the next hook takes for a generated token and does not decide,
  the cache stays over its budget, and a later pass raises "length mismatch"
  (`Mismatched` in `SessionCache`; `h2o.py:322`).
- With `prefill_mode = "sampled"` the same happens without any failure before: H2O
  decides what it put off only if the last row of the prompt is in the sample
  (`h2o.py:276-292`).  If it is not, the layer stays over its budget until the next
  pass decides without it, and what was put off stays: a later prompt whose sample
  has the last row finds it about another number of slots and raises "length
  mismatch".
- H2O with `recent_window = 0` wants scores for the slot just added, so every
  decision while generating is the fallback for missing scores (`h2o.py:403`).
- `start_attempt` and `finish_attempt` take no lock: a request that arrives after
  the wait is written into the directory of one attempt and listed in the
  `meta.json` of another, or of none (`strayed` in `SessionCache`).

## 6. What is not modelled, and why

Within the modelled components:

- `_restore_runtime_checkpoint` compares messages by their text.  The model tells
  equal texts of different turns apart, so it says nothing of a model that
  answers two turns in the same words.
- `/stop` and cancellation of dispatch tasks, `close`, MCP connections,
  streaming, `cancel_by_session`; a subagent's iterations.
- The message tool with an explicit other target.
- BFCL with subagents: its tool set has no spawn.
- In `AgentLoop`, `hist` and `ckpt` are the state in memory, and a save that
  raises leaves them as they are; files, consolidation and what a crash leaves of
  them are in `SessionMemory`, which in turn abstracts a turn to "appends one
  message".
- `SessionMemory`: `archive_messages` (`/new`), a raw archive that fails too, a
  chunk without new facts; token estimates are counts of messages.  Every message
  has text: a raw archive skips those that have none (`oc/_memory.py:111`).  A
  subagent, which has the file tools too, would be one more writer like the agent of
  a turn; that an agent's own write fails is left out, as is an agent that
  deletes a fact on purpose.
- `ReplayStart`: host-mode sessions, which hold no permit; serial and
  local-model modes; arrival offsets and replay timing; VTune.  Stopping a
  container is taken to succeed (not so in `Collector`).
- `Collector`: how much space is left is not counted: that it is little counts as
  one of the faults.  `KEEP_IMAGES_ABOVE_GB` is taken to be unset; ARM images;
  tasks without an image; the retries inside a pull; the samplers of an attempt
  and their watcher thread.
- `SharedHistory`: the pytest and script histories, which follow the same
  protocol; the contents of a record beyond whose it is.
- `Bootstrap`: what a requirement set contains; the variants for other images.
- `SessionCache`: what a recording contains, the session history and the
  "first seen" marks in it; the values of scores and their aggregation; sparse
  attention, which selects keys inside the kernel and drops none; `generate`
  itself, taken to feed the new tokens and then each generated one but the last.
  A cache with uneven layers may or may not fit the attention mask.

Other components, with the reason:

- The engine launchers, the server around `chat` and the benchmarks of engines:
  processes and requests of other programs.
- Plugins, parsers, statistics, figures, viewers, Modal scripts (well over half
  of the implementation's lines): sequential transformations of files, without
  state that outlives a call.  They are a matter of tests.  The share of lines
  that the map covers is small for this reason.
- The prototypes of the tool scheduler and profiler, and the harness's samplers:
  small, left to the plan.

`PROJECT.json` lists each with its note.

## 7. Plan

Done: `Dispatcher`, `AgentLoop`, `SessionRun`, `ReplayStart`, `AttemptLedger`,
`Collector`, `SharedHistory`, `SessionMemory`, `Bootstrap`, `SessionCache`, and
proofs of every invariant and action property that a run checks, some of them
under the conditions given in section 4.

What would come next:

1. The sampler watcher of an attempt against teardown.
2. Provider retries, with streamed deltas already delivered.
3. The tool scheduler and the arrival loop of `src/harness/runner.py`.
4. Proofs of the conditional theorems under weaker conditions; the types of
   `ReplayStart` with `jobs` as a set, if the order of the thread pool can be
   left open.

## 8. Running it

    tlc -workers 2 -config loop_users.cfg MCAgentLoop.tla
    tlc -workers 2 -config start_prep.cfg ReplayStart.tla
    tlc -workers 2 -config collect.cfg MCCollector.tla
    tlc -workers 2 -config stores.cfg MCStores.tla
    tlapm CollectorProofs.tla
    tlapm StoresProofs.tla

`PROJECT.json` names the module of each configuration, the source lines of each
definition, the mutant of each property and the hazards the properties are for.
