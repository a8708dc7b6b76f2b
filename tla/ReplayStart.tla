---------------------------- MODULE ReplayStart ----------------------------
(***************************************************************************)
(* How "trace-collect simulate" gets a cloud-model replay going in several *)
(* processes (src/src/trace_collect/simulator.py): the main process and    *)
(* its workers prepare a container per session under one semaphore, meet   *)
(* at a barrier, take a shared time zero from the main process, replay and *)
(* tear down; whoever fails releases those who wait for it.                *)
(*                                                                         *)
(* Blocking calls run in the thread pool of their process.  Semaphore,     *)
(* barrier, event and time zero live in a manager process, which outlives  *)
(* a worker that dies.                                                     *)
(***************************************************************************)
EXTENDS Naturals, Sequences, FiniteSets

CONSTANTS
  Total,      \* number of sessions, all in containers
  Workers,    \* --workers
  PrepLimit,  \* the resolved --prep-concurrency
  Threads,    \* the size of a process's default thread pool
  MayCrash    \* whether the operating system may kill a worker

ASSUME StartAssumption ==
  /\ Total \in Nat \ {0} /\ Workers \in Nat \ {0, 1}
  /\ PrepLimit \in 1..Total /\ Threads \in Nat \ {0}
  /\ MayCrash \in BOOLEAN

\* _partition_sessions_and_offsets: consecutive chunks, the first ones longer.
NProcs == IF Workers < Total THEN Workers ELSE Total
Procs == 0..(NProcs - 1)
Main == 0
WorkerProcs == Procs \ {Main}
ChunkSize == Total \div NProcs
Longer == Total - NProcs * ChunkSize
LongerUpTo(p) == IF p < Longer THEN p ELSE Longer
ChunkStart(p) == p * ChunkSize + LongerUpTo(p)
Sessions == 1..Total
SessionsOf(p) == (ChunkStart(p) + 1)..ChunkStart(p + 1)
Chunk(p) == [i \in 1..(ChunkStart(p + 1) - ChunkStart(p)) |-> ChunkStart(p) + i]
ProcOf(s) == CHOOSE p \in Procs : s \in SessionsOf(p)

VARIABLES
  at,       \* how far a session's preparation has come
  jobs,     \* the jobs of a process's thread pool: the first Threads of them
            \* have a thread, the others wait for one
  permits,  \* the value of the shared semaphore
  up,       \* the sessions whose container runs
  proc,     \* what a process is doing
  arrived,  \* the processes whose wait the barrier has counted
  barrier,  \* "filling", "draining" or "broken"
  event,    \* replay_start_event
  zero,     \* whether replay_start_wall_time has been set
  result,   \* how a process's part ended
  watch     \* the done callback of a worker's future

prepVars == <<at, jobs, permits, up>>
startVars == <<arrived, barrier, event, zero>>
vars == <<at, jobs, permits, up, proc, arrived, barrier, event, zero, result, watch>>

\* The stages of a preparation; those in which it holds a permit.
Permitted == {"start", "probe", "bootstrap", "agent", "stop"}
Settled == {"prepared", "failed", "leaked"}
Stages == {"new", "permit", "discard", "removed"} \cup Permitted \cup Settled
Holders == {s \in Sessions : at[s] \in Permitted}

\* What a process may be doing, and how its part may end.
Parts == {"load", "prepare", "barrier", "stamp", "announce", "event", "replay",
          "cleanup", "gather", "final", "over", "done", "dead"}
Ends == {"none", "ok", "failed", "aborted", "crashed"}
Ended(w) == proc[w] \in {"done", "dead"}

Init ==
  /\ at = [s \in Sessions |-> IF s \in SessionsOf(Main) THEN "permit" ELSE "new"]
  /\ jobs = [p \in Procs |-> IF p = Main THEN Chunk(Main) ELSE <<>>]
  /\ permits = PrepLimit
  /\ up = {}
  /\ proc = [p \in Procs |-> IF p = Main THEN "prepare" ELSE "load"]
  /\ arrived = {} /\ barrier = "filling" /\ event = FALSE /\ zero = FALSE
  /\ result = [p \in Procs |-> "none"]
  /\ watch = [w \in WorkerProcs |-> "waits"]

-----------------------------------------------------------------------------
(* The thread pools.                                                        *)

HasThread(s) ==
  \E i \in 1..Len(jobs[ProcOf(s)]) : i <= Threads /\ jobs[ProcOf(s)][i] = s

\* The session's job is over; Requeue puts its next one behind all others.
Without(s) == SelectSeq(jobs[ProcOf(s)], LAMBDA t : t # s)
Unqueue(s) == jobs' = [jobs EXCEPT ![ProcOf(s)] = Without(s)]
Requeue(s) == jobs' = [jobs EXCEPT ![ProcOf(s)] = Append(Without(s), s)]

\* The session's process works on it.
Preparing(s) == proc[ProcOf(s)] = "prepare"

-----------------------------------------------------------------------------
(* Releasing the peers.                                                     *)

\* _abort_global_replay_start.  Mutant: only the event is set.
EventOnly == event' = TRUE /\ UNCHANGED <<arrived, barrier, zero>>
Abort == /\ barrier' = "broken"
         /\ event' = TRUE
         /\ UNCHANGED <<arrived, zero>>

\* A worker loads its traces and starts preparing all of its sessions at once.
Load(w) ==
  /\ proc[w] = "load"
  /\ \/ /\ proc' = [proc EXCEPT ![w] = "prepare"]
        /\ at' = [s \in Sessions |-> IF s \in SessionsOf(w) THEN "permit" ELSE at[s]]
        /\ jobs' = [jobs EXCEPT ![w] = Chunk(w)]
        /\ UNCHANGED <<result, startVars>>
     \/ /\ proc' = [proc EXCEPT ![w] = "done"]
        /\ result' = [result EXCEPT ![w] = "failed"]
        /\ Abort
        /\ UNCHANGED <<at, jobs>>
  /\ UNCHANGED <<permits, up, watch>>

-----------------------------------------------------------------------------
(* Preparing a session.                                                     *)

\* The manager grants the semaphore to a thread that waits for it, even when
\* the process that asked is gone.
Free == permits > 0
Acquire(s) ==
  /\ at[s] = "permit"
  /\ HasThread(s)
  /\ Free
  /\ permits' = IF permits > 0 THEN permits - 1 ELSE permits
  /\ at' = [at EXCEPT ![s] = "start"]
  /\ Requeue(s)
  /\ UNCHANGED <<up, proc, startVars, result, watch>>

\* The finally clause of _prepare_one.  Mutant: there is none.
KeepPermit == UNCHANGED permits
Release == permits' = permits + 1

\* The image and docker run.  A failure has left no container.
FailStart(s) == /\ at' = [at EXCEPT ![s] = "failed"]
                /\ Unqueue(s)
                /\ Release
                /\ UNCHANGED up
StartContainer(s) ==
  /\ Preparing(s) /\ at[s] = "start" /\ HasThread(s)
  /\ \/ /\ at' = [at EXCEPT ![s] = "probe"]
        /\ up' = up \cup {s}
        /\ Requeue(s)
        /\ UNCHANGED permits
     \/ FailStart(s)
  /\ UNCHANGED <<proc, startVars, result, watch>>

\* The search for a Python interpreter.  Nobody stops the container when it fails.
Probe(s) ==
  /\ Preparing(s) /\ at[s] = "probe" /\ HasThread(s)
  /\ \/ /\ at' = [at EXCEPT ![s] = "bootstrap"]
        /\ Requeue(s)
        /\ UNCHANGED permits
     \/ /\ at' = [at EXCEPT ![s] = "leaked"]
        /\ Unqueue(s)
        /\ Release
  /\ UNCHANGED <<up, proc, startVars, result, watch>>

\* What follows a failed bootstrap.  Mutant: the container is left alone.
JustFail(s) == /\ at' = [at EXCEPT ![s] = "failed"]
               /\ Unqueue(s)
               /\ Release
StopFirst(s) == /\ at' = [at EXCEPT ![s] = "stop"]
                /\ Requeue(s)
                /\ UNCHANGED permits
Bootstrap(s) ==
  /\ Preparing(s) /\ at[s] = "bootstrap" /\ HasThread(s)
  /\ \/ /\ at' = [at EXCEPT ![s] = "agent"]
        /\ Unqueue(s)
        /\ UNCHANGED permits
     \/ StopFirst(s)
  /\ UNCHANGED <<up, proc, startVars, result, watch>>

\* The replay agent, which needs no thread.  Once it runs, the permit is
\* released and the sampler started; if that fails the session is torn down.
StartAgent(s) ==
  /\ Preparing(s) /\ at[s] = "agent"
  /\ \/ /\ at' = [at EXCEPT ![s] = "prepared"]
        /\ Release
        /\ UNCHANGED jobs
     \/ StopFirst(s)
     \/ /\ at' = [at EXCEPT ![s] = "discard"]
        /\ Requeue(s)
        /\ Release
  /\ UNCHANGED <<up, proc, startVars, result, watch>>

StopContainer(s) ==
  /\ Preparing(s) /\ at[s] \in {"stop", "discard"} /\ HasThread(s)
  /\ at' = [at EXCEPT ![s] = "failed"]
  /\ up' = up \ {s}
  /\ Unqueue(s)
  /\ IF at[s] = "stop" THEN Release ELSE UNCHANGED permits
  /\ UNCHANGED <<proc, startVars, result, watch>>

-----------------------------------------------------------------------------
(* The barrier and the time zero.                                           *)

\* All sessions of a process are settled; one failure fails the process.
\* Mutant: a process goes on with the sessions it has.
SomePrepared(p) == TRUE
AllPrepared(p) == \A s \in SessionsOf(p) : at[s] = "prepared"
Settle(p) ==
  /\ proc[p] = "prepare"
  /\ \A s \in SessionsOf(p) : at[s] \in Settled
  /\ \/ /\ AllPrepared(p)
        /\ proc' = [proc EXCEPT ![p] = "barrier"]
        /\ UNCHANGED <<startVars, result>>
     \/ /\ ~AllPrepared(p)
        /\ proc' = [proc EXCEPT ![p] = "cleanup"]
        /\ result' = [result EXCEPT ![p] = "failed"]
        /\ Abort
  /\ UNCHANGED <<prepVars, watch>>

\* barrier.wait: the last arrival opens the barrier, everyone passes it on its
\* own, unless the barrier has been broken before they got to run.
Arrive(p) ==
  /\ proc[p] = "barrier" /\ p \notin arrived /\ barrier = "filling"
  /\ arrived' = arrived \cup {p}
  /\ barrier' = IF arrived' = Procs THEN "draining" ELSE "filling"
  /\ UNCHANGED <<prepVars, proc, event, zero, result, watch>>

Pass(p) ==
  /\ proc[p] = "barrier" /\ p \in arrived /\ barrier = "draining"
  /\ proc' = [proc EXCEPT ![p] = IF p = Main THEN "stamp" ELSE "event"]
  /\ UNCHANGED <<prepVars, startVars, result, watch>>

Broken(p) ==
  /\ proc[p] = "barrier" /\ barrier = "broken"
  /\ proc' = [proc EXCEPT ![p] = "cleanup"]
  /\ result' = [result EXCEPT ![p] = "aborted"]
  /\ UNCHANGED <<prepVars, startVars, watch>>

\* The coordinator writes the time zero, then sets the event.
\* Mutant: the other way round.
EventFirst ==
  \/ proc[Main] = "stamp" /\ event' = TRUE /\ UNCHANGED zero
  \/ proc[Main] = "announce" /\ zero' = TRUE /\ UNCHANGED event
StampFirst ==
  \/ proc[Main] = "stamp" /\ zero' = TRUE /\ UNCHANGED event
  \/ proc[Main] = "announce" /\ event' = TRUE /\ UNCHANGED zero
Coordinate ==
  /\ proc[Main] \in {"stamp", "announce"}
  /\ StampFirst
  /\ proc' = [proc EXCEPT ![Main] = IF @ = "stamp" THEN "announce" ELSE "replay"]
  /\ UNCHANGED <<prepVars, arrived, barrier, result, watch>>

\* A worker reads the time zero when the event is set; zero is no time.
GetZero(w) ==
  /\ proc[w] = "event" /\ event
  /\ proc' = [proc EXCEPT ![w] = IF zero THEN "replay" ELSE "cleanup"]
  /\ result' = [result EXCEPT ![w] = IF zero THEN @ ELSE "aborted"]
  /\ UNCHANGED <<prepVars, startVars, watch>>

-----------------------------------------------------------------------------
(* Replay and teardown.                                                     *)

\* The main process tears down after a successful replay only when the workers
\* are through.
Replay(p) ==
  /\ proc[p] = "replay"
  /\ \E r \in {"ok", "failed"} :
       /\ result' = [result EXCEPT ![p] = r]
       /\ proc' = [proc EXCEPT ![p] =
                     IF p = Main /\ r = "ok" THEN "gather" ELSE "cleanup"]
  /\ UNCHANGED <<prepVars, startVars, watch>>

TearDown(s) ==
  /\ proc[ProcOf(s)] \in {"cleanup", "final"} /\ at[s] = "prepared"
  /\ at' = [at EXCEPT ![s] = "removed"]
  /\ up' = up \ {s}
  /\ UNCHANGED <<jobs, permits, proc, startVars, result, watch>>

TornDown(p) ==
  /\ \A s \in SessionsOf(p) : at[s] # "prepared"
  /\ \/ /\ p # Main /\ proc[p] = "cleanup"
        /\ proc' = [proc EXCEPT ![p] = "done"]
        /\ UNCHANGED startVars
     \/ /\ p = Main /\ proc[p] = "cleanup"
        /\ proc' = [proc EXCEPT ![p] = "gather"]
        /\ Abort
     \/ /\ proc[p] = "final"
        /\ proc' = [proc EXCEPT ![p] = "over"]
        /\ UNCHANGED startVars
  /\ UNCHANGED <<prepVars, result, watch>>

\* The main process has collected the results of all workers.
Gather ==
  /\ proc[Main] = "gather"
  /\ \A w \in WorkerProcs : Ended(w)
  /\ proc' = [proc EXCEPT ![Main] = "final"]
  /\ Abort
  /\ UNCHANGED <<prepVars, result, watch>>

-----------------------------------------------------------------------------
(* Workers that end early.                                                  *)

\* _abort_if_worker_exits_early looks at the event, then aborts.
\* Mutant: it takes every end for a regular one.
Regular == TRUE
Started == event
Watch(w) ==
  /\ Ended(w) /\ watch[w] = "waits"
  /\ watch' = [watch EXCEPT ![w] = IF Started THEN "over" ELSE "aborts"]
  /\ UNCHANGED <<prepVars, proc, startVars, result>>

WatchAborts(w) ==
  /\ watch[w] = "aborts"
  /\ watch' = [watch EXCEPT ![w] = "over"]
  /\ Abort
  /\ UNCHANGED <<prepVars, proc, result>>

\* A worker is killed.  The executor is broken then: it terminates the other
\* workers too and fails every future.  What the dead had asked of the manager
\* stays asked, what only waited for a thread is gone.
Crash ==
  /\ MayCrash
  /\ \E w \in WorkerProcs : ~Ended(w)
  /\ proc' = [p \in Procs |-> IF p \in WorkerProcs /\ ~Ended(p) THEN "dead" ELSE proc[p]]
  /\ result' = [p \in Procs |-> IF p \in WorkerProcs /\ ~Ended(p) THEN "crashed" ELSE result[p]]
  /\ jobs' = [p \in Procs |->
       IF p \in WorkerProcs
       THEN SubSeq(jobs[p], 1, IF Threads < Len(jobs[p]) THEN Threads ELSE Len(jobs[p]))
       ELSE jobs[p]]
  /\ UNCHANGED <<at, permits, up, startVars, watch>>

-----------------------------------------------------------------------------
Prepare(s) ==
  \/ Acquire(s) \/ StartContainer(s) \/ Probe(s) \/ Bootstrap(s)
  \/ StartAgent(s) \/ StopContainer(s)

Proceed(p) ==
  \/ Settle(p) \/ Arrive(p) \/ Pass(p) \/ Broken(p) \/ Replay(p) \/ TornDown(p)

WorkerStep(w) == Load(w) \/ GetZero(w) \/ Watch(w) \/ WatchAborts(w)

Next ==
  \/ \E s \in Sessions : Prepare(s) \/ TearDown(s)
  \/ \E p \in Procs : Proceed(p)
  \/ \E w \in WorkerProcs : WorkerStep(w)
  \/ Coordinate \/ Gather \/ Crash

Spec == Init /\ [][Next]_vars

\* Every thread and every process gets to run, and the commands it waits for
\* (which all have timeouts) return; only crashes may fail to come.
Fairness ==
  /\ \A s \in Sessions : WF_vars(Prepare(s) \/ TearDown(s))
  /\ \A p \in Procs : WF_vars(Proceed(p))
  /\ \A w \in WorkerProcs : WF_vars(Load(w) \/ GetZero(w)) /\ WF_vars(Watch(w) \/ WatchAborts(w))
  /\ WF_vars(Coordinate) /\ WF_vars(Gather)

FairSpec == Spec /\ Fairness

-----------------------------------------------------------------------------
(* Properties.                                                              *)

\* The type of every variable.
TypeOK ==
  /\ at \in [Sessions -> Stages]
  /\ jobs \in [Procs -> Seq(Sessions)]
  /\ permits \in 0..PrepLimit
  /\ up \subseteq Sessions
  /\ proc \in [Procs -> Parts]
  /\ arrived \subseteq Procs
  /\ barrier \in {"filling", "draining", "broken"}
  /\ event \in BOOLEAN /\ zero \in BOOLEAN
  /\ result \in [Procs -> Ends]
  /\ watch \in [WorkerProcs -> {"waits", "aborts", "over"}]

\* --prep-concurrency holds system-wide: no more containers than that are being
\* prepared at once by all processes together, and every permit comes back
\* unless its holder has died.
PrepLimited ==
  /\ Cardinality(Holders) <= PrepLimit
  /\ permits + Cardinality(Holders) = PrepLimit

\* The process has begun to replay.
HasReplayed(p) == \/ proc[p] = "replay"
                  \/ p \in arrived /\ result[p] \in {"ok", "failed"}

\* Nobody replays before every session of every process has been prepared.
ReplayAfterAllPrepared ==
  (\E p \in Procs : HasReplayed(p)) => \A s \in Sessions : at[s] \in {"prepared", "removed"}

\* The start is global: when one process replays, every other does, unless a
\* worker has died or the main process has already failed.
StartIsGlobal ==
  \A p, q \in Procs :
    HasReplayed(p) /\ result[q] = "aborted" =>
      result[Main] = "failed" \/ \E w \in WorkerProcs : result[w] = "crashed"

\* When the simulation is over, no container runs but those of dead workers and
\* those in which no interpreter was found.
OnlyKnownLeaks ==
  proc[Main] = "over" =>
    \A s \in up : at[s] = "leaked" \/ proc[ProcOf(s)] = "dead"

\* A simulation comes to its end, whatever fails on the way.
RunEnds == <>(proc[Main] = "over")
=============================================================================
