----------------------------- MODULE Collector -----------------------------
(***************************************************************************)
(* "trace-collect": the loop over the tasks of a benchmark, the attempts   *)
(* of one task at a time, the container images they need, and what is on   *)
(* the disk when the process is killed and started again                   *)
(* (src/src/trace_collect/collector.py, attempt_pipeline.py and            *)
(* src/src/harness/container_image_prep.py).                               *)
(*                                                                         *)
(* With --concurrency c the c attempts of a task run in threads of their   *)
(* own; a single thread pulls the next task's image meanwhile.             *)
(***************************************************************************)
EXTENDS Naturals, FiniteSets

CONSTANTS
  NTasks,      \* the selected tasks, in order
  Images,      \* source images
  ImageLists,  \* the benchmarks: the source image of each task
  Endings,     \* how an agent's run ends when nothing goes wrong
  MaxConc,     \* bound of --concurrency
  MaxAttempt,  \* bound of the attempt numbers
  MaxStarts,   \* bound of the invocations on one run directory
  MaxFaults    \* bound of what goes wrong: failed agents and commands, full
               \* disks, kills

ASSUME CollectorAssumption ==
  /\ NTasks \in Nat \ {0} /\ MaxConc \in Nat \ {0}
  /\ Endings \subseteq {"ok", "exhausted"}
  /\ ImageLists \subseteq [1..NTasks -> Images] /\ ImageLists # {}
  /\ MaxAttempt \in Nat /\ MaxConc <= MaxAttempt   \* room for one task's attempts
  /\ MaxStarts \in Nat /\ MaxFaults \in Nat

Tasks == 1..NTasks
Workers == 1..MaxConc   \* worker x runs the context of attempt base + x - 1
Attempts == 1..MaxAttempt
Source(i) == <<i, "source">>
Fixed(i) == <<i, "fixed">>
Refs == Images \X {"source", "fixed"}
NoImage == "no image"

ASSUME ImagesAreNamed == NoImage \notin Images

VARIABLES
  image,     \* the source image of each task (the benchmark's data)
  dirs,      \* disk: the attempt directories of a task
  trace,     \* disk: trace.jsonl of an attempt
  manifest,  \* disk: run_manifest.json of an attempt
  report,    \* disk: the attempts that have a row in results.jsonl
  local,     \* the images in the local container storage
  boxes,     \* the task containers that run: task, attempt, image
  starts,    \* how often the collector has been started
  faults,    \* how much has gone wrong
  phase,     \* where the loop over the tasks is
  cur,       \* the task at hand
  base,      \* the first attempt number of the task at hand
  conc,      \* --concurrency
  rerun,     \* --rerun-completed
  done,      \* completed, as loaded at the start
  rows,      \* results
  pre,       \* prefetched_source_image and the state of its future
  cache,     \* _IMAGE_CACHE
  lock,      \* the worker that holds the image's lock, or 0
  at,        \* the step of run_attempt a worker is in
  img,       \* the context's fixed_image: "none", "source" or "fixed"
  out,       \* how the worker's inner coroutine ended
  born,      \* history: the attempt directories this invocation made
  excused    \* history: local images that cleanup could not or did not know
             \* to remove

diskVars == <<dirs, trace, manifest, report>>
loopVars == <<starts, phase, cur, base, conc, rerun, done, rows>>
imageVars == <<local, pre, cache, lock>>
workVars == <<at, img, out>>
vars == <<image, dirs, trace, manifest, report, local, boxes, faults, starts, phase, cur,
          base, conc, rerun, done, rows, pre, cache, lock, at, img, out, born, excused>>

Steps == {"off", "preflight", "lock", "build", "box", "agent", "trace", "manifest",
          "over", "stuck"}
Pulls == {"none", "running", "ok", "failed", "stuck"}
Outcomes == {"none", "ok", "exhausted", "failed", "raised"}
Verdicts == {"completed", "exhausted", "error"}
NoPull == [image |-> NoImage, st |-> "none"]
Empty == [i \in Images |-> "none"]

Init ==
  /\ image \in ImageLists
  /\ dirs = [t \in Tasks |-> {}]
  /\ trace = [t \in Tasks |-> [a \in Attempts |-> "none"]]
  /\ manifest = [t \in Tasks |-> [a \in Attempts |-> "none"]]
  /\ report = {} /\ local = {} /\ boxes = {}
  /\ starts = 0 /\ faults = 0 /\ phase = "down" /\ cur = 1 /\ base = 1 /\ conc = 1
  /\ rerun = FALSE /\ done = {} /\ rows = {}
  /\ pre = NoPull /\ cache = Empty /\ lock = 0
  /\ at = [x \in Workers |-> "off"]
  /\ img = [x \in Workers |-> "none"]
  /\ out = [x \in Workers |-> "none"]
  /\ born = {} /\ excused = {}

Fault == faults < MaxFaults /\ faults' = faults + 1
Fine == UNCHANGED faults

-----------------------------------------------------------------------------
(* The loop over the tasks.                                                *)

\* load_completed_ids: a torn or missing manifest says nothing.
Completed ==
  {t \in Tasks : \E a \in Attempts : manifest[t][a] \in {"completed", "exhausted"}}

\* next_attempt_number: one more than the largest number in use.  Mutant: one
\* more than there are directories.
NextByCount(t, n) == n = Cardinality(dirs[t]) + 1
NextAttempt(t, n) ==
  /\ \A a \in dirs[t] : a < n
  /\ n = 1 \/ n - 1 \in dirs[t]

Pending(t) == t \notin done \/ rerun

\* _next_pending_source_image
ImageFrom(i) ==
  LET later == {t \in Tasks : t >= i /\ Pending(t)} IN
  IF later = {} THEN NoImage
  ELSE image[CHOOSE t \in later : \A u \in later : t <= u]
NextImage == ImageFrom(cur + 1)

Start(c, r) ==
  /\ phase = "down" /\ starts < MaxStarts
  /\ \A t \in Tasks : \A a \in dirs[t] : a + c <= MaxAttempt
  /\ r => Completed # {}   \* the flag says nothing about a fresh run
  /\ starts' = starts + 1
  /\ phase' = "pick" /\ cur' = 1 /\ base' = 1 /\ conc' = c /\ rerun' = r
  /\ done' = Completed
  /\ rows' = {} /\ born' = {}
  /\ Fine /\ UNCHANGED <<image, diskVars, boxes, imageVars, workVars, excused>>

Skip ==
  /\ phase = "pick" /\ cur \in Tasks /\ ~Pending(cur)
  /\ cur' = cur + 1
  /\ Fine /\ UNCHANGED <<image, diskVars, boxes, starts, phase, base, conc, rerun, done,
                 rows, imageVars, workVars, born, excused>>

Take(n) ==
  /\ phase = "pick" /\ cur \in Tasks /\ Pending(cur)
  /\ NextAttempt(cur, n)
  /\ base' = n /\ phase' = "ready"
  /\ Fine /\ UNCHANGED <<image, diskVars, boxes, starts, cur, conc, rerun, done, rows,
                 imageVars, workVars, born, excused>>

\* The source image is there: the next one's pull and the attempts begin.
Launch ==
  /\ phase' = "gather"
  /\ pre' = IF NextImage \in Images \ {image[cur]}
            THEN [image |-> NextImage, st |-> "running"] ELSE NoPull
  /\ at' = [x \in Workers |-> IF x <= conc THEN "preflight" ELSE "off"]
  /\ Fine /\ UNCHANGED <<image, diskVars, boxes, starts, cur, base, conc, rerun,
                 done, rows, cache, lock, img, out, born, excused>>

Prefetched == pre.image = image[cur]

\* _ensure_task_source_ready: by the prefetch, which is waited for ...
SourcePrefetched ==
  /\ phase = "ready" /\ Prefetched /\ pre.st = "ok"
  /\ UNCHANGED local
  /\ Launch

\* ... or in the foreground, also when the prefetch failed.
SourceEnsured ==
  /\ phase = "ready" /\ (Prefetched => pre.st = "failed")
  /\ local' = local \cup {Source(image[cur])}
  /\ Launch

\* The pull fails: one row, no attempt.
SourceMissing ==
  /\ phase = "ready" /\ (Prefetched => pre.st = "failed")
  /\ Source(image[cur]) \notin local
  /\ rows' = rows \cup {<<cur, base>>}
  /\ phase' = "clean"
  /\ Fault
  /\ UNCHANGED <<image, diskVars, boxes, starts, cur, base, conc, rerun, done,
                 imageVars, workVars, born, excused>>

\* ensure_source_image in the prefetch thread.
PrefetchEnds ==
  /\ pre.st = "running"
  /\ \/ /\ local' = local \cup {Source(pre.image)}
        /\ pre' = [pre EXCEPT !.st = "ok"] /\ Fine
     \/ /\ Source(pre.image) \notin local /\ UNCHANGED local
        /\ pre' = [pre EXCEPT !.st = "failed"] /\ Fault
  /\ UNCHANGED <<image, diskVars, boxes, loopVars, cache, lock, workVars, born, excused>>

\* _image_exists has no timeout: when docker does not answer, the thread that
\* asks waits for ever - that of the prefetch, or the loop itself.
PrefetchHangs ==
  /\ pre.st = "running" /\ pre' = [pre EXCEPT !.st = "stuck"]
  /\ Fault
  /\ UNCHANGED <<image, diskVars, boxes, loopVars, local, cache, lock, workVars, born,
                 excused>>

LoopHangs ==
  /\ phase' = "stuck"
  /\ Fault
  /\ UNCHANGED <<image, diskVars, starts, cur, base, conc, rerun, done, rows, pre, cache,
                 lock, workVars, born, excused>>

SourceHangs ==
  /\ phase = "ready" /\ (Prefetched => pre.st = "failed")
  /\ LoopHangs /\ UNCHANGED <<local, boxes>>

-----------------------------------------------------------------------------
(* run_attempt, step by step, for worker x.                                *)

\* Mutant: the contexts of a task share their number.
SameNumber(x) == base
Number(x) == base + x - 1
Src == image[cur]

Moves(x, from, to) ==
  /\ phase = "gather" /\ at[x] = from
  /\ at' = [at EXCEPT ![x] = to]
At(x, from, to) == Moves(x, from, to) /\ Fine
Fails(x, from, to) == Moves(x, from, to) /\ Fault

StepFrame == UNCHANGED <<image, report, loopVars, pre, excused>>

\* preflight_disk, before the attempt has a directory.
DiskTooFull(x) ==
  /\ Fails(x, "preflight", "over")
  /\ StepFrame
  /\ UNCHANGED <<dirs, trace, manifest, boxes, local, cache, lock, img, out, born>>

\* ensure_attempt_dir, then ensure_fixed_image: the look into the cache without
\* the lock ...
MakeDir(x) ==
  /\ dirs' = [dirs EXCEPT ![cur] = @ \cup {Number(x)}]
  /\ born' = born \cup {<<cur, Number(x)>>}
  /\ StepFrame
  /\ UNCHANGED <<trace, manifest, boxes, local, cache, lock, out>>

CacheHit(x) ==
  /\ At(x, "preflight", "box")
  /\ cache[Src] # "none"
  /\ img' = [img EXCEPT ![x] = cache[Src]]
  /\ MakeDir(x)

CacheMiss(x) ==
  /\ At(x, "preflight", "lock")
  /\ cache[Src] = "none"
  /\ MakeDir(x) /\ UNCHANGED img

ImageFrame == UNCHANGED <<dirs, trace, manifest, boxes, out, born>>

\* ... and, with the lock, the second look, the image of an earlier process,
CheckLocked(x) ==
  /\ At(x, "lock", "box") /\ lock = 0
  /\ \/ cache[Src] # "none" /\ UNCHANGED cache
     \/ /\ cache[Src] = "none" /\ Fixed(Src) \in local
        /\ cache' = [cache EXCEPT ![Src] = "fixed"]
  /\ img' = [img EXCEPT ![x] = cache'[Src]]
  /\ StepFrame /\ ImageFrame /\ UNCHANGED <<local, lock>>

\* or the build; the lock is held until it ends.  Mutant: nobody looks at it.
LockIgnored == TRUE
LockFree == lock = 0
StartBuild(x) ==
  /\ At(x, "lock", "build") /\ LockFree
  /\ cache[Src] = "none" /\ Fixed(Src) \notin local
  /\ local' = local \cup {Source(Src)}
  /\ lock' = x
  /\ StepFrame /\ ImageFrame /\ UNCHANGED <<cache, img>>

\* An exception before the build (a probe times out) is not remembered.
ProbeFails(x) ==
  /\ Fails(x, "lock", "box") /\ lock = 0
  /\ cache[Src] = "none" /\ Fixed(Src) \notin local
  /\ img' = [img EXCEPT ![x] = "source"]
  /\ StepFrame /\ ImageFrame /\ UNCHANGED <<local, cache, lock>>

Cached(x, kind) ==
  /\ cache' = [cache EXCEPT ![Src] = kind]
  /\ img' = [img EXCEPT ![x] = kind]
  /\ lock' = 0

BuildEnds(x) ==
  /\ At(x, "build", "box")
  /\ local' = local \cup {Fixed(Src)}
  /\ Cached(x, "fixed")
  /\ StepFrame /\ ImageFrame

\* docker commit may have made the image before it, or the stop and the removal
\* of its container, exceeds its time; nobody will remove that image.
BuildLeaves ==
  /\ \E left \in SUBSET {Fixed(Src)} :
       local' = local \cup left /\ excused' = excused \cup left
  /\ UNCHANGED <<image, report, loopVars, pre>>

\* A failed build makes the source image what the cache gives out.  Mutant: the
\* lock is not released then.
BuildFailsLocked(x) ==
  /\ Fails(x, "build", "box")
  /\ cache' = [cache EXCEPT ![Src] = "source"]
  /\ img' = [img EXCEPT ![x] = "source"]
  /\ BuildLeaves /\ ImageFrame /\ UNCHANGED lock
BuildFails(x) ==
  /\ Fails(x, "build", "box")
  /\ Cached(x, "source")
  /\ BuildLeaves /\ ImageFrame

\* With the lock, _image_exists again.
LookHangs(x) ==
  /\ Fails(x, "lock", "stuck") /\ LockFree
  /\ cache[Src] = "none"
  /\ lock' = x
  /\ StepFrame /\ ImageFrame /\ UNCHANGED <<local, cache, img>>

AgentFrame == StepFrame /\ UNCHANGED <<dirs, local, cache, lock, img, born>>

Box(x) == <<cur, Number(x), <<Src, img[x]>>>>

\* start_task_container fails, or the container runs until it is stopped.
BoxFails(x) ==
  /\ Fails(x, "box", "trace")
  /\ out' = [out EXCEPT ![x] = "raised"]
  /\ AgentFrame /\ UNCHANGED <<trace, manifest, boxes>>

StartBox(x) ==
  /\ At(x, "box", "agent")
  /\ boxes' = boxes \cup {Box(x)}
  /\ AgentFrame /\ UNCHANGED <<trace, manifest, out>>

\* stop_task_container follows, whatever the agent did; it gives up in silence
\* when docker does not answer.
AgentEnds(x, o) ==
  /\ At(x, "agent", "trace")
  /\ out' = [out EXCEPT ![x] = o]
  /\ boxes' = boxes \ {Box(x)}
  /\ AgentFrame /\ UNCHANGED <<trace, manifest>>

AgentFails(x, o) ==
  /\ Fails(x, "agent", "trace")
  /\ out' = [out EXCEPT ![x] = o]
  /\ boxes' = boxes \ {Box(x)}
  /\ AgentFrame /\ UNCHANGED <<trace, manifest>>

StopTimesOut(x, o) ==
  /\ Fails(x, "agent", "trace")
  /\ out' = [out EXCEPT ![x] = o]
  /\ AgentFrame /\ UNCHANGED <<trace, manifest, boxes>>

\* What the agent prints is read to its end before anybody looks at the time.
AgentHangs(x) ==
  /\ Fails(x, "agent", "stuck")
  /\ AgentFrame /\ UNCHANGED <<trace, manifest, boxes, out>>

\* A file of the attempt at hand while it is written in place: opening it has
\* truncated it.  The disk may be full, and the process may be killed.
Torn(file, writing) ==
  [t \in Tasks |-> [a \in Attempts |->
     IF t = cur /\ \E x \in writing : a = Number(x) THEN "torn" ELSE file[t][a]]]
SetTrace(x) == trace' = [trace EXCEPT ![cur][Number(x)] = "whole"]
SetManifest(x, s) == manifest' = [manifest EXCEPT ![cur][Number(x)] = s]
WriteFrame == AgentFrame /\ UNCHANGED <<boxes, out>>

\* The trace is copied and rewritten in place, before there is a manifest.
WriteTrace(x) ==
  /\ out[x] # "raised"
  /\ At(x, "trace", "manifest")
  /\ SetTrace(x)
  /\ WriteFrame /\ UNCHANGED manifest

\* Mutant: an error while the trace is rewritten is passed over.
TraceErrorPassed(x) ==
  /\ out[x] # "raised"
  /\ Fails(x, "trace", "manifest")
  /\ trace' = Torn(trace, {x})
  /\ WriteFrame /\ UNCHANGED manifest
TraceFails(x) ==
  /\ out[x] # "raised"
  /\ Fails(x, "trace", "over")
  /\ trace' = Torn(trace, {x})
  /\ WriteFrame /\ UNCHANGED manifest

\* No result, no trace to copy.
NoTrace(x) ==
  /\ out[x] = "raised"
  /\ At(x, "trace", "manifest")
  /\ WriteFrame /\ UNCHANGED <<trace, manifest>>

StatusOf(o) ==
  CASE o = "ok" -> "completed" [] o = "exhausted" -> "exhausted" [] OTHER -> "error"

\* write_run_manifest, then results.json, resources.json, tool_calls.json and
\* container_stdout.txt, which nobody here reads; then it returns or raises.
WriteManifest(x) ==
  /\ At(x, "manifest", "over")
  /\ SetManifest(x, StatusOf(out[x]))
  /\ WriteFrame /\ UNCHANGED trace

ManifestFails(x) ==
  /\ Fails(x, "manifest", "over")
  /\ manifest' = Torn(manifest, {x})
  /\ WriteFrame /\ UNCHANGED trace

-----------------------------------------------------------------------------
(* The end of a task, of a run, and of the process.                        *)

\* The contexts of the task are gone.
Discard ==
  /\ at' = [x \in Workers |-> "off"]
  /\ img' = [x \in Workers |-> "none"]
  /\ out' = [x \in Workers |-> "none"]

\* asyncio.gather with return_exceptions: a row for every context.  Mutant: for
\* those that did not raise.
RowsOfResults == {<<cur, Number(x)>> : x \in {y \in 1..conc : out[y] # "raised"}}
NewRows == {<<cur, Number(x)>> : x \in 1..conc}

Gather ==
  /\ phase = "gather" /\ \A x \in 1..conc : at[x] = "over"
  /\ rows' = rows \cup NewRows
  /\ phase' = "clean"
  /\ Fine
  /\ UNCHANGED <<image, diskVars, boxes, starts, cur, base, conc, rerun, done,
                 imageVars, workVars, born, excused>>

\* An image that a running container uses cannot be removed.
InUse(ref, running) == \E b \in running : b[3] = ref

\* What _cleanup_task_images tries to remove: the fixed image that the first
\* context knows of, and the source image unless the next task has the same.
\* Mutant: unless there is a next task.
KeptForAnyNext(low) ==
  {r \in local : \/ r = Fixed(Src) /\ img[1] = "fixed"
                 \/ r = Source(Src) /\ (low \/ NextImage = NoImage)}
Removals(low) ==
  {r \in local : \/ r = Fixed(Src) /\ img[1] = "fixed"
                 \/ r = Source(Src) /\ (low \/ NextImage # Src)}

\* With little disk left the first context's residual containers go first.
Residual == {b \in boxes : b[1] = cur /\ b[2] = base /\ b[3] = Fixed(Src)}

\* drop_cached_fixed_image.  Mutant: it is not called.
CacheKept == UNCHANGED cache
CacheDropped == cache' = [cache EXCEPT ![Src] = "none"]

Removing(low, purged, removed) ==
  /\ phase = "clean"
  /\ purged => low /\ img[1] = "fixed"
  /\ boxes' = IF purged THEN boxes \ Residual ELSE boxes
  /\ removed \subseteq {r \in Removals(low) : ~InUse(r, boxes')}
  /\ Fixed(Src) \in removed => (low <=> purged)
  /\ local' = local \ removed

\* Each removal asks first whether the image is there; the source image goes last.
CleanHangs(low, purged, removed) ==
  /\ Removing(low, purged, removed) /\ removed \subseteq {Fixed(Src)}
  /\ img[1] = "fixed" \/ low \/ NextImage # Src
  /\ LoopHangs

\* Each removal may fail; a failure is logged.
Clean(low, purged, removed) ==
  /\ Removing(low, purged, removed)
  /\ excused' = (excused \cup Removals(low)
                   \cup (IF conc > 1 /\ img[1] # "fixed" THEN {Fixed(Src)} ELSE {}))
                \cap local'
  /\ CacheDropped
  /\ \/ /\ removed = {r \in Removals(low) : ~InUse(r, boxes')}
        /\ ~low /\ Fine
     \/ Fault
  /\ phase' = "pick" /\ cur' = cur + 1
  /\ Discard
  /\ UNCHANGED <<image, diskVars, starts, base, conc, rerun, done, rows, pre,
                 lock, born>>

\* The process forgets everything it kept in memory.
Forget ==
  /\ phase' = "down" /\ cur' = 1 /\ base' = 1 /\ conc' = 1 /\ rerun' = FALSE
  /\ done' = {} /\ rows' = {} /\ born' = {}
  /\ pre' = NoPull /\ cache' = Empty /\ lock' = 0
  /\ Discard
  /\ UNCHANGED <<image, dirs, boxes, starts, local>>

\* write_results_jsonl: the rows of this invocation replace the file's.
Report ==
  /\ phase = "pick" /\ cur > NTasks
  /\ report' = rows
  /\ Forget /\ Fine /\ UNCHANGED <<excused, trace, manifest>>

\* The process is killed; containers and images stay, and so does what there
\* is of the files that were being written.
Crash(writing) ==
  /\ phase # "down"
  /\ \A x \in writing : \/ at[x] = "trace" /\ out[x] # "raised"
                        \/ at[x] = "manifest"
  /\ trace' = Torn(trace, {x \in writing : at[x] = "trace"})
  /\ manifest' = Torn(manifest, {x \in writing : at[x] = "manifest"})
  /\ excused' = local
  /\ Forget /\ Fault /\ UNCHANGED report

-----------------------------------------------------------------------------
Attempt(x) ==
  \/ DiskTooFull(x)
  \/ CacheHit(x) \/ CacheMiss(x) \/ CheckLocked(x) \/ StartBuild(x) \/ ProbeFails(x)
  \/ BuildEnds(x) \/ BuildFails(x) \/ LookHangs(x)
  \/ BoxFails(x) \/ StartBox(x)
  \/ \E o \in Endings : AgentEnds(x, o) \/ StopTimesOut(x, o)
  \/ \E o \in {"failed", "raised"} : AgentFails(x, o)
  \/ AgentHangs(x)
  \/ WriteTrace(x) \/ TraceFails(x) \/ NoTrace(x)
  \/ WriteManifest(x) \/ ManifestFails(x)

Loop ==
  \/ Skip \/ \E n \in Attempts : Take(n)
  \/ SourcePrefetched \/ SourceEnsured \/ SourceMissing \/ SourceHangs
  \/ Gather
  \/ \E low, purged \in BOOLEAN, removed \in SUBSET Refs :
       Clean(low, purged, removed) \/ CleanHangs(low, purged, removed)
  \/ Report

Next ==
  \/ \E c \in 1..MaxConc, r \in BOOLEAN : Start(c, r)
  \/ Loop
  \/ PrefetchEnds \/ PrefetchHangs
  \/ \E x \in Workers : Attempt(x)
  \/ \E writing \in SUBSET Workers : Crash(writing)

Spec == Init /\ [][Next]_vars

\* The process runs on, and so does each of its threads, unless it waits for a
\* command that never returns: no step of a thread that is stuck is enabled.
\* Every other command has a timeout.  Nobody has to start or kill the process.
Fairness == WF_vars(Loop) /\ WF_vars(PrefetchEnds) /\ \A x \in Workers : WF_vars(Attempt(x))
FairSpec == Spec /\ Fairness

-----------------------------------------------------------------------------
(* Properties.                                                             *)

\* Every variable keeps to its domain.
TypeOK ==
  /\ image \in ImageLists
  /\ dirs \in [Tasks -> SUBSET Attempts]
  /\ trace \in [Tasks -> [Attempts -> {"none", "torn", "whole"}]]
  /\ manifest \in [Tasks -> [Attempts -> Verdicts \cup {"none", "torn"}]]
  /\ report \subseteq Tasks \X Attempts /\ rows \subseteq Tasks \X Attempts
  /\ local \subseteq Refs /\ excused \subseteq Refs
  /\ boxes \subseteq Tasks \X Attempts \X Refs
  /\ starts \in Nat /\ faults \in Nat
  /\ phase \in {"down", "pick", "ready", "gather", "clean", "stuck"}
  /\ cur \in 1..(NTasks + 1) /\ base \in Attempts \cup {1} /\ conc \in Workers
  /\ rerun \in BOOLEAN /\ done \subseteq Tasks
  /\ born \subseteq Tasks \X Attempts
  /\ pre \in [image : Images \cup {NoImage}, st : Pulls]
  /\ cache \in [Images -> {"none", "source", "fixed"}]
  /\ lock \in 0..MaxConc
  /\ at \in [Workers -> Steps]
  /\ img \in [Workers -> {"none", "source", "fixed"}]
  /\ out \in [Workers -> Outcomes]

\* A resumed or repeated collection never writes into the directory of an
\* earlier attempt, although mkdir would accept it and attempts that failed
\* early leave gaps in the numbers (next_attempt_number).
FreshDirectory ==
  [][\A x \in Workers : at[x] = "preflight" /\ at'[x] \in {"box", "lock"}
       => Number(x) \notin dirs[cur]]_vars

\* load_completed_ids trusts a readable terminal manifest: it is only ever
\* written over a trace that is whole, wherever a crash or a full disk stopped
\* the attempt.
VerdictHasTrace ==
  \A t \in Tasks, a \in Attempts :
    manifest[t][a] \in {"completed", "exhausted"} => trace[t][a] = "whole"

\* Without --rerun-completed a task that ended in an earlier invocation, by
\* completion or by the iteration limit, gets no further attempt.
EndedIsNotRepeated ==
  phase \in {"ready", "gather"} /\ ~rerun =>
    \A a \in Attempts : manifest[cur][a] \in {"completed", "exhausted"} => a >= base

\* The concurrent attempts of a task never build an image that is there, nor
\* two of them the same one (the double-checked lock of ensure_fixed_image).
NoDoubleBuild ==
  \A x \in Workers : at[x] = "build" =>
    Fixed(Src) \notin local /\ \A y \in Workers : at[y] = "build" => y = x

\* A container is started from an image that is there: the removal of the last
\* task's images, with a cache that still names them, has not taken it away.
ImageAtHand ==
  \A x \in Workers : at[x] = "box" => <<Src, img[x]>> \in local

\* _cleanup_task_images "keeps only the current/next-image budget", except for
\* what it could not remove, what a killed process left, and two fixed images it
\* does not know of: one that a build had committed when it was reported as
\* failed, and that of concurrent attempts whose first one fell back to the
\* source image.
ImageBudget ==
  local \ excused \subseteq
    CASE phase = "down" -> {}
      [] phase = "pick" -> {Source(ImageFrom(cur))}
      [] OTHER -> {Source(Src), Fixed(Src), Source(NextImage)}

\* results.jsonl has a row for every attempt this invocation began.
EveryAttemptReported == [][report' # report => born \subseteq report']_vars

\* An invocation ends, unless it is killed, or a command that has no timeout never
\* returns: nobody waits for ever for a lock or a prefetch, whatever else fails.
Stuck == phase = "stuck" \/ pre.st = "stuck" \/ \E x \in Workers : at[x] = "stuck"
InvocationEnds == (phase = "pick") ~> (phase = "down" \/ Stuck)

Ledger == INSTANCE AttemptLedger WITH
  verdict <- [t \in Tasks |-> [a \in Attempts |->
                IF manifest[t][a] \in Verdicts THEN manifest[t][a] ELSE "none"]]
\* The manifests of a run directory are an append-only ledger of verdicts,
\* across crashes, resumed runs and reruns (write_run_manifest overwrites).
LedgerSpec == Ledger!Spec
=============================================================================
