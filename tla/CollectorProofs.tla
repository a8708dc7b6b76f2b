-------------------------- MODULE CollectorProofs --------------------------
(***************************************************************************)
(* The run directory and the images of a collection, for any number of     *)
(* tasks, attempts, invocations and faults.  The invariant says where the   *)
(* loop and its workers stand, which attempt numbers are in use, which      *)
(* files an attempt at hand has, and which images are there.                *)
(***************************************************************************)
EXTENDS Collector, TLAPS

Working == {"lock", "build", "box", "agent", "trace", "manifest", "stuck"}
Ended == {"completed", "exhausted"}

\* The loop is at a task, and only workers of this task's attempts are busy.
Placed ==
  /\ phase \in {"ready", "gather", "clean"} =>
       cur \in Tasks /\ base \in Attempts /\ base + conc - 1 \in Attempts
  /\ \A x \in Workers :
       /\ at[x] # "off" => x <= conc /\ phase \in {"gather", "clean", "stuck"}
       /\ at[x] \in Working \cup {"preflight"} => phase = "gather"

\* Images that a cache, a prefetch or a worker relies on are there.
Stocked ==
  /\ phase # "stuck" => \A i \in Images : cache[i] = "fixed" => Fixed(i) \in local
  /\ phase = "gather" => Source(Src) \in local
  /\ pre.st = "ok" => Source(pre.image) \in local
  /\ pre.st # "none" => pre.image \in Images
  /\ phase \in {"gather", "clean"} /\ pre.st \in {"running", "ok"} => pre.image # Src
  /\ \A x \in Workers : at[x] = "box" =>
       img[x] \in {"source", "fixed"} /\ (img[x] = "fixed" => Fixed(Src) \in local)

\* Whoever builds has the lock and builds what is not there.
Building ==
  \A x \in Workers : at[x] = "build" => lock = x /\ Fixed(Src) \notin local

\* A task the loop has not taken yet is as it was when the collector started.
Ahead(t) == phase # "down" /\ (t > cur \/ (t = cur /\ phase = "pick"))
Untouched ==
  \A t \in Tasks : Ahead(t) =>
    /\ \A a \in dirs[t] : a + conc <= MaxAttempt
    /\ \A a \in Attempts : manifest[t][a] \in Ended => t \in done

\* The numbers in use.
Rising ==
  /\ phase = "ready" => \A a \in dirs[cur] : a < base
  /\ phase = "gather" => \A a \in dirs[cur] :
       a < base \/ \E y \in Workers : a = Number(y) /\ at[y] \notin {"off", "preflight"}

\* The files of the attempts at hand, and of all attempts.
Owned ==
  \A x \in Workers : at[x] \in Working =>
    /\ Number(x) \in dirs[cur] /\ manifest[cur][Number(x)] = "none"
    /\ at[x] = "manifest" /\ out[x] # "raised" => trace[cur][Number(x)] = "whole"
Filed ==
  \A t \in Tasks, a \in Attempts : manifest[t][a] # "none" => a \in dirs[t]

\* What the rows will have to cover.
Covered ==
  \A t \in Tasks, a \in Attempts : <<t, a>> \in born =>
    \/ <<t, a>> \in rows
    \/ phase = "gather" /\ t = cur /\ <<t, a>> \in NewRows

Loaded == TypeOK /\ Placed /\ Stocked /\ Building
Files ==
  Untouched /\ Rising /\ Owned /\ Filed /\ VerdictHasTrace /\ EndedIsNotRepeated /\ Covered
Inv == Loaded /\ Files

-----------------------------------------------------------------------------
(* Arithmetic.                                                              *)

\* The attempt number of a worker of the task at hand.
LEMMA Numbers ==
  ASSUME TypeOK, Placed, phase = "gather" \/ phase = "clean"
  PROVE  /\ cur \in Tasks /\ Src \in Images /\ base \in Attempts
         /\ \A x \in Workers : x <= conc => Number(x) \in Attempts /\ Number(x) >= base
         /\ \A x, y \in Workers : Number(x) = Number(y) => x = y
  BY CollectorAssumption DEF TypeOK, Placed, Number, Src, Tasks, Workers, Attempts

\* The initial states.
LEMMA InitCollector == Init => Inv
<1> SUFFICES ASSUME Init PROVE Inv
  OBVIOUS
<1>1. TypeOK
  <2>1. /\ cur \in 1..(NTasks + 1) /\ base \in Attempts \cup {1} /\ conc \in Workers
        /\ starts \in Nat /\ faults \in Nat /\ lock \in 0..MaxConc
    BY CollectorAssumption DEF Init, Workers
  <2>2. /\ dirs \in [Tasks -> SUBSET Attempts]
        /\ trace \in [Tasks -> [Attempts -> {"none", "torn", "whole"}]]
        /\ manifest \in [Tasks -> [Attempts -> Verdicts \cup {"none", "torn"}]]
    BY DEF Init
  <2>3. /\ cache \in [Images -> {"none", "source", "fixed"}]
        /\ at \in [Workers -> Steps]
        /\ img \in [Workers -> {"none", "source", "fixed"}]
        /\ out \in [Workers -> Outcomes]
    BY DEF Init, Empty, Steps, Outcomes
  <2>4. pre \in [image : Images \cup {NoImage}, st : Pulls]
    BY DEF Init, NoPull, Pulls
  <2> QED
    BY <2>1, <2>2, <2>3, <2>4 DEF Init, TypeOK
<1>2. Placed /\ Stocked /\ Building
  BY <1>1 DEF Init, TypeOK, Placed, Stocked, Building, NoPull, Empty, Working
<1>3. Files
  BY <1>1
  DEF Init, TypeOK, Files, Untouched, Ahead, Rising, Owned, Filed, VerdictHasTrace, Ended,
      EndedIsNotRepeated, Covered, Working
<1> QED
  BY <1>1, <1>2, <1>3 DEF Inv, Loaded

\* An invocation starts: what ended is loaded, and every task is as it was.
LEMMA StartKeeps ==
  ASSUME Inv, NEW c \in 1..MaxConc, NEW r \in BOOLEAN, Start(c, r) PROVE Inv'
<1> USE DEF Inv, Loaded, Files
<1>1. \A x \in Workers : at[x] = "off"
  BY DEF Placed, Start, TypeOK
<1>2. TypeOK'
  BY CollectorAssumption
  DEF TypeOK, Start, diskVars, imageVars, workVars, Workers, Completed, Fine
<1>3. Placed' /\ Stocked' /\ Building'
  BY <1>1
  DEF Placed, Stocked, Building, Start, imageVars, workVars, Working, TypeOK
<1>4. Untouched'
  BY DEF Untouched, Ahead, Start, diskVars, Ended, Completed
<1>5. Rising' /\ Owned' /\ Filed' /\ VerdictHasTrace' /\ EndedIsNotRepeated' /\ Covered'
  BY <1>1
  DEF Rising, Owned, Filed, VerdictHasTrace, EndedIsNotRepeated, Covered, Start, diskVars,
      workVars, Working
<1> QED
  BY <1>2, <1>3, <1>4, <1>5

\* A task that is not pending is passed over.
LEMMA SkipKeeps == ASSUME Inv, Skip PROVE Inv'
<1> USE DEF Inv, Loaded, Files
<1>1. TypeOK'
  BY CollectorAssumption DEF TypeOK, Skip, diskVars, imageVars, workVars, Tasks, Fine
<1>2. Placed' /\ Stocked' /\ Building'
  BY DEF Placed, Stocked, Building, Skip, imageVars, workVars, Working
<1>3. Untouched'
  BY DEF Untouched, Ahead, Skip, diskVars, Tasks, TypeOK
<1>4. Rising' /\ Owned' /\ Filed' /\ VerdictHasTrace' /\ EndedIsNotRepeated' /\ Covered'
  BY DEF Rising, Owned, Filed, VerdictHasTrace, EndedIsNotRepeated, Covered, Skip, diskVars,
         workVars, Working, Placed
<1> QED
  BY <1>1, <1>2, <1>3, <1>4

\* The loop takes a task; its attempts get the numbers that follow.
LEMMA TakeKeeps == ASSUME Inv, NEW n \in Attempts, Take(n) PROVE Inv'
<1> USE DEF Inv, Loaded, Files
<1>1. n + conc - 1 \in Attempts
  <2>1. CASE n = 1
    BY <2>1, CollectorAssumption DEF TypeOK, Workers, Attempts
  <2>2. CASE n # 1
    <3>1. n - 1 \in dirs[cur]
      BY <2>2 DEF Take, NextAttempt
    <3>2. (n - 1) + conc <= MaxAttempt
      BY <3>1 DEF Untouched, Ahead, Take
    <3> QED
      BY <3>2, CollectorAssumption DEF TypeOK, Workers, Attempts
  <2> QED
    BY <2>1, <2>2
<1>2. TypeOK'
  BY CollectorAssumption DEF TypeOK, Take, diskVars, imageVars, workVars, Fine
<1>3. Placed' /\ Stocked' /\ Building'
  BY <1>1 DEF Placed, Stocked, Building, Take, imageVars, workVars, Working
<1>4. Untouched'
  BY DEF Untouched, Ahead, Take, diskVars, Tasks, TypeOK
<1>5. Rising' /\ Owned' /\ Filed' /\ VerdictHasTrace' /\ Covered'
  BY DEF Rising, Owned, Filed, VerdictHasTrace, Covered, Take, NextAttempt, diskVars,
         workVars, Working, Placed
<1>6. EndedIsNotRepeated'
  BY DEF EndedIsNotRepeated, Untouched, Ahead, Take, Pending, diskVars, Ended
<1> QED
  BY <1>2, <1>3, <1>4, <1>5, <1>6

\* The attempts begin, with the source image there.
LEMMA LaunchKeeps ==
  ASSUME Inv, SourcePrefetched \/ SourceEnsured PROVE Inv'
<1> USE DEF Inv, Loaded, Files
<1>1. /\ phase = "ready" /\ phase' = "gather"
      /\ cur \in Tasks /\ Src \in Images /\ conc \in Workers
      /\ local' \in {local, local \cup {Source(Src)}} /\ Source(Src) \in local'
      /\ pre' = (IF NextImage \in Images \ {image[cur]}
                 THEN [image |-> NextImage, st |-> "running"] ELSE NoPull)
      /\ at' = [x \in Workers |-> IF x <= conc THEN "preflight" ELSE "off"]
      /\ UNCHANGED <<image, dirs, trace, manifest, report, boxes, starts, faults, cur, base,
                     conc, rerun, done, rows, cache, lock, img, out, born, excused>>
  BY CollectorAssumption
  DEF SourcePrefetched, SourceEnsured, Launch, Prefetched, Fine, diskVars, Placed, Stocked,
      Src, TypeOK, Tasks
<1>2. TypeOK'
  <2>1. at' \in [Workers -> Steps]
    BY <1>1 DEF Steps
  <2>2. pre' \in [image : Images \cup {NoImage}, st : Pulls]
    BY <1>1 DEF NoPull, Pulls
  <2>3. local' \subseteq Refs
    BY <1>1 DEF TypeOK, Refs, Source
  <2> QED
    BY <1>1, <2>1, <2>2, <2>3 DEF TypeOK
<1>3. Placed' /\ Building'
  BY <1>1 DEF Placed, Building, Working
<1>4. Stocked'
  BY <1>1 DEF Stocked, Src, NoPull
<1>5. Untouched'
  BY <1>1 DEF Untouched, Ahead
<1>6. Rising' /\ Owned' /\ Filed' /\ VerdictHasTrace' /\ EndedIsNotRepeated' /\ Covered'
  BY <1>1
  DEF Rising, Owned, Filed, VerdictHasTrace, EndedIsNotRepeated, Covered, Working
<1> QED
  BY <1>2, <1>3, <1>4, <1>5, <1>6

\* The source image cannot be had: a row and no attempt.
LEMMA MissingKeeps == ASSUME Inv, SourceMissing PROVE Inv'
<1> USE DEF Inv, Loaded, Files
<1>1. /\ phase = "ready" /\ phase' = "clean" /\ (pre.image = Src => pre.st = "failed")
      /\ rows' = rows \cup {<<cur, base>>} /\ faults' = faults + 1
      /\ UNCHANGED <<image, dirs, trace, manifest, report, boxes, starts, cur, base,
                     conc, rerun, done, local, pre, cache, lock, at, img, out, born, excused>>
  BY DEF SourceMissing, diskVars, imageVars, workVars, Fault, Prefetched, Src
<1>2. TypeOK'
  BY <1>1 DEF TypeOK, Placed
<1>3. Placed' /\ Building' /\ Stocked'
  BY <1>1 DEF Placed, Building, Working, Stocked, Src
<1>4. Untouched'
  BY <1>1 DEF Untouched, Ahead
<1>5. Rising' /\ Owned' /\ Filed' /\ VerdictHasTrace' /\ EndedIsNotRepeated' /\ Covered'
  BY <1>1
  DEF Rising, Owned, Filed, VerdictHasTrace, EndedIsNotRepeated, Covered, Working, Placed
<1> QED
  BY <1>2, <1>3, <1>4, <1>5

\* All attempts of the task have come back.
LEMMA GatherKeeps == ASSUME Inv, Gather PROVE Inv'
<1> USE DEF Inv, Loaded, Files
<1>1. /\ phase = "gather" /\ phase' = "clean"
      /\ \A x \in 1..conc : at[x] = "over"
      /\ rows' = rows \cup NewRows
      /\ UNCHANGED <<image, dirs, trace, manifest, report, boxes, starts, faults, cur, base,
                     conc, rerun, done, local, pre, cache, lock, at, img, out, born, excused>>
  BY DEF Gather, diskVars, imageVars, workVars, Fine
<1>2. NewRows \subseteq Tasks \X Attempts
  BY <1>1, Numbers, CollectorAssumption DEF NewRows, TypeOK, Workers
<1>3. TypeOK'
  BY <1>1, <1>2 DEF TypeOK
<1>4. \A x \in Workers : at[x] \in {"off", "over"}
  BY <1>1 DEF Placed, Workers, TypeOK
<1>5. Placed' /\ Building' /\ Stocked'
  BY <1>1, <1>4 DEF Placed, Building, Working, Stocked, Src
<1>6. Untouched'
  BY <1>1 DEF Untouched, Ahead
<1>7. Rising' /\ Owned' /\ Filed' /\ VerdictHasTrace' /\ EndedIsNotRepeated' /\ Covered'
  BY <1>1, <1>4
  DEF Rising, Owned, Filed, VerdictHasTrace, EndedIsNotRepeated, Covered, Working
<1> QED
  BY <1>3, <1>5, <1>6, <1>7

\* The images of the task are removed and the loop goes on.
LEMMA CleanKeeps ==
  ASSUME Inv, NEW low \in BOOLEAN, NEW purged \in BOOLEAN, NEW removed \in SUBSET Refs,
         Clean(low, purged, removed)
  PROVE  Inv'
<1> USE DEF Inv, Loaded, Files
<1>1. /\ phase = "clean" /\ phase' = "pick" /\ cur' = cur + 1
      /\ boxes' \subseteq boxes /\ removed \subseteq Removals(low)
      /\ local' = local \ removed /\ excused' \subseteq local'
      /\ cache' = [cache EXCEPT ![Src] = "none"]
      /\ faults' \in {faults, faults + 1}
      /\ at' = [x \in Workers |-> "off"]
      /\ img' = [x \in Workers |-> "none"] /\ out' = [x \in Workers |-> "none"]
      /\ UNCHANGED <<image, dirs, trace, manifest, report, starts, base, conc, rerun, done,
                     rows, pre, lock, born>>
  BY DEF Clean, Removing, Residual, CacheDropped, Discard, diskVars, Fine, Fault
<1>2. cur \in Tasks /\ Src \in Images
  BY <1>1, Numbers
<1>3. removed \subseteq {Fixed(Src), Source(Src)}
  BY <1>1 DEF Removals
<1>4. TypeOK'
  <2>1. cur' \in 1..(NTasks + 1)
    BY <1>1, <1>2, CollectorAssumption DEF Tasks
  <2>2. cache' \in [Images -> {"none", "source", "fixed"}]
    BY <1>1, <1>2 DEF TypeOK
  <2> QED
    BY <1>1, <2>1, <2>2 DEF TypeOK, Steps, Outcomes
<1>5. Placed' /\ Building'
  BY <1>1 DEF Placed, Building, Working
<1>6. Stocked'
  <2>1. \A i \in Images : cache'[i] = "fixed" => Fixed(i) \in local'
    BY <1>1, <1>2, <1>3 DEF Stocked, TypeOK, Fixed, Source
  <2>2. pre.st = "ok" => Source(pre.image) \in local'
    BY <1>1, <1>3 DEF Stocked, Fixed, Source
  <2>3. pre' = pre /\ phase' = "pick" /\ \A x \in Workers : at'[x] = "off"
    BY <1>1
  <2> QED
    BY <2>1, <2>2, <2>3 DEF Stocked
<1>7. Untouched'
  BY <1>1, <1>2 DEF Untouched, Ahead, Tasks
<1>8. Rising' /\ Owned' /\ Filed' /\ VerdictHasTrace' /\ EndedIsNotRepeated' /\ Covered'
  BY <1>1
  DEF Rising, Owned, Filed, VerdictHasTrace, EndedIsNotRepeated, Covered, Working
<1> QED
  BY <1>4, <1>5, <1>6, <1>7, <1>8

\* The loop waits for docker, and will wait for ever.
LEMMA LoopHangsKeeps ==
  ASSUME Inv,
         \/ SourceHangs
         \/ \E low, purged \in BOOLEAN, removed \in SUBSET Refs :
              CleanHangs(low, purged, removed)
  PROVE  Inv'
<1> USE DEF Inv, Loaded, Files
<1>1. /\ phase \in {"ready", "clean"} /\ phase' = "stuck"
      /\ boxes' \subseteq boxes /\ local' \subseteq local
      /\ \A r \in local \ local' : r = Fixed(Src) /\ phase = "clean"
      /\ faults' = faults + 1
      /\ UNCHANGED <<image, dirs, trace, manifest, report, starts, cur, base, conc, rerun,
                     done, rows, pre, cache, lock, at, img, out, born, excused>>
  BY DEF SourceHangs, CleanHangs, Removing, Residual, LoopHangs, diskVars, workVars, Fault
<1>2. TypeOK'
  BY <1>1 DEF TypeOK
<1>3. Placed' /\ Building'
  BY <1>1 DEF Placed, Building, Working, Src
<1>4. Stocked'
  <2>1. \A i \in Images : Source(i) \in local => Source(i) \in local'
    BY <1>1 DEF Fixed, Source
  <2>2. \A x \in Workers : at[x] # "box"
    BY <1>1 DEF Placed, Working
  <2> QED
    BY <1>1, <2>1, <2>2 DEF Stocked
<1>5. Untouched'
  BY <1>1 DEF Untouched, Ahead
<1>6. Rising' /\ Owned' /\ Filed' /\ VerdictHasTrace' /\ EndedIsNotRepeated' /\ Covered'
  BY <1>1
  DEF Rising, Owned, Filed, VerdictHasTrace, EndedIsNotRepeated, Covered, Working, Placed
<1> QED
  BY <1>2, <1>3, <1>4, <1>5, <1>6

\* The invocation is over, and so is what the process kept in memory.
LEMMA ForgetKeeps ==
  ASSUME Inv, Forget, faults' \in Nat, report' \subseteq Tasks \X Attempts,
         excused' \subseteq Refs,
         trace' \in [Tasks -> [Attempts -> {"none", "torn", "whole"}]],
         manifest' \in [Tasks -> [Attempts -> Verdicts \cup {"none", "torn"}]],
         Filed', VerdictHasTrace'
  PROVE  Inv'
<1> USE DEF Inv, Loaded, Files
<1>1. TypeOK'
  <2>1. /\ cur' \in 1..(NTasks + 1) /\ base' \in Attempts \cup {1} /\ conc' \in Workers
        /\ lock' \in 0..MaxConc
    BY CollectorAssumption DEF Forget, Workers
  <2>2. /\ cache' \in [Images -> {"none", "source", "fixed"}]
        /\ at' \in [Workers -> Steps]
        /\ img' \in [Workers -> {"none", "source", "fixed"}]
        /\ out' \in [Workers -> Outcomes]
    BY DEF Forget, Discard, Empty, Steps, Outcomes
  <2>3. pre' \in [image : Images \cup {NoImage}, st : Pulls]
    BY DEF Forget, NoPull, Pulls
  <2> QED
    BY <2>1, <2>2, <2>3 DEF Forget, TypeOK
<1>2. Placed' /\ Stocked' /\ Building'
  BY DEF Placed, Stocked, Building, Forget, Discard, NoPull, Empty, Working
<1>3. Untouched' /\ Rising' /\ Owned' /\ EndedIsNotRepeated' /\ Covered'
  BY DEF Untouched, Ahead, Rising, Owned, EndedIsNotRepeated, Covered, Forget, Discard, Working
<1> QED
  BY <1>1, <1>2, <1>3

\* A file that is torn by what the attempts at hand were writing.
LEMMA Tears ==
  ASSUME NEW V, "torn" \in V, NEW file \in [Tasks -> [Attempts -> V]], NEW writing
  PROVE  /\ Torn(file, writing) \in [Tasks -> [Attempts -> V]]
         /\ \A t \in Tasks, a \in Attempts :
              \/ Torn(file, writing)[t][a] = file[t][a]
              \/ /\ Torn(file, writing)[t][a] = "torn"
                 /\ t = cur /\ \E x \in writing : a = Number(x)
  BY DEF Torn

\* The rows are written.
LEMMA ReportKeeps == ASSUME Inv, Report PROVE Inv'
<1>1. Filed' /\ VerdictHasTrace'
  BY DEF Inv, Files, Filed, VerdictHasTrace, Report, Forget
<1> QED
  BY <1>1, ForgetKeeps DEF Report, Fine, Inv, Loaded, TypeOK

\* The process is killed.
LEMMA CrashKeeps == ASSUME Inv, NEW writing \in SUBSET Workers, Crash(writing) PROVE Inv'
<1> USE DEF Inv, Loaded, Files
<1> DEFINE T == {x \in writing : at[x] = "trace"}
           M == {x \in writing : at[x] = "manifest"}
<1>1. trace' = Torn(trace, T) /\ manifest' = Torn(manifest, M)
  BY DEF Crash
<1>2. /\ trace' \in [Tasks -> [Attempts -> {"none", "torn", "whole"}]]
      /\ manifest' \in [Tasks -> [Attempts -> Verdicts \cup {"none", "torn"}]]
  <2>1. trace \in [Tasks -> [Attempts -> {"none", "torn", "whole"}]]
    BY DEF TypeOK
  <2>2. Torn(trace, T) \in [Tasks -> [Attempts -> {"none", "torn", "whole"}]]
    BY <2>1, Tears
  <2>3. manifest \in [Tasks -> [Attempts -> Verdicts \cup {"none", "torn"}]]
    BY DEF TypeOK
  <2>4. Torn(manifest, M) \in [Tasks -> [Attempts -> Verdicts \cup {"none", "torn"}]]
    BY <2>3, Tears
  <2> QED
    BY <1>1, <2>2, <2>4
<1>3. \A t \in Tasks, a \in Attempts :
        /\ \/ trace'[t][a] = trace[t][a]
           \/ t = cur /\ \E x \in T : a = Number(x)
        /\ \/ manifest'[t][a] = manifest[t][a]
           \/ manifest'[t][a] = "torn" /\ t = cur /\ \E x \in M : a = Number(x)
  BY <1>1 DEF Torn
<1>4. \A x \in T \cup M : Number(x) \in dirs[cur] /\ manifest[cur][Number(x)] = "none"
  BY DEF Owned, Working
<1>5. Filed'
  <2>1. ASSUME NEW t \in Tasks, NEW a \in Attempts, manifest'[t][a] # "none"
        PROVE  a \in dirs[t]
    <3>1. CASE manifest'[t][a] = manifest[t][a]
      BY <2>1, <3>1 DEF Filed
    <3>2. CASE manifest'[t][a] # manifest[t][a]
      <4>1. t = cur /\ \E x \in M : a = Number(x)
        BY <1>3, <3>2
      <4> QED
        BY <1>4, <4>1
    <3> QED
      BY <3>1, <3>2
  <2>2. dirs' = dirs
    BY DEF Crash, Forget
  <2> QED
    BY <2>1, <2>2 DEF Filed
<1>6. VerdictHasTrace'
  BY <1>3, <1>4 DEF VerdictHasTrace
<1>7. /\ Forget /\ faults' \in Nat /\ report' \subseteq Tasks \X Attempts
      /\ excused' \subseteq Refs
  BY DEF Crash, Fault, TypeOK
<1> QED
  BY <1>2, <1>5, <1>6, <1>7, ForgetKeeps

\* The prefetch thread is done, or waits for ever.
LEMMA PrefetchKeeps == ASSUME Inv, PrefetchEnds \/ PrefetchHangs PROVE Inv'
<1> USE DEF Inv, Loaded, Files
<1>1. /\ pre.st = "running" /\ pre.image \in Images
      /\ local' \in {local, local \cup {Source(pre.image)}}
      /\ \/ pre' = [pre EXCEPT !.st = "ok"] /\ Source(pre.image) \in local'
         \/ pre' = [pre EXCEPT !.st = "failed"]
         \/ pre' = [pre EXCEPT !.st = "stuck"]
      /\ faults' \in {faults, faults + 1}
      /\ UNCHANGED <<image, dirs, trace, manifest, report, boxes, starts, phase, cur, base,
                     conc, rerun, done, rows, cache, lock, at, img, out, born, excused>>
  BY DEF PrefetchEnds, PrefetchHangs, diskVars, loopVars, workVars, Fine, Fault, Stocked
<1>2. TypeOK'
  <2>1. pre' \in [image : Images \cup {NoImage}, st : Pulls]
    BY <1>1 DEF TypeOK, Pulls
  <2>2. local' \subseteq Refs
    BY <1>1 DEF TypeOK, Refs, Source
  <2> QED
    BY <1>1, <2>1, <2>2 DEF TypeOK
<1>3. Placed'
  BY <1>1 DEF Placed
<1>4. Building'
  BY <1>1 DEF Building, Src, Fixed, Source
<1>5. Stocked'
  BY <1>1 DEF Stocked, Src, TypeOK
<1>6. Untouched'
  BY <1>1 DEF Untouched, Ahead
<1>7. Rising' /\ Owned' /\ Filed' /\ VerdictHasTrace' /\ EndedIsNotRepeated' /\ Covered'
  BY <1>1
  DEF Rising, Owned, Filed, VerdictHasTrace, EndedIsNotRepeated, Covered, Working, Number,
      NewRows
<1> QED
  BY <1>2, <1>3, <1>4, <1>5, <1>6, <1>7

-----------------------------------------------------------------------------
(* The workers.                                                             *)

\* What every step of an attempt leaves alone, and where its worker stands.
Framed(x) ==
  /\ phase = "gather" /\ x <= conc /\ at[x] \in Working \cup {"preflight"}
  /\ cur \in Tasks /\ Src \in Images /\ base \in Attempts
  /\ Number(x) \in Attempts /\ Number(x) >= base
  /\ faults' \in Nat /\ at' \in [Workers -> Steps] /\ at'[x] \notin {"off", "preflight"}
  /\ \A y \in Workers : y # x => at'[y] = at[y]
  /\ UNCHANGED <<image, report, starts, phase, cur, base, conc, rerun, done, rows, pre>>
  /\ excused \subseteq excused' /\ excused' \subseteq Refs
  /\ Src' = Src /\ NewRows' = NewRows /\ \A y \in Workers : Number(y)' = Number(y)

\* Every step of an attempt is such a step.
LEMMA AttemptFrame ==
  ASSUME Inv, NEW x \in Workers, Attempt(x) PROVE Framed(x) /\ Placed'
<1>1. /\ phase = "gather" /\ at[x] \in Working \cup {"preflight"}
      /\ faults' \in {faults, faults + 1} /\ UNCHANGED <<image, report, loopVars, pre>>
      /\ excused' \in {excused, excused \cup {Fixed(Src)}}
      /\ \E to \in Steps \ {"off", "preflight"} : at' = [at EXCEPT ![x] = to]
  BY DEF Attempt, DiskTooFull, CacheHit, CacheMiss, CheckLocked, StartBuild, ProbeFails,
         BuildEnds, BuildFails, BuildLeaves, LookHangs, BoxFails, StartBox, AgentEnds,
         StopTimesOut, AgentFails, AgentHangs, WriteTrace, TraceFails, NoTrace,
         WriteManifest, ManifestFails, At, Fails, Moves,
         Fine, Fault, MakeDir, AgentFrame, WriteFrame, LookHangs, AgentHangs, StepFrame,
         BuildLeaves, Working, Steps
<1>2. x <= conc
  BY <1>1 DEF Inv, Loaded, Placed, Working
<1>3. /\ cur \in Tasks /\ Src \in Images /\ base \in Attempts
      /\ Number(x) \in Attempts /\ Number(x) >= base
  BY <1>1, <1>2, Numbers DEF Inv, Loaded
<1>4. /\ faults' \in Nat /\ at' \in [Workers -> Steps] /\ at'[x] \notin {"off", "preflight"}
      /\ \A y \in Workers : y # x => at'[y] = at[y]
  BY <1>1 DEF Inv, Loaded, TypeOK
<1>5. UNCHANGED <<image, report, starts, phase, cur, base, conc, rerun, done, rows, pre>>
  BY <1>1 DEF loopVars
<1>6. Src' = Src /\ NewRows' = NewRows /\ \A y \in Workers : Number(y)' = Number(y)
  BY <1>5 DEF Src, NewRows, Number
<1>7. Placed'
  BY <1>1, <1>2, <1>4, <1>5 DEF Inv, Loaded, Placed
<1>8. excused \subseteq excused' /\ excused' \subseteq Refs
  BY <1>1, <1>3 DEF Inv, Loaded, TypeOK, Refs, Fixed
<1> QED
  BY <1>1, <1>2, <1>3, <1>4, <1>5, <1>6, <1>7, <1>8 DEF Framed

\* A step that writes no file and makes no directory.
LEMMA FilesKept ==
  ASSUME Inv, NEW x \in Workers, Attempt(x),
         UNCHANGED <<dirs, trace, manifest, born>>,
         at'[x] \in Working => at[x] \in Working,
         at'[x] # "manifest" \/ out'[x] = "raised",
         \A y \in Workers \ {x} : out'[y] = out[y]
  PROVE  Files'
<1>1. Framed(x)
  BY AttemptFrame
<1> USE <1>1 DEF Framed, Inv, Loaded, Files
<1>2. Untouched'
  BY DEF Untouched, Ahead
<1>3. Rising'
  BY DEF Rising
<1>4. Owned'
  BY DEF Owned
<1>5. Filed' /\ VerdictHasTrace' /\ EndedIsNotRepeated' /\ Covered'
  BY DEF Filed, VerdictHasTrace, EndedIsNotRepeated, Covered
<1> QED
  BY <1>2, <1>3, <1>4, <1>5

\* A step that leaves images, cache and lock alone and does not start a build.
LEMMA ImagesKept ==
  ASSUME Inv, NEW x \in Workers, Attempt(x), UNCHANGED <<local, cache, lock>>,
         at'[x] \notin {"build", "box"}, \A y \in Workers \ {x} : img'[y] = img[y]
  PROVE  Stocked' /\ Building'
<1>1. Framed(x)
  BY AttemptFrame
<1> USE <1>1 DEF Framed, Inv, Loaded
<1>2. Stocked'
  BY DEF Stocked
<1>3. Building'
  BY DEF Building
<1> QED
  BY <1>2, <1>3

\* The disk is too full to begin.
LEMMA FullKeeps == ASSUME Inv, NEW x \in Workers, DiskTooFull(x) PROVE Inv'
<1>1. Attempt(x)
  BY DEF Attempt
<1>2. /\ UNCHANGED <<dirs, trace, manifest, boxes, local, cache, lock, img, out, born>>
      /\ at'[x] = "over" /\ at' \in [Workers -> Steps]
  BY DEF DiskTooFull, Fails, Moves, Inv, Loaded, TypeOK, Steps
<1>3. Framed(x) /\ Placed'
  BY <1>1, AttemptFrame
<1>4. TypeOK'
  BY <1>2, <1>3 DEF Framed, Inv, Loaded, TypeOK
<1>5. Files'
  BY <1>1, <1>2, FilesKept DEF Working
<1>6. Stocked' /\ Building'
  BY <1>1, <1>2, ImagesKept
<1> QED
  BY <1>3, <1>4, <1>5, <1>6 DEF Inv, Loaded

\* The attempt's directory is made; the number was free.
LEMMA MakeDirKeeps ==
  ASSUME Inv, NEW x \in Workers, CacheHit(x) \/ CacheMiss(x) PROVE Inv'
<1>1. Attempt(x)
  BY DEF Attempt
<1>16. Framed(x) /\ Placed'
  BY <1>1, AttemptFrame
<1> USE <1>16 DEF Framed, Inv, Loaded, Files
<1>2. /\ at[x] = "preflight" /\ at'[x] \in {"box", "lock"}
      /\ at'[x] = "box" => cache[Src] # "none" /\ img' = [img EXCEPT ![x] = cache[Src]]
      /\ at'[x] = "lock" => img' = img
      /\ dirs' = [dirs EXCEPT ![cur] = @ \cup {Number(x)}]
      /\ born' = born \cup {<<cur, Number(x)>>}
      /\ UNCHANGED <<trace, manifest, boxes, local, cache, lock, out>>
  BY DEF CacheHit, CacheMiss, MakeDir, At, Moves, TypeOK
<1>3. \A y \in Workers : y # x => at'[y] = at[y]
  BY DEF TypeOK
<1>4. Number(x) \notin dirs[cur]
  <2>1. \A y \in Workers : Number(x) = Number(y) => x = y
    BY Numbers
  <2>2. ~(Number(x) < base)
    BY DEF Attempts
  <2> QED
    BY <1>2, <2>1, <2>2 DEF Rising
<1>5. TypeOK'
  <2>1. img' \in [Workers -> {"none", "source", "fixed"}]
    BY <1>2 DEF TypeOK
  <2>2. dirs' \in [Tasks -> SUBSET Attempts]
    BY <1>2 DEF TypeOK
  <2>3. born' \subseteq Tasks \X Attempts
    BY <1>2 DEF TypeOK
  <2> QED
    BY <1>2, <2>1, <2>2, <2>3 DEF TypeOK
<1>6. Src' = Src /\ \A y \in Workers : Number(y)' = Number(y)
  BY DEF Src, Number
<1>7. Building'
  BY <1>2, <1>3, <1>6 DEF Building
<1>8. Stocked'
  <2>1. \A y \in Workers : y # x => img'[y] = img[y]
    BY <1>2 DEF TypeOK
  <2>2. at'[x] = "box" => img'[x] = cache[Src] /\ cache[Src] \in {"source", "fixed"}
    BY <1>2 DEF TypeOK
  <2> QED
    BY <1>2, <1>3, <1>6, <2>1, <2>2 DEF Stocked
<1>9. /\ dirs'[cur] = dirs[cur] \cup {Number(x)}
      /\ \A t \in Tasks : t # cur => dirs'[t] = dirs[t]
  BY <1>2 DEF TypeOK
<1>10. Untouched'
  <2>1. \A t \in Tasks : Ahead(t)' => t # cur /\ Ahead(t)
    BY DEF Ahead, Tasks
  <2> QED
    BY <1>2, <1>9, <2>1 DEF Untouched
<1>11. Rising'
  BY <1>2, <1>3, <1>6, <1>9 DEF Rising
<1>12. Owned'
  <2>1. manifest[cur][Number(x)] = "none"
    BY <1>4 DEF Filed
  <2> QED
    BY <1>2, <1>3, <1>6, <1>9, <2>1 DEF Owned
<1>13. Filed'
  BY <1>2, <1>9 DEF Filed
<1>14. VerdictHasTrace' /\ EndedIsNotRepeated'
  BY <1>2 DEF VerdictHasTrace, EndedIsNotRepeated
<1>15. Covered'
  <2>1. <<cur, Number(x)>> \in NewRows' /\ NewRows' = NewRows
    BY DEF NewRows, Number, Workers, TypeOK
  <2> QED
    BY <1>2, <2>1 DEF Covered
<1> QED
  BY <1>5, <1>7, <1>8, <1>10, <1>11, <1>12, <1>13, <1>14, <1>15

\* The image of the attempts: looked up, built, or given up.
LEMMA ImageKeeps ==
  ASSUME Inv, NEW x \in Workers,
         \/ CheckLocked(x) \/ StartBuild(x) \/ ProbeFails(x)
         \/ BuildEnds(x) \/ BuildFails(x) \/ LookHangs(x)
  PROVE  Inv'
<1>1. Attempt(x)
  BY DEF Attempt
<1>11. Framed(x) /\ Placed'
  BY <1>1, AttemptFrame
<1> USE <1>11 DEF Framed, Inv, Loaded
<1>2. /\ UNCHANGED <<dirs, trace, manifest, boxes, out, born>>
      /\ at[x] \in Working /\ at'[x] \in {"box", "build", "stuck"}
  BY DEF CheckLocked, StartBuild, ProbeFails, BuildEnds, BuildFails, LookHangs, ImageFrame, At, Fails,
         Moves, TypeOK, Working
<1>3. Files'
  BY <1>1, <1>2, FilesKept DEF Working
<1>4. \A y \in Workers : y # x => at'[y] = at[y]
  BY DEF TypeOK
<1>5. Src' = Src
  BY DEF Src
<1>6. \A y \in Workers : at[y] = "build" /\ lock = 0 => FALSE
  BY DEF Building, Workers
<1>7. CASE CheckLocked(x)
  <2>1. /\ at'[x] = "box" /\ lock = 0 /\ UNCHANGED <<local, lock>>
        /\ img' = [img EXCEPT ![x] = cache'[Src]]
        /\ \/ cache[Src] # "none" /\ cache' = cache
           \/ Fixed(Src) \in local /\ cache' = [cache EXCEPT ![Src] = "fixed"]
    BY <1>7 DEF CheckLocked, At, Moves, TypeOK
  <2>2. cache' \in [Images -> {"none", "source", "fixed"}] /\ cache'[Src] \in {"source", "fixed"}
    BY <2>1 DEF TypeOK
  <2>3. img' \in [Workers -> {"none", "source", "fixed"}]
    BY <2>1, <2>2 DEF TypeOK
  <2>4. TypeOK'
    BY <1>2, <2>1, <2>2, <2>3 DEF TypeOK
  <2>5. \A i \in Images : cache'[i] = "fixed" => Fixed(i) \in local
    BY <2>1 DEF Stocked, TypeOK
  <2>6. img'[x] = cache'[Src] /\ \A y \in Workers : y # x => img'[y] = img[y]
    BY <2>1 DEF TypeOK
  <2>7. Stocked'
    BY <1>4, <1>5, <2>1, <2>2, <2>5, <2>6 DEF Stocked
  <2>8. Building'
    BY <1>4, <1>5, <2>1 DEF Building
  <2> QED
    BY <1>3, <2>4, <2>7, <2>8
<1>8. CASE StartBuild(x)
  <2>1. /\ at'[x] = "build" /\ lock = 0 /\ lock' = x /\ Fixed(Src) \notin local
        /\ local' = local \cup {Source(Src)} /\ UNCHANGED <<cache, img>>
    BY <1>8 DEF StartBuild, LockFree, At, Moves, TypeOK
  <2>2. local' \subseteq Refs /\ lock' \in 0..MaxConc
    BY <2>1, CollectorAssumption DEF TypeOK, Refs, Source, Workers
  <2>3. TypeOK'
    BY <1>2, <2>1, <2>2 DEF TypeOK
  <2>4. Stocked'
    BY <1>4, <1>5, <2>1 DEF Stocked
  <2>5. Building'
    BY <1>4, <1>5, <1>6, <2>1 DEF Building, Fixed, Source
  <2> QED
    BY <1>3, <2>3, <2>4, <2>5
<1>9. CASE ProbeFails(x)
  <2>1. /\ at'[x] = "box" /\ img' = [img EXCEPT ![x] = "source"]
        /\ UNCHANGED <<local, cache, lock>>
    BY <1>9 DEF ProbeFails, Fails, Moves, TypeOK
  <2>2. /\ img' \in [Workers -> {"none", "source", "fixed"}]
        /\ img'[x] = "source" /\ \A y \in Workers : y # x => img'[y] = img[y]
    BY <2>1 DEF TypeOK
  <2>3. TypeOK'
    BY <1>2, <2>1, <2>2 DEF TypeOK
  <2>4. Stocked'
    BY <1>4, <1>5, <2>1, <2>2 DEF Stocked
  <2>5. Building'
    BY <1>4, <1>5, <2>1 DEF Building
  <2> QED
    BY <1>3, <2>3, <2>4, <2>5
<1>10. CASE BuildEnds(x) \/ BuildFails(x)
  <2>1. /\ at[x] = "build" /\ at'[x] = "box" /\ lock' = 0
    BY <1>10 DEF BuildEnds, BuildFails, Cached, At, Fails, Moves, TypeOK
  <2>2. PICK kind \in {"source", "fixed"} :
          /\ cache' = [cache EXCEPT ![Src] = kind] /\ img' = [img EXCEPT ![x] = kind]
          /\ local' \in {local, local \cup {Fixed(Src)}}
          /\ kind = "fixed" => Fixed(Src) \in local'
    <3>1. CASE BuildEnds(x)
      BY <3>1 DEF BuildEnds, Cached
    <3>2. CASE BuildFails(x)
      <4>1. local' \in {local, local \cup {Fixed(Src)}}
        BY <3>2 DEF BuildFails, BuildLeaves
      <4> QED
        BY <3>2, <4>1 DEF BuildFails, Cached
    <3> QED
      BY <1>10, <3>1, <3>2
  <2>3. /\ cache' \in [Images -> {"none", "source", "fixed"}]
        /\ img' \in [Workers -> {"none", "source", "fixed"}]
        /\ img'[x] = kind /\ \A y \in Workers : y # x => img'[y] = img[y]
        /\ cache'[Src] = kind /\ \A i \in Images : i # Src => cache'[i] = cache[i]
    BY <2>2 DEF TypeOK
  <2>4. local' \subseteq Refs /\ lock' \in 0..MaxConc
    BY <2>1, <2>2, CollectorAssumption DEF TypeOK, Refs, Fixed
  <2>5. TypeOK'
    BY <1>2, <2>1, <2>3, <2>4 DEF TypeOK
  <2>6. local \subseteq local' /\ (kind = "fixed" => Fixed(Src) \in local')
    BY <2>2
  <2>7. \A i \in Images : cache'[i] = "fixed" => Fixed(i) \in local'
    BY <2>3, <2>6 DEF Stocked
  <2>8. Stocked'
    BY <1>4, <1>5, <2>1, <2>3, <2>6, <2>7 DEF Stocked
  <2>9. Building'
    BY <1>4, <1>5, <2>1 DEF Building
  <2> QED
    BY <1>3, <2>5, <2>8, <2>9
<1>12. CASE LookHangs(x)
  <2>1. at'[x] = "stuck" /\ lock = 0 /\ lock' = x /\ UNCHANGED <<local, cache, img>>
    BY <1>12 DEF LookHangs, LockFree, Fails, Moves, TypeOK
  <2>2. lock' \in 0..MaxConc
    BY <2>1, CollectorAssumption DEF Workers
  <2>3. TypeOK'
    BY <1>2, <2>1, <2>2 DEF TypeOK
  <2>4. Stocked'
    BY <1>4, <1>5, <2>1 DEF Stocked
  <2>5. Building'
    BY <1>4, <1>5, <1>6, <2>1 DEF Building
  <2> QED
    BY <1>3, <2>3, <2>4, <2>5
<1> QED
  BY <1>7, <1>8, <1>9, <1>10, <1>12

\* The container of an attempt, and the agent in it.
LEMMA BoxKeeps ==
  ASSUME Inv, NEW x \in Workers,
         \/ BoxFails(x) \/ StartBox(x)
         \/ \E o \in Endings : AgentEnds(x, o) \/ StopTimesOut(x, o)
         \/ \E o \in {"failed", "raised"} : AgentFails(x, o)
         \/ AgentHangs(x)
  PROVE  Inv'
<1>1. Attempt(x)
  BY DEF Attempt
<1>2. Framed(x) /\ Placed'
  BY <1>1, AttemptFrame
<1> USE <1>2 DEF Framed, Inv, Loaded
<1>3. /\ UNCHANGED <<dirs, trace, manifest, local, cache, lock, img, born>>
      /\ at[x] \in {"box", "agent"} /\ at'[x] \in {"agent", "trace", "stuck"}
  BY DEF BoxFails, StartBox, AgentEnds, StopTimesOut, AgentFails, AgentHangs, AgentFrame, At, Fails,
         Moves, TypeOK
<1>4. out' = out \/ \E o \in Outcomes : out' = [out EXCEPT ![x] = o]
  BY CollectorAssumption
  DEF BoxFails, StartBox, AgentEnds, StopTimesOut, AgentFails, AgentHangs, Outcomes
<1>5. /\ out' \in [Workers -> Outcomes]
      /\ \A y \in Workers \ {x} : out'[y] = out[y]
  BY <1>4 DEF TypeOK
<1>6. boxes' \subseteq Tasks \X Attempts \X Refs
  <2>1. CASE StartBox(x)
    <3>1. Box(x) \in Tasks \X Attempts \X Refs
      BY <2>1 DEF StartBox, At, Moves, Box, Refs, Stocked
    <3> QED
      BY <2>1, <3>1 DEF StartBox, TypeOK
  <2>2. CASE ~StartBox(x)
    BY <2>2 DEF BoxFails, AgentEnds, StopTimesOut, AgentFails, AgentHangs, TypeOK
  <2> QED
    BY <2>1, <2>2
<1>7. TypeOK'
  BY <1>3, <1>5, <1>6 DEF TypeOK
<1>8. Files'
  BY <1>1, <1>3, <1>5, FilesKept DEF Working
<1>9. Stocked' /\ Building'
  BY <1>1, <1>3, ImagesKept
<1> QED
  BY <1>7, <1>8, <1>9

\* The trace and the manifest of an attempt, and how either may fail.
LEMMA WriteKeeps ==
  ASSUME Inv, NEW x \in Workers,
         \/ WriteTrace(x) \/ TraceFails(x) \/ NoTrace(x)
         \/ WriteManifest(x) \/ ManifestFails(x)
  PROVE  Inv'
<1>1. Attempt(x)
  BY DEF Attempt
<1>2. Framed(x) /\ Placed'
  BY <1>1, AttemptFrame
<1> USE <1>2 DEF Framed, Inv, Loaded, Files
<1>3. /\ UNCHANGED <<dirs, local, cache, lock, img, born, boxes, out>>
      /\ at[x] \in {"trace", "manifest"} /\ at'[x] \in {"manifest", "over"}
  BY DEF WriteTrace, TraceFails, NoTrace, WriteManifest, ManifestFails, WriteFrame, AgentFrame,
         At, Fails, Moves, TypeOK
<1>4. Stocked' /\ Building'
  BY <1>1, <1>3, ImagesKept
<1>5. Number(x) \in dirs[cur] /\ manifest[cur][Number(x)] = "none"
  BY <1>3 DEF Owned, Working
<1>6. /\ trace' \in [Tasks -> [Attempts -> {"none", "torn", "whole"}]]
      /\ \A t \in Tasks, a \in Attempts :
           trace'[t][a] = trace[t][a] \/ (t = cur /\ a = Number(x) /\ UNCHANGED manifest)
  <2>1. CASE WriteTrace(x)
    BY <2>1 DEF WriteTrace, SetTrace, TypeOK
  <2>2. CASE TraceFails(x)
    <3>1. trace' = Torn(trace, {x}) /\ UNCHANGED manifest
      BY <2>2 DEF TraceFails
    <3>2. trace \in [Tasks -> [Attempts -> {"none", "torn", "whole"}]]
      BY DEF TypeOK
    <3>3. trace' \in [Tasks -> [Attempts -> {"none", "torn", "whole"}]]
      BY <3>1, <3>2, Tears
    <3> QED
      BY <3>1, <3>3 DEF Torn
  <2>3. CASE NoTrace(x) \/ WriteManifest(x) \/ ManifestFails(x)
    BY <2>3 DEF NoTrace, WriteManifest, ManifestFails, TypeOK
  <2> QED
    BY <2>1, <2>2, <2>3
<1>7. /\ manifest' \in [Tasks -> [Attempts -> Verdicts \cup {"none", "torn"}]]
      /\ \A t \in Tasks, a \in Attempts :
           \/ manifest'[t][a] = manifest[t][a]
           \/ /\ t = cur /\ a = Number(x) /\ UNCHANGED trace
              /\ manifest'[t][a] \in Ended => trace[t][a] = "whole"
  <2>1. CASE WriteManifest(x)
    <3>1. StatusOf(out[x]) \in Verdicts
      BY DEF StatusOf, Verdicts
    <3>2. StatusOf(out[x]) \in Ended => out[x] # "raised"
      BY DEF StatusOf, Ended
    <3>3. out[x] # "raised" => trace[cur][Number(x)] = "whole"
      BY <2>1 DEF WriteManifest, At, Moves, Owned, Working
    <3>4. manifest' = [manifest EXCEPT ![cur][Number(x)] = StatusOf(out[x])] /\ UNCHANGED trace
      BY <2>1 DEF WriteManifest, SetManifest
    <3> QED
      BY <3>1, <3>2, <3>3, <3>4 DEF TypeOK
  <2>2. CASE ManifestFails(x)
    <3>1. manifest' = Torn(manifest, {x}) /\ UNCHANGED trace
      BY <2>2 DEF ManifestFails
    <3>2. manifest \in [Tasks -> [Attempts -> Verdicts \cup {"none", "torn"}]]
      BY DEF TypeOK
    <3>3. manifest' \in [Tasks -> [Attempts -> Verdicts \cup {"none", "torn"}]]
      BY <3>1, <3>2, Tears
    <3> QED
      BY <3>1, <3>3 DEF Torn, Ended
  <2>3. CASE NoTrace(x) \/ WriteTrace(x) \/ TraceFails(x)
    BY <2>3 DEF NoTrace, WriteTrace, TraceFails, TypeOK
  <2> QED
    BY <2>1, <2>2, <2>3
<1>8. TypeOK'
  BY <1>3, <1>6, <1>7 DEF TypeOK
<1>9. Untouched'
  <2>1. \A t \in Tasks : Ahead(t)' => t # cur /\ Ahead(t)
    BY DEF Ahead, Tasks
  <2> QED
    BY <1>3, <1>7, <2>1 DEF Untouched
<1>10. Rising'
  BY <1>3 DEF Rising
<1>11. Owned'
  <2>1. ASSUME NEW y \in Workers, at'[y] \in Working
        PROVE  /\ Number(y) \in dirs[cur] /\ manifest'[cur][Number(y)] = "none"
               /\ at'[y] = "manifest" /\ out[y] # "raised" => trace'[cur][Number(y)] = "whole"
    <3>1. CASE y = x
      <4>1. WriteTrace(x) \/ NoTrace(x)
        BY <2>1, <3>1
        DEF TraceFails, WriteManifest, ManifestFails, At, Fails, Moves, TypeOK, Working
      <4>2. CASE WriteTrace(x)
        BY <1>5, <3>1, <4>2 DEF WriteTrace, SetTrace, TypeOK
      <4>3. CASE NoTrace(x)
        BY <1>5, <3>1, <4>3 DEF NoTrace
      <4> QED
        BY <4>1, <4>2, <4>3
    <3>2. CASE y # x
      <4>1. at[y] = at'[y] /\ y <= conc
        BY <3>2, <2>1 DEF Placed, Working
      <4>2. Number(y) # Number(x) /\ Number(y) \in Attempts
        BY <3>2, <4>1, Numbers
      <4> QED
        BY <1>6, <1>7, <2>1, <4>1, <4>2 DEF Owned
    <3> QED
      BY <3>1, <3>2
  <2> QED
    BY <1>3, <2>1 DEF Owned
<1>12. Filed'
  BY <1>3, <1>5, <1>7 DEF Filed
<1>13. VerdictHasTrace'
  BY <1>5, <1>6, <1>7 DEF VerdictHasTrace, Ended
<1>14. EndedIsNotRepeated'
  BY <1>7 DEF EndedIsNotRepeated, Ended
<1>15. Covered'
  BY <1>3 DEF Covered
<1> QED
  BY <1>4, <1>8, <1>9, <1>10, <1>11, <1>12, <1>13, <1>14, <1>15

\* Nothing happens.
LEMMA StutterKeeps == ASSUME Inv, UNCHANGED vars PROVE Inv'
<1> USE DEF vars, Inv, Loaded, Files
<1>1. TypeOK' /\ Placed' /\ Stocked' /\ Building'
  BY DEF TypeOK, Placed, Stocked, Building, Src
<1>2. Untouched' /\ Rising' /\ Owned' /\ Filed'
  BY DEF Untouched, Ahead, Rising, Owned, Filed, Number
<1>3. VerdictHasTrace' /\ EndedIsNotRepeated' /\ Covered'
  BY DEF VerdictHasTrace, EndedIsNotRepeated, Covered, NewRows, Number
<1> QED
  BY <1>1, <1>2, <1>3

\* Every step keeps the invariant.
LEMMA NextKeeps == Inv /\ [Next]_vars => Inv'
<1> SUFFICES ASSUME Inv, [Next]_vars PROVE Inv'
  OBVIOUS
<1>1. ASSUME NEW c \in 1..MaxConc, NEW r \in BOOLEAN, Start(c, r) PROVE Inv'
  BY <1>1, StartKeeps
<1>2. CASE Loop
  BY <1>2, SkipKeeps, TakeKeeps, LaunchKeeps, MissingKeeps, GatherKeeps, CleanKeeps,
     LoopHangsKeeps, ReportKeeps
  DEF Loop
<1>3. ASSUME NEW x \in Workers, Attempt(x) PROVE Inv'
  BY <1>3, FullKeeps, MakeDirKeeps, ImageKeeps, BoxKeeps, WriteKeeps DEF Attempt
<1> QED
  BY <1>1, <1>2, <1>3, PrefetchKeeps, CrashKeeps, StutterKeeps DEF Next

\* The invariant.
LEMMA Invariance == Spec => []Inv
  BY InitCollector, NextKeeps, PTL DEF Spec

-----------------------------------------------------------------------------
(* The theorems.                                                            *)

\* Every variable keeps to its domain.
THEOREM Types == Spec => []TypeOK
  BY Invariance, PTL DEF Inv, Loaded

\* A readable terminal manifest stands over a whole trace, wherever a crash or
\* a full disk stopped the attempt (run_attempt, load_completed_ids).
THEOREM Verdict == Spec => []VerdictHasTrace
  BY Invariance, PTL DEF Inv, Files

\* What ended in an earlier invocation is not attempted again without
\* --rerun-completed (load_completed_ids, _run_scaffold_tasks).
THEOREM NotRepeated == Spec => []EndedIsNotRepeated
  BY Invariance, PTL DEF Inv, Files

\* The attempts of a task never build an image that is there, nor two of them
\* the same one (ensure_fixed_image).
THEOREM OneBuild == Spec => []NoDoubleBuild
<1>1. Inv => NoDoubleBuild
  BY DEF Inv, Loaded, Building, NoDoubleBuild
<1> QED
  BY Invariance, <1>1, PTL

\* A container is started from an image that is there (ensure_fixed_image,
\* _cleanup_task_images, drop_cached_fixed_image).
THEOREM AtHand == Spec => []ImageAtHand
<1>1. Inv => ImageAtHand
  <2> SUFFICES ASSUME Inv, NEW x \in Workers, at[x] = "box"
               PROVE  <<Src, img[x]>> \in local
    BY DEF ImageAtHand
  <2>1. phase = "gather"
    BY DEF Inv, Loaded, Placed, Working
  <2> QED
    BY <2>1 DEF Inv, Loaded, Stocked, Fixed, Source
<1> QED
  BY Invariance, <1>1, PTL

\* A directory that is there is never used for a new attempt
\* (next_attempt_number).
THEOREM Fresh == Spec => FreshDirectory
<1>1. Inv => \A x \in Workers : at[x] = "preflight" => Number(x) \notin dirs[cur]
  <2> SUFFICES ASSUME Inv, NEW x \in Workers, at[x] = "preflight", Number(x) \in dirs[cur]
               PROVE  FALSE
    OBVIOUS
  <2>1. phase = "gather" /\ x <= conc
    BY DEF Inv, Loaded, Placed
  <2>2. /\ Number(x) \in Attempts /\ Number(x) >= base /\ base \in Attempts
        /\ \A y \in Workers : Number(x) = Number(y) => x = y
    BY <2>1, Numbers DEF Inv, Loaded
  <2> QED
    BY <2>1, <2>2 DEF Inv, Files, Rising, Attempts
<1>2. Inv /\ [Next]_vars =>
        [\A x \in Workers : at[x] = "preflight" /\ at'[x] \in {"box", "lock"}
           => Number(x) \notin dirs[cur]]_vars
  BY <1>1
<1> QED
  BY Invariance, <1>2, PTL DEF Spec, FreshDirectory

\* results.jsonl has a row for every attempt of the invocation that wrote it
\* (_run_scaffold_tasks, write_results_jsonl).
THEOREM Reported == Spec => EveryAttemptReported
<1>1. ASSUME Inv, [Next]_vars, report' # report PROVE born \subseteq report'
  <2>1. Report
    <3>1. ASSUME NEW x \in Workers, Attempt(x) PROVE FALSE
      BY <1>1, <3>1, AttemptFrame DEF Framed
    <3> QED
      BY <1>1, <3>1
      DEF Next, Loop, Start, Skip, Take, SourcePrefetched, SourceEnsured, Launch, SourceMissing,
          SourceHangs, CleanHangs, LoopHangs, Gather, Clean, PrefetchEnds, PrefetchHangs, Crash,
          vars, diskVars
  <2>2. phase = "pick" /\ report' = rows
    BY <2>1 DEF Report
  <2> QED
    BY <1>1, <2>2 DEF Inv, Loaded, Files, Covered, TypeOK
<1>2. Inv /\ [Next]_vars => [report' # report => born \subseteq report']_vars
  BY <1>1
<1> QED
  BY Invariance, <1>2, PTL DEF Spec, EveryAttemptReported

\* A readable verdict is never changed.
LEMMA VerdictStays ==
  ASSUME Inv, [Next]_vars, NEW t \in Tasks, NEW a \in Attempts, manifest[t][a] \in Verdicts
  PROVE  manifest'[t][a] = manifest[t][a]
<1>1. ASSUME NEW x \in Workers, Attempt(x), manifest'[t][a] # manifest[t][a] PROVE FALSE
  <2>1. WriteManifest(x) \/ ManifestFails(x)
    BY <1>1
    DEF Attempt, DiskTooFull, CacheHit, CacheMiss, CheckLocked, StartBuild, ProbeFails,
        BuildEnds, BuildFails, BoxFails, StartBox, AgentEnds, StopTimesOut, AgentFails,
        WriteTrace, TraceFails, NoTrace, MakeDir, ImageFrame, LookHangs, AgentHangs, AgentFrame
  <2>2. at[x] = "manifest"
    BY <2>1 DEF WriteManifest, ManifestFails, At, Fails, Moves
  <2>3. manifest[cur][Number(x)] = "none"
    BY <2>2 DEF Inv, Files, Owned, Working
  <2>4. t = cur /\ a = Number(x)
    BY <1>1, <2>1
    DEF WriteManifest, SetManifest, ManifestFails, Torn, Inv, Loaded, TypeOK
  <2> QED
    BY <2>3, <2>4 DEF Verdicts
<1>2. ASSUME NEW writing \in SUBSET Workers, Crash(writing), manifest'[t][a] # manifest[t][a]
      PROVE  FALSE
  <2>1. PICK x \in writing : at[x] = "manifest" /\ t = cur /\ a = Number(x)
    BY <1>2 DEF Crash, Torn, Inv, Loaded, TypeOK
  <2>2. manifest[cur][Number(x)] = "none"
    BY <2>1 DEF Inv, Files, Owned, Working
  <2> QED
    BY <2>1, <2>2 DEF Verdicts
<1>3. ASSUME manifest' = manifest PROVE manifest'[t][a] = manifest[t][a]
  BY <1>3
<1> QED
  BY <1>1, <1>2, <1>3
  DEF Next, Loop, Start, Skip, Take, SourcePrefetched, SourceEnsured, Launch, SourceMissing,
      SourceHangs, CleanHangs, LoopHangs, Gather, Clean, Report, PrefetchEnds, PrefetchHangs,
      vars, diskVars

\* The manifests of a run directory are an append-only ledger of verdicts
\* (write_run_manifest, next_attempt_number).
THEOREM Ledgers == Spec => LedgerSpec
<1> DEFINE v == [t \in Tasks |-> [a \in Attempts |->
                  IF manifest[t][a] \in Verdicts THEN manifest[t][a] ELSE "none"]]
<1>1. Init => Ledger!Init
  BY DEF Init, Ledger!Init, Verdicts
<1>2. Inv /\ [Next]_vars => [Ledger!Enter]_v
  <2> SUFFICES ASSUME Inv, [Next]_vars PROVE Ledger!Enter
    OBVIOUS
  <2>1. v' \in [Tasks -> [Attempts -> Verdicts \cup {"none"}]]
    OBVIOUS
  <2>2. \A t \in Tasks, a \in Attempts : v[t][a] # "none" => v'[t][a] = v[t][a]
    BY VerdictStays DEF Verdicts
  <2> QED
    BY <2>1, <2>2 DEF Ledger!Enter, Ledger!Verdicts, Verdicts
<1> QED
  BY <1>1, <1>2, Invariance, PTL DEF Spec, LedgerSpec, Ledger!Spec

-----------------------------------------------------------------------------
(* The budget of images.                                                    *)

\* What cleanup has to account for, per phase; the prefetch is for the task
\* that comes next; a lone attempt knows of the fixed image there is.
Budget ==
  /\ phase = "down" => local \subseteq excused
  /\ phase = "pick" => local \ excused \subseteq {Source(ImageFrom(cur))}
  /\ phase = "ready" => local \ excused \subseteq {Source(Src)}
  /\ phase \in {"gather", "clean", "stuck"} =>
       local \ excused \subseteq {Source(Src), Fixed(Src), Source(NextImage)}
  /\ phase = "down" => pre.st = "none"
  /\ pre.st = "running" =>
       pre.image = CASE phase = "pick" -> ImageFrom(cur)
                     [] phase = "ready" -> Src
                     [] OTHER -> NextImage
Known ==
  /\ \A x \in Workers : at[x] \in {"off", "preflight", "lock", "build"} => img[x] = "none"
  /\ phase \in {"gather", "clean"} /\ conc = 1 /\ Fixed(Src) \in local \ excused =>
       img[1] = "fixed"
BInv == Inv /\ Budget /\ Known

\* The next pending task, found from a task that is not pending.
LEMMA PassedOver ==
  ASSUME cur \in Tasks, ~Pending(cur) PROVE ImageFrom(cur) = ImageFrom(cur + 1)
<1> DEFINE L(i) == {t \in Tasks : t >= i /\ Pending(t)}
           of(S) == IF S = {} THEN NoImage ELSE image[CHOOSE t \in S : \A u \in S : t <= u]
<1>1. L(cur) = L(cur + 1)
  BY CollectorAssumption DEF Tasks
<1>2. \A i : ImageFrom(i) = of(L(i))
  BY Zenon DEF ImageFrom
<1>3. \A S, T : S = T => of(S) = of(T)
  OBVIOUS
<1> HIDE DEF L, of
<1> QED
  BY <1>1, <1>2, <1>3, Zenon

\* The next pending task, found from one that is.
LEMMA Found ==
  ASSUME cur \in Tasks, Pending(cur) PROVE ImageFrom(cur) = Src
<1> DEFINE later == {t \in Tasks : t >= cur /\ Pending(t)}
           first == CHOOSE t \in later : \A u \in later : t <= u
<1>1. cur \in later /\ \A u \in later : cur <= u
  BY CollectorAssumption DEF Tasks
<1>2. first \in later /\ \A u \in later : first <= u
  BY <1>1
<1>3. first = cur
  BY <1>1, <1>2, CollectorAssumption DEF Tasks
<1> QED
  BY <1>1, <1>3 DEF ImageFrom, Src

\* No image is that of no task.
LEMMA NoMoreTasks ==
  ASSUME cur = NTasks + 1 PROVE Source(ImageFrom(cur)) \notin Refs
<1>1. {t \in Tasks : t >= cur /\ Pending(t)} = {}
  BY CollectorAssumption DEF Tasks
<1> QED
  BY <1>1, ImagesAreNamed DEF ImageFrom, Source, Refs

\* The initial states.
LEMMA InitBudget == Init => BInv
<1> SUFFICES ASSUME Init PROVE BInv
  OBVIOUS
<1> QED
  BY InitCollector DEF BInv, Budget, Known, Init, NoPull, Workers

\* The loop keeps the budget.
LEMMA LoopBudget ==
  ASSUME BInv, Loop \/ (\E c \in 1..MaxConc, r \in BOOLEAN : Start(c, r)) PROVE (Budget /\ Known)'
<1> USE DEF BInv
<1>1. CASE \E c \in 1..MaxConc, r \in BOOLEAN : Start(c, r)
  <2>1. /\ phase = "down" /\ phase' = "pick"
        /\ UNCHANGED <<local, pre, at, img, excused>>
    BY <1>1 DEF Start, imageVars, workVars
  <2> QED
    BY <2>1 DEF Budget, Known
<1>2. CASE Skip
  <2>1. /\ phase = "pick" /\ cur' = cur + 1 /\ ImageFrom(cur) = ImageFrom(cur + 1)
        /\ UNCHANGED <<image, phase, done, rerun, local, pre, at, img, excused>>
    BY <1>2, PassedOver DEF Skip, imageVars, workVars
  <2>2. ImageFrom(cur)' = ImageFrom(cur)
    BY <2>1 DEF ImageFrom, Pending
  <2> QED
    BY <2>1, <2>2 DEF Budget, Known
<1>3. CASE \E n \in Attempts : Take(n)
  <2>1. /\ phase = "pick" /\ phase' = "ready" /\ ImageFrom(cur) = Src
        /\ UNCHANGED <<image, cur, local, pre, at, img, excused>>
    BY <1>3, Found DEF Take, imageVars, workVars
  <2>2. Src' = Src
    BY <2>1 DEF Src
  <2> QED
    BY <2>1, <2>2 DEF Budget, Known
<1>4. CASE SourcePrefetched \/ SourceEnsured
  <2>1. /\ phase = "ready" /\ phase' = "gather"
        /\ local' \in {local, local \cup {Source(Src)}}
        /\ pre' = (IF NextImage \in Images \ {image[cur]}
                   THEN [image |-> NextImage, st |-> "running"] ELSE NoPull)
        /\ at' = [x \in Workers |-> IF x <= conc THEN "preflight" ELSE "off"]
        /\ UNCHANGED <<image, cur, done, rerun, conc, img, excused>>
    BY <1>4 DEF SourcePrefetched, SourceEnsured, Launch, Src
  <2>2. Src' = Src /\ NextImage' = NextImage
    BY <2>1 DEF Src, NextImage, ImageFrom, Pending
  <2>3. \A x \in Workers : at[x] = "off"
    BY <2>1 DEF Inv, Loaded, Placed, TypeOK
  <2>4. Budget'
    BY <2>1, <2>2 DEF Budget, NoPull
  <2>5. Fixed(Src) \notin local' \ excused
    BY <2>1 DEF Budget, Fixed, Source
  <2>6. Known'
    BY <2>1, <2>2, <2>3, <2>5 DEF Known
  <2> QED
    BY <2>4, <2>6
<1>5. CASE SourceMissing
  <2>1. /\ phase = "ready" /\ phase' = "clean" /\ (pre.image = Src => pre.st = "failed")
        /\ UNCHANGED <<image, cur, done, rerun, conc, local, pre, at, img, excused>>
    BY <1>5 DEF SourceMissing, Prefetched, Src, imageVars, workVars
  <2>2. Src' = Src
    BY <2>1 DEF Src
  <2>3. Fixed(Src) \notin local \ excused
    BY <2>1 DEF Budget, Fixed, Source
  <2>4. Budget'
    BY <2>1, <2>2 DEF Budget
  <2>5. Known'
    BY <2>1, <2>2, <2>3 DEF Known
  <2> QED
    BY <2>4, <2>5
<1>6. CASE Gather
  <2>1. /\ phase = "gather" /\ phase' = "clean"
        /\ UNCHANGED <<image, cur, done, rerun, conc, local, pre, at, img, excused>>
    BY <1>6 DEF Gather, imageVars, workVars
  <2>2. Src' = Src /\ NextImage' = NextImage
    BY <2>1 DEF Src, NextImage, ImageFrom, Pending
  <2> QED
    BY <2>1, <2>2 DEF Budget, Known
<1>7. CASE \E low, purged \in BOOLEAN, removed \in SUBSET Refs : Clean(low, purged, removed)
  <2>1. PICK low \in BOOLEAN, purged \in BOOLEAN, removed \in SUBSET Refs :
          Clean(low, purged, removed)
    BY <1>7
  <2>2. /\ phase = "clean" /\ phase' = "pick" /\ cur' = cur + 1
        /\ removed \subseteq Removals(low) /\ local' = local \ removed
        /\ excused' = (excused \cup Removals(low)
                        \cup (IF conc > 1 /\ img[1] # "fixed" THEN {Fixed(Src)} ELSE {}))
                      \cap local'
        /\ at' = [x \in Workers |-> "off"] /\ img' = [x \in Workers |-> "none"]
        /\ UNCHANGED <<image, done, rerun, pre>>
    BY <2>1 DEF Clean, Removing, Discard
  <2>3. local' \ excused' \subseteq {Source(NextImage)}
    <3>1. local \ excused \subseteq {Source(Src), Fixed(Src), Source(NextImage)}
      BY <2>2 DEF Budget
    <3>2. ASSUME Source(Src) \in local' \ excused' PROVE Source(Src) = Source(NextImage)
      BY <2>2, <3>2 DEF Removals
    <3>3. Fixed(Src) \notin local' \ excused'
      <4>1. CASE img[1] = "fixed"
        BY <2>2, <4>1 DEF Removals
      <4>2. CASE img[1] # "fixed" /\ conc > 1
        BY <2>2, <4>2
      <4>3. CASE img[1] # "fixed" /\ ~(conc > 1)
        <5>1. conc = 1
          BY <4>3, CollectorAssumption DEF Inv, Loaded, TypeOK, Workers
        <5> QED
          BY <2>2, <4>3, <5>1 DEF Known
      <4> QED
        BY <4>1, <4>2, <4>3
    <3> QED
      BY <2>2, <3>1, <3>2, <3>3
  <2>4. ImageFrom(cur)' = NextImage
    BY <2>2 DEF ImageFrom, NextImage, Pending
  <2>5. Budget'
    BY <2>2, <2>3, <2>4 DEF Budget
  <2>6. Known'
    BY <2>2 DEF Known
  <2> QED
    BY <2>5, <2>6
<1>8. CASE Report
  <2>1. /\ phase = "pick" /\ cur > NTasks /\ phase' = "down" /\ pre' = NoPull
        /\ at' = [x \in Workers |-> "off"] /\ img' = [x \in Workers |-> "none"]
        /\ UNCHANGED <<local, excused>>
    BY <1>8 DEF Report, Forget, Discard
  <2>2. local \subseteq excused
    <3>1. cur = NTasks + 1 /\ local \subseteq Refs
      BY <2>1, CollectorAssumption DEF Inv, Loaded, TypeOK
    <3> QED
      BY <2>1, <3>1, NoMoreTasks DEF Budget
  <2> QED
    BY <2>1, <2>2 DEF Budget, Known, NoPull
<1>9. CASE \/ SourceHangs
           \/ \E low, purged \in BOOLEAN, removed \in SUBSET Refs :
                CleanHangs(low, purged, removed)
  <2>1. /\ \/ phase = "ready" /\ (pre.image = Src => pre.st = "failed")
           \/ phase = "clean"
        /\ phase' = "stuck" /\ local' \subseteq local
        /\ UNCHANGED <<image, cur, done, rerun, conc, pre, at, img, excused>>
    BY <1>9 DEF SourceHangs, CleanHangs, Removing, LoopHangs, Prefetched, Src, workVars
  <2>2. Src' = Src /\ NextImage' = NextImage
    BY <2>1 DEF Src, NextImage, ImageFrom, Pending
  <2>3. Budget'
    BY <2>1, <2>2 DEF Budget
  <2>4. Known'
    BY <2>1 DEF Known
  <2> QED
    BY <2>3, <2>4
<1> QED
  BY <1>1, <1>2, <1>3, <1>4, <1>5, <1>6, <1>7, <1>8, <1>9 DEF Loop

\* The prefetch thread keeps the budget.
LEMMA PrefetchBudget ==
  ASSUME BInv, PrefetchEnds \/ PrefetchHangs PROVE (Budget /\ Known)'
<1> USE DEF BInv
<1>1. /\ pre.st = "running" /\ local' \in {local, local \cup {Source(pre.image)}}
      /\ \E st \in Pulls \ {"running"} : pre' = [pre EXCEPT !.st = st]
      /\ UNCHANGED <<image, phase, cur, conc, done, rerun, at, img, excused>>
  BY DEF PrefetchEnds, PrefetchHangs, Pulls, loopVars, workVars
<1>2. Src' = Src /\ NextImage' = NextImage /\ ImageFrom(cur)' = ImageFrom(cur)
  BY <1>1 DEF Src, NextImage, ImageFrom, Pending
<1>3. pre'.st # "running"
  BY <1>1 DEF Inv, Loaded, TypeOK
<1>4. phase \in {"pick", "ready", "gather", "clean", "stuck"}
  BY <1>1 DEF Budget, Inv, Loaded, TypeOK
<1>5. Budget'
  BY <1>1, <1>2, <1>3, <1>4 DEF Budget
<1>6. Fixed(Src) \in local' \ excused => Fixed(Src) \in local \ excused
  BY <1>1 DEF Fixed, Source
<1>7. Known'
  BY <1>1, <1>2, <1>6 DEF Known
<1> QED
  BY <1>5, <1>7

\* The attempts keep the budget.
LEMMA AttemptBudget ==
  ASSUME BInv, NEW x \in Workers, Attempt(x) PROVE (Budget /\ Known)'
<1>1. Framed(x)
  BY AttemptFrame DEF BInv
<1> USE <1>1 DEF Framed, BInv
<1>2. NextImage' = NextImage
  BY DEF NextImage, ImageFrom, Pending
<1>3. /\ local \subseteq local' /\ local' \subseteq local \cup {Source(Src), Fixed(Src)}
      /\ Fixed(Src) \in local' \ local => img'[x] = "fixed" \/ Fixed(Src) \in excused'
  BY DEF Attempt, DiskTooFull, CacheHit, CacheMiss, CheckLocked, StartBuild, ProbeFails,
         BuildEnds, BuildFails, BuildLeaves, LookHangs, BoxFails, StartBox, AgentEnds,
         StopTimesOut, AgentFails, AgentHangs, WriteTrace, TraceFails, NoTrace,
         WriteManifest, ManifestFails, MakeDir, ImageFrame,
         AgentFrame, WriteFrame, Cached, Fixed, Source, Inv, Loaded, TypeOK
<1>4. \A y \in Workers : y # x => img'[y] = img[y]
  BY DEF Attempt, DiskTooFull, CacheHit, CacheMiss, CheckLocked, StartBuild, ProbeFails,
         BuildEnds, BuildFails, BuildLeaves, LookHangs, BoxFails, StartBox, AgentEnds,
         StopTimesOut, AgentFails, AgentHangs, WriteTrace, TraceFails, NoTrace,
         WriteManifest, ManifestFails, MakeDir, ImageFrame,
         AgentFrame, WriteFrame, Cached, Inv, Loaded, TypeOK
<1>5. at'[x] \in {"lock", "build"} => at[x] \in {"preflight", "lock"} /\ img'[x] = img[x]
  BY DEF Attempt, DiskTooFull, CacheHit, CacheMiss, CheckLocked, StartBuild, ProbeFails,
         BuildEnds, BuildFails, BuildLeaves, LookHangs, BoxFails, StartBox, AgentEnds,
         StopTimesOut, AgentFails, AgentHangs, WriteTrace, TraceFails, NoTrace,
         WriteManifest, ManifestFails, At, Fails, Moves,
         Inv, Loaded, TypeOK
<1>6. img'[x] = img[x] \/ at[x] \in {"preflight", "lock", "build"}
  BY DEF Attempt, DiskTooFull, CacheHit, CacheMiss, CheckLocked, StartBuild, ProbeFails,
         BuildEnds, BuildFails, BuildLeaves, LookHangs, BoxFails, StartBox, AgentEnds,
         StopTimesOut, AgentFails, AgentHangs, WriteTrace, TraceFails, NoTrace,
         WriteManifest, ManifestFails, At, Fails, Moves,
         AgentFrame, WriteFrame
<1>7. Budget'
  BY <1>2, <1>3 DEF Budget
<1>8. \A y \in Workers : at'[y] \in {"off", "preflight", "lock", "build"} => img'[y] = "none"
  BY <1>4, <1>5 DEF Known
<1>9. ASSUME conc = 1, Fixed(Src) \in local' \ excused' PROVE img'[1] = "fixed"
  <2>1. x = 1
    BY <1>9 DEF Workers
  <2>2. CASE Fixed(Src) \in local
    BY <1>6, <1>9, <2>1, <2>2 DEF Known
  <2>3. CASE Fixed(Src) \notin local
    BY <1>3, <1>9, <2>1, <2>3
  <2> QED
    BY <2>2, <2>3
<1> QED
  BY <1>7, <1>8, <1>9 DEF Known

\* Every step keeps the budget.
LEMMA NextBudget == BInv /\ [Next]_vars => BInv'
<1> SUFFICES ASSUME BInv, [Next]_vars PROVE (Budget /\ Known)'
  BY NextKeeps DEF BInv
<1>1. ASSUME NEW writing \in SUBSET Workers, Crash(writing) PROVE (Budget /\ Known)'
  <2>1. /\ phase' = "down" /\ pre' = NoPull /\ excused' = local /\ UNCHANGED local
        /\ at' = [x \in Workers |-> "off"] /\ img' = [x \in Workers |-> "none"]
    BY <1>1 DEF Crash, Forget, Discard
  <2> QED
    BY <2>1 DEF Budget, Known, NoPull
<1>2. CASE UNCHANGED vars
  <2>1. /\ UNCHANGED <<phase, local, excused, pre, image, cur, conc, at, img>>
        /\ Budget /\ Known
    BY <1>2 DEF vars, BInv
  <2>2. ImageFrom(cur)' = ImageFrom(cur) /\ NextImage' = NextImage /\ Src' = Src
    BY <1>2 DEF vars, Src, NextImage, ImageFrom, Pending
  <2>3. Budget'
    BY ONLY <2>1, <2>2 DEF Budget
  <2>4. Known'
    BY ONLY <2>1, <2>2 DEF Known
  <2> QED
    BY <2>3, <2>4
<1> QED
  BY <1>1, <1>2, LoopBudget, PrefetchBudget, AttemptBudget DEF Next

\* The images of the task at hand and the source image of the next one are all
\* there is, except for what cleanup could not or did not know to remove
\* (_cleanup_task_images).
THEOREM Stock == Spec => []ImageBudget
<1>1. BInv => ImageBudget
  BY DEF BInv, Inv, Loaded, TypeOK, Budget, ImageBudget
<1> QED
  BY InitBudget, NextBudget, <1>1, PTL DEF Spec
=============================================================================
