----------------------------- MODULE Bootstrap -----------------------------
(***************************************************************************)
(* The Python packages that task containers share: a directory per set of  *)
(* requirements and a user base with pip, in a cache on the host, filled   *)
(* by whichever container needs them first                                 *)
(* (src/src/trace_collect/runtime/task_container.py,                       *)
(* bootstrap_task_container_python).                                       *)
(*                                                                         *)
(* A worker prepares one container.  The installation is a script in the   *)
(* container; it outlives the command that started it when that times out. *)
(***************************************************************************)
EXTENDS Naturals, FiniteSets

CONSTANTS
  Preparers,  \* the workers that prepare containers
  Reqs,       \* sets of requirements
  MaxHitches  \* bound of time-outs, failed scripts and packages that agents
              \* leave behind

ASSUME BootstrapAssumption ==
  "unheld" \notin Preparers /\ "standard" \notin Preparers /\ MaxHitches \in Nat

VARIABLES
  needs,      \* the requirements of a worker's container
  site,       \* disk: a directory and its packages, {} when it is not there
  marker,     \* disk: .bootstrap-ready.json, the packages recorded, or NoMarker
  userbase,   \* disk: what is in .bootstrap-userbase
  flock,      \* who holds .bootstrap.lock, or Unheld
  pc,         \* where a worker is
  known,      \* userbase_site existed when the worker began
  dir,        \* the directory a worker uses
  script,     \* how far its script is
  hitches,
  overtime    \* history: a script has run on after its worker gave up

bootVars == <<needs, site, marker, userbase, flock, pc, known, dir, script, hitches,
              overtime>>

Unheld == "unheld"
NoMarker == [there |-> FALSE, packages |-> {}, userbase |-> {}]
Record(packages, base) == [there |-> TRUE, packages |-> packages, userbase |-> base]
Standard(r) == <<r, "standard">>
Isolated(r, w) == <<r, w>>     \* .rebuild-<pid>-<time>
Dirs == Reqs \X (Preparers \cup {"standard"})
NoDir == <<"no directory">>
Complete == {"some", "rest"}   \* the packages, installed in two steps
Running == {"begin", "pip", "some", "rest", "check"}

BootInit ==
  /\ needs \in [Preparers -> Reqs]
  /\ site = [d \in Dirs |-> {}] /\ marker = [d \in Dirs |-> NoMarker]
  /\ userbase = {} /\ flock = Unheld
  /\ pc = [w \in Preparers |-> "start"] /\ known = [w \in Preparers |-> FALSE]
  /\ dir = [w \in Preparers |-> NoDir] /\ script = [w \in Preparers |-> "none"]
  /\ hitches = 0 /\ overtime = {}

Hitch == hitches < MaxHitches /\ hitches' = hitches + 1
Smooth == UNCHANGED hitches

Goes(w, from, to) == pc[w] = from /\ pc' = [pc EXCEPT ![w] = to]
DiskFrame == UNCHANGED <<site, marker, userbase>>

-----------------------------------------------------------------------------
(* bootstrap_task_container_python.                                        *)

\* _bootstrap_marker_matches and the import check.
Matches(d, base) ==
  /\ marker[d].there
  /\ marker[d].packages = site[d]
  /\ base => marker[d].userbase \in {{}, userbase}
  /\ Complete \subseteq site[d]

\* The user base is looked for once, before everything else; the fast path
\* takes no lock.
Begin(w) ==
  /\ known' = [known EXCEPT ![w] = userbase # {}]
  /\ \/ /\ Goes(w, "start", "ready") /\ Matches(Standard(needs[w]), userbase # {})
        /\ dir' = [dir EXCEPT ![w] = Standard(needs[w])]
     \/ /\ Goes(w, "start", "queue") /\ ~Matches(Standard(needs[w]), userbase # {})
        /\ UNCHANGED dir
  /\ Smooth /\ DiskFrame /\ UNCHANGED <<needs, flock, script, overtime>>

\* With the lock the same again: somebody may have been faster.
HitAfterLock(w) ==
  /\ Goes(w, "queue", "ready") /\ flock = Unheld
  /\ Matches(Standard(needs[w]), known[w])
  /\ dir' = [dir EXCEPT ![w] = Standard(needs[w])]
  /\ Smooth /\ DiskFrame /\ UNCHANGED <<needs, flock, known, script, overtime>>

\* A directory that does not match is left alone and a new one is filled.
\* Mutant: the standard one is repaired.
RepairInPlace(w) == Standard(needs[w])
Target(w) ==
  IF site[Standard(needs[w])] # {} \/ marker[Standard(needs[w])].there
  THEN Isolated(needs[w], w) ELSE Standard(needs[w])

\* Mutant: nobody waits for the lock.
LockNotTaken(w) == TRUE
FlockFree(w) == flock = Unheld

\* The user base goes with a directory that does not match.
StartScript(w) ==
  /\ Goes(w, "queue", "script") /\ FlockFree(w)
  /\ ~Matches(Standard(needs[w]), known[w])
  /\ flock' = w
  /\ dir' = [dir EXCEPT ![w] = Target(w)]
  /\ userbase' = IF Target(w) # Standard(needs[w]) /\ known[w] THEN {} ELSE userbase
  /\ script' = [script EXCEPT ![w] = "begin"]
  /\ Smooth /\ UNCHANGED <<needs, site, marker, known, overtime>>

-----------------------------------------------------------------------------
(* The script, in the container of w.                                      *)

ScriptGoes(w, from, to) ==
  /\ script[w] = from /\ script' = [script EXCEPT ![w] = to]
  /\ Smooth /\ UNCHANGED <<needs, flock, pc, known, dir, overtime>>

\* The directory is made; with a marker there is nothing to do.
ScriptBegins(w) ==
  /\ ScriptGoes(w, "begin", IF marker[dir[w]].there THEN "ok" ELSE "pip")
  /\ site' = [site EXCEPT ![dir[w]] = @ \cup {"made"}]
  /\ UNCHANGED <<marker, userbase>>

\* get-pip.py fills the user base.
GetPip(w) ==
  /\ ScriptGoes(w, "pip", "some")
  /\ userbase' = userbase \cup {"pip"}
  /\ UNCHANGED <<site, marker>>

\* pip install --target, unless somebody has removed pip.
InstallSome(w) ==
  /\ ScriptGoes(w, "some", IF "pip" \in userbase THEN "rest" ELSE "failed")
  /\ site' = [site EXCEPT ![dir[w]] = @ \cup IF "pip" \in userbase THEN {"some"} ELSE {}]
  /\ UNCHANGED <<marker, userbase>>

InstallRest(w) ==
  /\ ScriptGoes(w, "rest", "check")
  /\ site' = [site EXCEPT ![dir[w]] = @ \cup {"rest"}]
  /\ UNCHANGED <<marker, userbase>>

\* Mutant: the marker is not written last.
MarkerEarly(w) == ScriptGoes(w, "rest", "ok")
MarkerLast(w) == ScriptGoes(w, "check", "ok")

WriteMarker(w) ==
  /\ MarkerLast(w)
  /\ marker' = [marker EXCEPT ![dir[w]] = Record(site[dir[w]], userbase)]
  /\ UNCHANGED <<site, userbase>>

\* No network, or the container is removed with its script.
ScriptFails(w) ==
  /\ script[w] \in Running /\ Hitch
  /\ script' = [script EXCEPT ![w] = "failed"]
  /\ DiskFrame /\ UNCHANGED <<needs, flock, pc, known, dir, overtime>>

-----------------------------------------------------------------------------
(* The worker again, and the agent it prepares the container for.          *)

ScriptEnded(w) ==
  /\ pc[w] = "script" /\ script[w] \in {"ok", "failed"}
  /\ pc' = [pc EXCEPT ![w] = IF script[w] = "ok" THEN "ready" ELSE "failed"]
  /\ flock' = Unheld
  /\ Smooth /\ DiskFrame /\ UNCHANGED <<needs, known, dir, script, overtime>>

\* The context manager gives the lock back, also when the command times out.
\* Mutant: it does not.
FlockKept == UNCHANGED flock
FlockReleased == flock' = Unheld

TimesOut(w) ==
  /\ Goes(w, "script", "failed") /\ script[w] \in Running /\ Hitch
  /\ FlockReleased
  /\ overtime' = overtime \cup {w}
  /\ DiskFrame /\ UNCHANGED <<needs, known, dir, script>>

\* An agent installs packages of its own where its containers' successors
\* look for theirs.
Contaminate(w) ==
  /\ pc[w] = "ready" /\ Hitch
  /\ \/ userbase' = userbase \cup {"extra"} /\ UNCHANGED site
     \/ site' = [site EXCEPT ![dir[w]] = @ \cup {"extra"}] /\ UNCHANGED userbase
  /\ UNCHANGED <<needs, marker, flock, pc, known, dir, script, overtime>>

Script(w) ==
  \/ ScriptBegins(w) \/ GetPip(w) \/ InstallSome(w) \/ InstallRest(w) \/ WriteMarker(w)
  \/ ScriptFails(w)
Prepare(w) == HitAfterLock(w) \/ StartScript(w) \/ ScriptEnded(w) \/ TimesOut(w)

BootNext ==
  \E w \in Preparers : Begin(w) \/ Prepare(w) \/ Script(w) \/ Contaminate(w)

BootSpec == BootInit /\ [][BootNext]_bootVars

\* Scripts end, one way or the other, and workers go on.
BootFairness == \A w \in Preparers : WF_bootVars(Prepare(w)) /\ WF_bootVars(Script(w))

-----------------------------------------------------------------------------
(* Properties.                                                             *)

\* Every variable keeps to its domain.
BootTypeOK ==
  /\ site \in [Dirs -> SUBSET (Complete \cup {"made", "extra"})]
  /\ userbase \subseteq {"pip", "extra"}
  /\ flock \in Preparers \cup {Unheld}
  /\ pc \in [Preparers -> {"start", "queue", "script", "ready", "failed"}]
  /\ dir \in [Preparers -> Dirs \cup {NoDir}]
  /\ script \in [Preparers -> Running \cup {"none", "ok", "failed"}]
  /\ flock # Unheld => pc[flock] = "script"

\* The lock keeps the scripts of all workers apart (get-pip.py, the user base),
\* except one that runs on in its container after its worker gave up.
ScriptsApart ==
  \A v, w \in Preparers :
    v # w /\ script[v] \in Running /\ script[w] \in Running => {v, w} \cap overtime # {}

\* What an agent already uses is not installed into any more, although it may
\* have been found contaminated and is being replaced - except one that a
\* script which outlived its worker shared with a later one.
NotUnderAnAgent ==
  \A v, w \in Preparers :
    pc[v] = "ready" /\ script[w] \in Running /\ dir[v] = dir[w] =>
      \E u \in overtime : dir[u] = dir[w]

\* A container is ready with a complete set of packages, wherever an earlier
\* installation was interrupted.
ReadyIsComplete ==
  [][\A w \in Preparers : pc'[w] = "ready" /\ pc[w] # "ready"
       => Complete \subseteq site'[dir'[w]]]_bootVars

\* No worker waits for ever for the lock, or for the script it runs behind it.
BootEnds == \A w \in Preparers : []<>(pc[w] \in {"start", "ready", "failed"})
=============================================================================
