--------------------------- MODULE SharedHistory ---------------------------
(***************************************************************************)
(* The runtime history that the concurrent attempts of a task share: the   *)
(* pip history of a repository, guarded by a lock file, and the Personal   *)
(* KB beside it, which is not                                              *)
(* (src/src/trace_collect/package_runtime_prediction.py and                *)
(* runtime_knowledge.py; python_script_ and pytest_runtime_prediction.py   *)
(* repeat the same protocol on histories of their own).                    *)
(*                                                                         *)
(* A container p is the thread of one attempt and the agent it runs, which *)
(* take turns: seed on the host, one finalize per pip install in the       *)
(* container, merge on the host (collector.py, _run_openclaw_in_task_      *)
(* container).                                                             *)
(***************************************************************************)
EXTENDS Naturals, Sequences, FiniteSets

CONSTANTS
  Containers,
  PidMaps,     \* which containers' agents have the same process id, each in
               \* a namespace of its own
  Limit,       \* HISTORY_LIMIT
  MaxCalls,    \* bound of the pip installs of an agent
  MaxMishaps   \* bound of kills, stalls and failed writes

ASSUME HistoryAssumption ==
  /\ "nobody" \notin Containers
  /\ Limit \in Nat \ {0} /\ MaxCalls \in Nat /\ MaxMishaps \in Nat

Nobody == "nobody"
File(st, durations) == [st |-> st, durations |-> durations]
None == File("none", <<>>)
Truncated == File("empty", <<>>)
Torn == File("torn", <<>>)
Whole(durations) == File("whole", durations)

VARIABLES
  pid,       \* the process id of a container's agent
  lock,      \* the lock file: who created it, or Nobody
  old,       \* it is older than LOCK_STALE_AFTER_S
  hist,      \* history.json: the last durations
  kb,        \* personal_runtime_knowledge.json
  tmp,       \* the temporary files, by the process id in their name
  job,       \* what a container is at
  step,      \* and how far
  call,      \* its pip install at hand
  result,    \* "failed", or a success whose history_updated is "kept" or "lost"
  mem,       \* the history or KB it has read
  fd,        \* what the KB file it has open is called now
  rows,      \* pip_predictions.jsonl: observation, history_updated, scope
  mishaps,
  log,       \* history: the observations written, in order
  kblog,     \* history: those written to the KB
  robbed,    \* history: whose lock file somebody else has unlinked
  stale,     \* history: a lock file was left or held for too long
  kbRaces    \* history: two containers were between load and replace

histVars == <<pid, lock, old, hist, kb, tmp, job, step, call, result, mem, fd, rows,
              mishaps, log, kblog, robbed, stale, kbRaces>>

\* Mutant: the temporary file has the same name for everybody.
NoPid(p) == 0
TmpName(p) == pid[p]

HistInit ==
  /\ pid \in PidMaps
  /\ lock = Nobody /\ old = FALSE /\ hist = <<>> /\ kb = Whole(<<>>)
  /\ tmp = [i \in {0} \cup UNION {{m[p] : p \in Containers} : m \in PidMaps} |-> None]
  /\ job = [p \in Containers |-> "seed"] /\ step = [p \in Containers |-> "new"]
  /\ call = [p \in Containers |-> 0] /\ result = [p \in Containers |-> "failed"]
  /\ mem = [p \in Containers |-> <<>>] /\ fd = [p \in Containers |-> "closed"]
  /\ rows = [p \in Containers |-> <<>>]
  /\ mishaps = 0 /\ log = <<>> /\ kblog = <<>> /\ robbed = {} /\ stale = FALSE
  /\ kbRaces = FALSE

Mishap == mishaps < MaxMishaps /\ mishaps' = mishaps + 1
AllWell == UNCHANGED mishaps

Moves(p, from, to) == step[p] = from /\ step' = [step EXCEPT ![p] = to]

KbFrame == UNCHANGED <<pid, kb, tmp, fd, kblog, kbRaces>>
LockFrame == UNCHANGED <<lock, old, robbed, stale>>
HistFrame == UNCHANGED <<hist, log>>
CallFrame == UNCHANGED <<job, call, result, rows>>

-----------------------------------------------------------------------------
(* _history_lock.                                                          *)

NoLockFile == lock = Nobody
Inside(p) == step[p] \in {"load", "write", "unlock"}

\* os.open with O_CREAT | O_EXCL.
LockTaken(p) ==
  /\ Moves(p, "want", "load") /\ NoLockFile
  /\ lock' = p /\ old' = FALSE
  /\ CallFrame /\ KbFrame /\ HistFrame /\ AllWell /\ UNCHANGED <<mem, robbed, stale>>

\* The lock file that is there is too old: it is going to be unlinked, by its
\* name, which may be another file's by then.  Mutant: its age does not matter.
AnyAge == TRUE
TooOld == old
StaleSeen(p) ==
  /\ Moves(p, "want", "break") /\ lock # Nobody /\ TooOld
  /\ LockFrame /\ CallFrame /\ KbFrame /\ HistFrame /\ AllWell /\ UNCHANGED mem

Unlink(p) ==
  /\ lock' = Nobody /\ old' = FALSE
  /\ robbed' = robbed \cup ({lock} \ {p, Nobody})
  /\ UNCHANGED stale

StaleBroken(p) ==
  /\ Moves(p, "break", "want")
  /\ Unlink(p)
  /\ CallFrame /\ KbFrame /\ HistFrame /\ AllWell /\ UNCHANGED mem

\* TimeoutError: finalize notes it and goes on, seed and merge raise and the
\* attempt fails.
DeadlinePasses(p) == step[p] = "want" /\ lock # Nobody

NotUpdated(p) == result' = [result EXCEPT ![p] = IF @ = "kept" THEN "lost" ELSE @]

LockTimesOut(p) ==
  /\ DeadlinePasses(p)
  /\ step' = [step EXCEPT ![p] = IF job[p] = "finalize" THEN "kbload" ELSE "raised"]
  /\ NotUpdated(p)
  /\ LockFrame /\ KbFrame /\ HistFrame /\ AllWell /\ UNCHANGED <<mem, job, call, rows>>

\* _load_json
Load(p) ==
  /\ Moves(p, "load", IF job[p] = "seed" THEN "unlock" ELSE "write")
  /\ mem' = [mem EXCEPT ![p] = hist]
  /\ LockFrame /\ CallFrame /\ KbFrame /\ HistFrame /\ AllWell

\* _bounded_append.  Mutant: it is not bounded.
Unbounded(s) == s
Bounded(s) == SubSeq(s, IF Len(s) > Limit THEN Len(s) - Limit + 1 ELSE 1, Len(s))
Observed(p) == IF result[p] = "failed" THEN <<>> ELSE <<<<p, call[p]>>>>

\* merge_pip_predictions_into_shared_history takes over the rows that finalize
\* has not put into the shared history itself.  Mutant: the scope is not asked.
AnyScope(row) == row[2]
ToMerge(row) == row[2] /\ row[3] # "shared"
Merged(p) ==
  LET taken == {i \in 1..Len(rows[p]) : ToMerge(rows[p][i])}
      Nth(n) == CHOOSE i \in taken : Cardinality({j \in taken : j <= i}) = n
  IN [n \in 1..Cardinality(taken) |-> rows[p][Nth(n)][1]]

\* update_pip_history and _write_json, by a file of its own and a rename.
Write(p) ==
  /\ Moves(p, "write", "unlock")
  /\ hist' = Bounded(mem[p] \o IF job[p] = "merge" THEN Merged(p) ELSE Observed(p))
  /\ log' = log \o IF job[p] = "merge" THEN <<>> ELSE Observed(p)
  /\ LockFrame /\ CallFrame /\ KbFrame /\ AllWell /\ UNCHANGED mem

\* The disk is full.
WriteFails(p) ==
  /\ Moves(p, "write", "unlock") /\ Mishap
  /\ NotUpdated(p)
  /\ job' = [job EXCEPT ![p] = IF @ = "merge" THEN "failed" ELSE @]
  /\ LockFrame /\ KbFrame /\ HistFrame /\ UNCHANGED <<mem, call, rows>>

\* The holder unlinks the file of that name.
Unlock(p) ==
  /\ Moves(p, "unlock", CASE job[p] = "seed" -> "idle" [] job[p] = "finalize" -> "kbload"
                          [] job[p] = "merge" -> "over" [] OTHER -> "raised")
  /\ Unlink(p)
  /\ CallFrame /\ KbFrame /\ HistFrame /\ AllWell /\ UNCHANGED mem

-----------------------------------------------------------------------------
(* The Personal KB: load, update, write under another name, rename; no     *)
(* lock.                                                                   *)

BetweenLoadAndReplace(q) == step[q] \in {"kbopen", "kbput", "kbreplace"}

KbLoad(p) ==
  /\ Moves(p, "kbload", "kbopen")
  /\ mem' = [mem EXCEPT ![p] = kb.durations]
  /\ kbRaces' = (kbRaces \/ \E q \in Containers \ {p} : BetweenLoadAndReplace(q))
  /\ LockFrame /\ CallFrame /\ HistFrame /\ AllWell /\ UNCHANGED <<pid, kb, tmp, fd, kblog>>

\* Opening truncates the file of the name, whoever else has it open.
KbOpen(p) ==
  /\ Moves(p, "kbopen", "kbput")
  /\ tmp' = [tmp EXCEPT ![TmpName(p)] = Truncated]
  /\ fd' = [fd EXCEPT ![p] = "tmp"]
  /\ LockFrame /\ CallFrame /\ HistFrame /\ AllWell /\ UNCHANGED <<pid, kb, mem, kblog, kbRaces>>

\* What a file holds when p has written to its start: a longer text that was
\* there shows behind it.
Put(p, file) ==
  {Whole(Bounded(mem[p] \o Observed(p)))} \cup IF file = Truncated THEN {} ELSE {Torn}

KbPut(p) ==
  /\ Moves(p, "kbput", "kbreplace")
  /\ \E c \in Put(p, IF fd[p] = "kb" THEN kb ELSE tmp[TmpName(p)]) :
       /\ kb' = IF fd[p] = "kb" THEN c ELSE kb
       /\ tmp' = [tmp EXCEPT ![TmpName(p)] = IF fd[p] = "tmp" THEN c ELSE @]
  /\ fd' = [fd EXCEPT ![p] = "closed"]
  /\ LockFrame /\ CallFrame /\ HistFrame /\ AllWell /\ UNCHANGED <<pid, mem, kblog, kbRaces>>

PutErrorRaised(p) == Moves(p, "kbput", "row")

KbPutFails(p) ==
  /\ PutErrorRaised(p) /\ Mishap
  /\ fd' = [fd EXCEPT ![p] = "closed"]
  /\ LockFrame /\ CallFrame /\ HistFrame /\ UNCHANGED <<pid, kb, tmp, mem, kblog, kbRaces>>

KbReplace(p) ==
  /\ Moves(p, "kbreplace", "row")
  /\ tmp[TmpName(p)] # None
  /\ kb' = tmp[TmpName(p)] /\ tmp' = [tmp EXCEPT ![TmpName(p)] = None]
  /\ fd' = [q \in Containers |-> IF fd[q] = "kb" THEN "gone"
                                ELSE IF fd[q] = "tmp" /\ TmpName(q) = TmpName(p) THEN "kb"
                                ELSE fd[q]]
  /\ kblog' = kblog \o Observed(p)
  /\ LockFrame /\ CallFrame /\ HistFrame /\ AllWell /\ UNCHANGED <<pid, mem, kbRaces>>

\* Somebody of the same pid has renamed the file already.
KbReplaceFails(p) ==
  /\ Moves(p, "kbreplace", "row")
  /\ tmp[TmpName(p)] = None
  /\ LockFrame /\ CallFrame /\ HistFrame /\ KbFrame /\ AllWell /\ UNCHANGED mem

AppendRow(p) ==
  /\ Moves(p, "row", "idle")
  /\ rows' = [rows EXCEPT ![p] = Append(@, <<<<p, call[p]>>, result[p] = "kept", "shared">>)]
  /\ LockFrame /\ HistFrame /\ KbFrame /\ AllWell /\ UNCHANGED <<mem, job, call, result>>

-----------------------------------------------------------------------------
(* The attempt around them.                                                *)

\* The attempt has its container.
Seed(p) ==
  /\ Moves(p, "new", "want")
  /\ LockFrame /\ CallFrame /\ HistFrame /\ KbFrame /\ AllWell /\ UNCHANGED mem

\* The agent runs pip install, which ends.
Install(p, how) ==
  /\ Moves(p, "idle", "want") /\ call[p] < MaxCalls
  /\ job' = [job EXCEPT ![p] = "finalize"] /\ call' = [call EXCEPT ![p] = @ + 1]
  /\ result' = [result EXCEPT ![p] = how]
  /\ LockFrame /\ HistFrame /\ KbFrame /\ AllWell /\ UNCHANGED <<mem, rows>>

\* The agent has ended; there is nothing to merge without a row.
Merge(p) ==
  /\ Moves(p, "idle", IF rows[p] = <<>> THEN "over" ELSE "want")
  /\ job' = [job EXCEPT ![p] = "merge"]
  /\ LockFrame /\ HistFrame /\ KbFrame /\ AllWell /\ UNCHANGED <<mem, call, result, rows>>

\* The agent is killed with its container, wherever it is.
Kill(p) ==
  /\ job[p] = "finalize" /\ step[p] \notin {"idle", "killed"} /\ Mishap
  /\ step' = [step EXCEPT ![p] = "killed"]
  /\ fd' = [fd EXCEPT ![p] = "closed"]
  /\ LockFrame /\ CallFrame /\ HistFrame /\ UNCHANGED <<pid, kb, tmp, mem, kblog, kbRaces>>

\* Ten minutes pass: the holder is dead, or stopped for so long.
LockAges ==
  /\ lock # Nobody /\ ~old
  /\ old' = TRUE /\ stale' = TRUE
  /\ \/ step[lock] = "killed" /\ AllWell
     \/ step[lock] # "killed" /\ Mishap
  /\ CallFrame /\ HistFrame /\ KbFrame /\ UNCHANGED <<step, mem, lock, robbed>>

ContainerStep(p) ==
  \/ Seed(p) \/ LockTaken(p) \/ StaleSeen(p) \/ StaleBroken(p) \/ LockTimesOut(p)
  \/ Load(p) \/ Write(p) \/ WriteFails(p) \/ Unlock(p)
  \/ KbLoad(p) \/ KbOpen(p) \/ KbPut(p) \/ KbPutFails(p)
  \/ KbReplace(p) \/ KbReplaceFails(p) \/ AppendRow(p)
  \/ \E how \in {"failed", "kept"} : Install(p, how)
  \/ Merge(p)

HistNext ==
  \/ \E p \in Containers : ContainerStep(p) \/ Kill(p)
  \/ LockAges

HistSpec == HistInit /\ [][HistNext]_histVars

\* A container that is not killed goes on.
HistFairness == \A p \in Containers : WF_histVars(ContainerStep(p))

-----------------------------------------------------------------------------
(* Properties.                                                             *)

\* Every variable keeps to its domain, and the files to their bound.
HistTypeOK ==
  /\ lock \in Containers \cup {Nobody} /\ old \in BOOLEAN
  /\ Len(hist) <= Limit /\ Len(kb.durations) <= Limit
  /\ job \in [Containers -> {"seed", "finalize", "merge", "failed"}]
  /\ step \in [Containers -> {"new", "want", "break", "load", "write", "unlock", "kbload",
                              "kbopen", "kbput", "kbreplace", "row", "idle", "over",
                              "raised", "killed"}]
  /\ call \in [Containers -> 0..MaxCalls]
  /\ result \in [Containers -> {"failed", "kept", "lost"}]
  /\ fd \in [Containers -> {"closed", "tmp", "kb", "gone"}]
  /\ robbed \subseteq Containers

\* Two containers rewrite the history at the same time only after the lock of
\* one of them was taken for stale while it held it; and nobody unlinks a lock
\* that is not his, unless a lock was left behind or held for more than
\* LOCK_STALE_AFTER_S.
LockKept ==
  /\ \A p, q \in Containers : p # q /\ Inside(p) /\ Inside(q) => {p, q} \cap robbed # {}
  /\ robbed # {} => stale

\* Until that happens the shared history holds the last HISTORY_LIMIT installs
\* of all the containers, each of them once, although every row is looked at
\* again by the merge.
HistoryExact == robbed = {} => hist = Bounded(log)

\* A row says history_updated only of an install that was written, timeouts of
\* the lock and failed writes included.
UpdatedWasWritten ==
  \A p \in Containers : \A i \in 1..Len(rows[p]) :
    rows[p][i][2] => \E j \in 1..Len(log) : log[j] = rows[p][i][1]

\* The Personal KB loses an install only when two containers updated it at the
\* same time, and it is a whole file even then, unless they gave their temporary
\* file the same name.
KbKept ==
  /\ ~kbRaces => kb = Whole(Bounded(kblog))
  /\ kb.st # "whole" => \E p, q \in Containers : p # q /\ pid[p] = pid[q]

\* Nobody waits for the lock for ever, also when its holder was killed: again and
\* again a container is somewhere else.
LockWaitEnds == \A p \in Containers : []<>(step[p] # "want")
=============================================================================
