--------------------------- MODULE SessionMemory ---------------------------
(***************************************************************************)
(* What OpenClaw keeps of its conversations: the session files, which are  *)
(* rewritten in place, the consolidation of their older part into the      *)
(* memory files all sessions share, and what agents write to MEMORY.md     *)
(* themselves, as their prompt tells them to                               *)
(* (src/src/agents/openclaw/session/manager.py, _memory.py and             *)
(* tools/filesystem.py, with their callers in _loop.py).                   *)
(*                                                                         *)
(* Everything between two awaits is one action.  A turn consolidates       *)
(* before it asks the model; after it is saved a background task does so   *)
(* again, while the next turn of the session may already be under way.     *)
(***************************************************************************)
EXTENDS Naturals, Sequences

CONSTANTS
  Sessions,
  Backs,       \* the background tasks a session may have at a time, from 1 on
  Budget,      \* messages that fill the prompt; the target is half of them
  MaxRounds,   \* _MAX_CONSOLIDATION_ROUNDS
  MaxFailures, \* _MAX_FAILURES_BEFORE_RAW_ARCHIVE
  Notes,       \* bound of the facts that agents write to MEMORY.md themselves
  MaxTurns,    \* bound of the turns
  MaxTrouble   \* bound of kills and failed saves

Messages == 1..(2 * MaxTurns)
Facts == Messages \cup Notes

ASSUME MemoryAssumption ==
  /\ Backs \subseteq Nat \ {0}
  /\ Budget \in Nat /\ MaxRounds \in Nat /\ MaxFailures \in Nat \ {0}
  /\ MaxTurns \in Nat /\ MaxTrouble \in Nat
  /\ Notes \subseteq Nat /\ Notes \cap Messages = {}

Turn == 0
Tasks == Sessions \X (Backs \cup {Turn})
Saved(l, m) == [last |-> l, messages |-> m]

VARIABLES
  messages,  \* Session.messages: role and identity
  last,      \* Session.last_consolidated
  file,      \* disk: the session file, as it would be loaded
  memory,    \* disk: MEMORY.md, the notes and the messages whose facts it has
  archive,   \* disk: HISTORY.md, how often a message has been archived
  failures,  \* MemoryStore._consecutive_failures
  task,      \* what a task is at
  chunk,     \* the consolidation under way: first and end index, round,
             \* current_memory; of a running turn, what its prompt has of
             \* MEMORY.md
  turns,
  trouble,
  partial,   \* history: the last save of a session did not end
  damaged,   \* history: a session was loaded from such a file
  facts,     \* history: the notes, and the messages whose facts were to be in
             \* MEMORY.md
  behind,    \* history: the tasks that were shown a MEMORY.md which another
             \* one has written since
  shaky      \* history: such a task wrote its own, or MEMORY.md was truncated

memVars == <<messages, last, file, memory, archive, failures, task, chunk, turns,
             trouble, partial, damaged, facts, behind, shaky>>

Nothing == [first |-> 0, end |-> 0, round |-> 0, seen |-> {}]

MemInit ==
  /\ messages = [s \in Sessions |-> <<>>] /\ last = [s \in Sessions |-> 0]
  /\ file = [s \in Sessions |-> Saved(0, <<>>)]
  /\ memory = {} /\ archive = [i \in Messages |-> 0] /\ failures = 0
  /\ task = [t \in Tasks |-> "off"] /\ chunk = [t \in Tasks |-> Nothing]
  /\ turns = 0 /\ trouble = 0
  /\ partial = [s \in Sessions |-> FALSE] /\ damaged = [s \in Sessions |-> FALSE]
  /\ facts = {} /\ behind = {} /\ shaky = FALSE

Mishaps(n) == trouble + n <= MaxTrouble /\ trouble' = trouble + n
Trouble == Mishaps(1)
NoTrouble == UNCHANGED trouble

-----------------------------------------------------------------------------
(* The session file.                                                       *)

\* SessionManager.save opens the file for writing, then writes the offset and
\* the messages: what can be loaded of a save that did not end.  A line that is
\* cut, and nothing at all, is no session.
Interrupted(l, m) == {Saved(0, <<>>)} \cup {Saved(l, SubSeq(m, 1, k)) : k \in 0..Len(m)}

Save(s, l, m) ==
  /\ file' = [file EXCEPT ![s] = Saved(l, m)]
  /\ partial' = [partial EXCEPT ![s] = FALSE]
SaveBreaks(s, l, m) ==
  /\ \E f \in Interrupted(l, m) : file' = [file EXCEPT ![s] = f]
  /\ partial' = [partial EXCEPT ![s] = TRUE]

-----------------------------------------------------------------------------
(* MEMORY.md, which is written whole, or in one place, without a lock.      *)

Shown == {u \in Tasks : task[u] \in {"asking", "running"}}
ShownAnew(t) == behind' = behind \ {t}
Rewritten(t) == behind' = (behind \cup Shown) \ {t}
Overwrites(t, fs) == memory' = fs /\ shaky' = (shaky \/ t \in behind)
Truncates == memory' = {} /\ shaky' = TRUE

-----------------------------------------------------------------------------
(* MemoryConsolidator.maybe_consolidate_by_tokens, for a task t of session *)
(* t[1].                                                                   *)

SessionLockFree(s) == \A b \in Backs \cup {Turn} : task[<<s, b>>] # "asking"

\* pick_consolidation_boundary: the first user message behind enough messages,
\* or else the last one.
UserTurns(m, l) == {i \in (l + 1)..(Len(m) - 1) : m[i + 1].role = "user"}
IsBoundary(i, m, l) ==
  LET need == Len(m) - l - Budget \div 2
      enough == {j \in UserTurns(m, l) : j - l >= need} IN
  /\ i \in UserTurns(m, l)
  /\ IF enough # {} THEN i \in enough /\ \A j \in enough : i <= j
     ELSE \A j \in UserTurns(m, l) : j <= i

\* The model is asked for the chunk up to the boundary; current_memory has been
\* read before.
Ask(t, l, round, seen) ==
  \E i \in UserTurns(messages[t[1]], l) :
    /\ IsBoundary(i, messages[t[1]], l)
    /\ task' = [task EXCEPT ![t] = "asking"]
    /\ chunk' = [chunk EXCEPT ![t] =
                   [first |-> l, end |-> i, round |-> round, seen |-> seen]]

\* The turn goes on and its prompt is built, the background task is over.
Leave(t) ==
  LET goesOn == t[2] = Turn IN
  /\ task' = [task EXCEPT ![t] = IF goesOn THEN "running" ELSE "off"]
  /\ chunk' = [chunk EXCEPT ![t] =
                 IF goesOn THEN [Nothing EXCEPT !.seen = memory'] ELSE Nothing]

Continue(t, l, round, seen, limit) ==
  LET m == messages[t[1]] IN
  IF Len(m) >= l + limit /\ round < MaxRounds /\ UserTurns(m, l) # {}
  THEN Ask(t, l, round, seen) ELSE Leave(t)

Consolidate(t) ==
  /\ task[t] = "waiting" /\ SessionLockFree(t[1])
  /\ UNCHANGED <<messages, last, file, memory, archive, failures, turns, partial,
                 damaged, facts, shaky>>
  /\ Continue(t, last[t[1]], 0, memory, Budget)
  /\ ShownAnew(t) /\ NoTrouble

Chunk(t) == {messages[t[1]][i].id : i \in (chunk[t].first + 1)..chunk[t].end}
Archived(t, n) == archive' = [i \in Messages |-> archive[i] + IF i \in Chunk(t) THEN n ELSE 0]

\* The facts of the chunk are written with what the model was shown of MEMORY.md,
\* unless it was shown them.
Writes(t) == ~ Chunk(t) \subseteq chunk[t].seen
MemoryUpdated(t) ==
  /\ facts' = facts \cup Chunk(t)
  /\ IF Writes(t) THEN Overwrites(t, chunk[t].seen \cup Chunk(t))
     ELSE UNCHANGED <<memory, shaky>>

LastFailure == failures + 1 >= MaxFailures

\* MemoryStore.consolidate is done with a chunk.  Its summary goes to HISTORY.md
\* and its facts to MEMORY.md; or no tool call, a malformed one or an error was
\* the third of them in a row, of whatever session, and the messages are archived
\* as they are.  The error may be the disk, full when MEMORY.md is written: then
\* HISTORY.md has the summary, too.
Summarized(t) ==
  /\ Archived(t, 1) /\ MemoryUpdated(t)
  /\ IF Writes(t) THEN Rewritten(t) ELSE ShownAnew(t)
RawArchived(t) ==
  /\ LastFailure
  /\ Archived(t, 1) /\ ShownAnew(t)
  /\ UNCHANGED <<memory, facts, shaky>>
ArchivedTwice(t) ==
  /\ LastFailure /\ Writes(t)
  /\ Archived(t, 2) /\ Truncates /\ Rewritten(t)
  /\ UNCHANGED facts
Done(t, mishaps) ==
  /\ failures' = 0
  /\ \/ mishaps = 0 /\ (Summarized(t) \/ RawArchived(t))
     \/ mishaps = 1 /\ ArchivedTwice(t)

\* Mutant: the offset is taken when the answer is there.
OffsetNow(t) == Len(messages[t[1]])
Offset(t) == chunk[t].end

\* Mutant: the offset is not saved.
OffsetOnlyKept(t) == UNCHANGED <<file, partial>>
OffsetSaved(t) == Save(t[1], Offset(t), messages[t[1]])

\* Mutant: later rounds go on from the memory the first one read.
SeenBefore(t) == chunk[t].seen
SeenNext(t) == memory'

Advance(t) ==
  /\ last' = [last EXCEPT ![t[1]] = Offset(t)]
  /\ UNCHANGED <<messages, turns, damaged>>
NextRound(t) ==
  /\ OffsetSaved(t)
  /\ Continue(t, Offset(t), chunk[t].round + 1, SeenNext(t), Budget \div 2 + 1)

Answered(t, mishaps) ==
  /\ task[t] = "asking" /\ Mishaps(mishaps)
  /\ Done(t, mishaps) /\ Advance(t) /\ NextRound(t)

\* The disk is full when the offset is saved: the exception ends the turn.
OffsetSaveFails(t, mishaps) ==
  /\ task[t] = "asking" /\ Mishaps(mishaps + 1)
  /\ Done(t, mishaps) /\ Advance(t)
  /\ SaveBreaks(t[1], Offset(t), messages[t[1]])
  /\ task' = [task EXCEPT ![t] = "off"] /\ chunk' = [chunk EXCEPT ![t] = Nothing]

\* The first failures in a row leave the chunk to the next consolidation, also
\* when its summary is archived and the disk was full when MEMORY.md was written.
Fails(t) ==
  /\ task[t] = "asking" /\ ~LastFailure
  /\ failures' = failures + 1
  /\ UNCHANGED <<messages, last, file, turns, partial, damaged, facts>>
Unusable(t) ==
  /\ Fails(t) /\ NoTrouble
  /\ UNCHANGED <<memory, archive, shaky>>
  /\ Leave(t) /\ ShownAnew(t)
MemoryWriteFails(t) ==
  /\ Fails(t) /\ Writes(t) /\ Trouble
  /\ Archived(t, 1) /\ Truncates
  /\ Leave(t) /\ Rewritten(t)

-----------------------------------------------------------------------------
(* The turns of a session, one at a time.                                  *)

StartTurn(s) ==
  /\ task[<<s, Turn>>] = "off" /\ turns < MaxTurns
  /\ task' = [task EXCEPT ![<<s, Turn>>] = "waiting"]
  /\ NoTrouble
  /\ UNCHANGED <<messages, last, file, memory, archive, failures, chunk, turns, partial,
                 damaged, facts, behind, shaky>>

\* EditFileTool and WriteFileTool on MEMORY.md: the agent of a turn notes a fact
\* in the file as it is, or writes all of it, as it was shown to it; ReadFileTool
\* shows it again.
AgentAtFile(t) ==
  /\ task[t] = "running" /\ t[2] = Turn
  /\ NoTrouble
  /\ UNCHANGED <<messages, last, file, archive, failures, task, turns, partial, damaged>>

AgentEdits(t, f) ==
  /\ AgentAtFile(t) /\ f \notin facts
  /\ memory' = memory \cup {f} /\ facts' = facts \cup {f}
  /\ chunk' = [chunk EXCEPT ![t].seen = @ \cup {f}]
  /\ behind' = behind \cup (Shown \ {t})
  /\ UNCHANGED shaky

AgentWrites(t, f) ==
  /\ AgentAtFile(t) /\ f \notin facts
  /\ Overwrites(t, chunk[t].seen \cup {f}) /\ facts' = facts \cup {f}
  /\ chunk' = [chunk EXCEPT ![t].seen = @ \cup {f}]
  /\ Rewritten(t)

AgentReads(t) ==
  /\ AgentAtFile(t)
  /\ chunk' = [chunk EXCEPT ![t].seen = memory]
  /\ ShownAnew(t)
  /\ UNCHANGED <<memory, facts, shaky>>

\* _save_turn: what a user said and the reply, or the reply to an announcement.
Added(s, announced) ==
  messages[s] \o IF announced THEN <<[role |-> "assistant", id |-> 2 * turns + 1]>>
                 ELSE <<[role |-> "user", id |-> 2 * turns + 1],
                        [role |-> "assistant", id |-> 2 * turns + 2]>>

\* Announcements follow what the user said.
Ending(s, announced) ==
  task[<<s, Turn>>] = "running" /\ turns < MaxTurns /\ (announced => messages[s] # <<>>)

TurnEnds(s, announced) ==
  /\ Ending(s, announced)
  /\ messages' = [messages EXCEPT ![s] = Added(s, announced)]
  /\ turns' = turns + 1
  /\ chunk' = [chunk EXCEPT ![<<s, Turn>>] = Nothing]
  /\ behind' = behind \ {<<s, Turn>>}
  /\ UNCHANGED <<last, memory, archive, failures, damaged, facts, shaky>>

EndTurn(s, announced, b) ==
  /\ TurnEnds(s, announced)
  /\ Save(s, last[s], Added(s, announced))
  /\ task[<<s, b>>] = "off"
  /\ task' = [task EXCEPT ![<<s, Turn>>] = "off", ![<<s, b>>] = "waiting"]
  /\ NoTrouble

TurnSaveFails(s, announced) ==
  /\ TurnEnds(s, announced) /\ Trouble
  /\ SaveBreaks(s, last[s], Added(s, announced))
  /\ task' = [task EXCEPT ![<<s, Turn>>] = "off"]

-----------------------------------------------------------------------------
(* The process is killed and started again; sessions are loaded from their *)
(* files.                                                                  *)

Restart(broken) ==
  /\ messages' = [s \in Sessions |-> file'[s].messages]
  /\ last' = [s \in Sessions |-> file'[s].last]
  /\ task' = [t \in Tasks |-> "off"] /\ chunk' = [t \in Tasks |-> Nothing]
  /\ behind' = {}
  /\ failures' = 0 /\ Trouble
  /\ partial' = [s \in Sessions |-> FALSE]
  /\ damaged' = [s \in Sessions |-> damaged[s] \/ partial[s] \/ s \in broken]

KillBetween ==
  /\ turns > 0
  /\ UNCHANGED <<file, memory, archive, turns, facts, shaky>>
  /\ Restart({})

KillInTurnSave(s, announced) ==
  /\ Ending(s, announced)
  /\ \E f \in Interrupted(last[s], Added(s, announced)) : file' = [file EXCEPT ![s] = f]
  /\ turns' = turns + 1
  /\ UNCHANGED <<memory, archive, facts, shaky>>
  /\ Restart({s})

\* HISTORY.md has the chunk; MEMORY.md was truncated, or is written; the
\* session file is the old one, or was truncated.
KillInConsolidation(t) ==
  /\ task[t] = "asking"
  /\ Archived(t, 1)
  /\ \/ UNCHANGED <<memory, facts, shaky>>
     \/ Writes(t) /\ Truncates /\ UNCHANGED facts
     \/ MemoryUpdated(t)
  /\ \/ UNCHANGED file /\ Restart({})
     \/ /\ \E f \in Interrupted(Offset(t), messages[t[1]]) : file' = [file EXCEPT ![t[1]] = f]
        /\ Restart({t[1]})
  /\ UNCHANGED turns

-----------------------------------------------------------------------------
MemNext ==
  \/ \E t \in Tasks : \/ Consolidate(t)
                      \/ Unusable(t) \/ MemoryWriteFails(t)
                      \/ KillInConsolidation(t)
                      \/ AgentReads(t)
  \/ \E t \in Tasks, mishaps \in 0..1 : Answered(t, mishaps) \/ OffsetSaveFails(t, mishaps)
  \/ \E t \in Tasks, f \in Notes : AgentEdits(t, f) \/ AgentWrites(t, f)
  \/ \E s \in Sessions : StartTurn(s)
  \/ \E s \in Sessions, announced \in BOOLEAN :
       \/ \E b \in Backs : EndTurn(s, announced, b)
       \/ TurnSaveFails(s, announced) \/ KillInTurnSave(s, announced)
  \/ KillBetween

MemSpec == MemInit /\ [][MemNext]_memVars

-----------------------------------------------------------------------------
(* Properties.                                                             *)

\* Every variable keeps to its domain.
MemTypeOK ==
  /\ \A s \in Sessions : \A i \in 1..Len(messages[s]) :
       messages[s][i] \in [role : {"user", "assistant"}, id : Messages]
  /\ last \in [Sessions -> 0..(2 * MaxTurns)]
  /\ memory \subseteq Facts /\ behind \subseteq Tasks
  /\ failures \in 0..(MaxFailures - 1)
  /\ task \in [Tasks -> {"off", "waiting", "asking", "running"}]
  /\ \A t \in Tasks : chunk[t].round \in 0..MaxRounds /\ chunk[t].seen \subseteq Facts

\* A message the prompt no longer has is in HISTORY.md, summarized or raw,
\* whatever was appended while the model was at work on it - unless its session
\* was loaded from a file whose last save did not end, which may show an offset
\* behind the messages and hide what comes next.  No message is there more than
\* once, and once more for every time the process was killed or a save failed
\* between the archive and the offset.
HiddenIsArchived ==
  /\ \A s \in Sessions : ~damaged[s] =>
       /\ last[s] <= Len(messages[s])
       /\ \A i \in 1..last[s] : archive[messages[s][i].id] > 0
  /\ \A i \in Messages : archive[i] <= 1 + trouble

\* Unless its last save failed, a session is on the disk as it is in memory:
\* a restart loses no turn and repeats no consolidation.
SavedAsKept ==
  \A s \in Sessions : ~partial[s] => file[s] = Saved(last[s], messages[s])

\* MEMORY.md, which all sessions share without a lock, loses a fact - a note of an
\* agent, or those of a consolidated chunk - only when somebody wrote over what
\* another one had written since the file was shown to him, which one consolidation
\* does to the note of an agent that comes while the model is asked; or when it was
\* truncated, by a kill or a full disk.
MemoryKeepsFacts == ~shaky => memory = facts
=============================================================================
