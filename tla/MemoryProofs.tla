---------------------------- MODULE MemoryProofs ----------------------------
(***************************************************************************)
(* Proofs about the session files and the memory that is made of them.     *)
(* Nothing leaves a prompt before it is in HISTORY.md, and nothing is      *)
(* there twice but for a kill or a failed save in between; a session is on *)
(* the disk as it is in memory; MEMORY.md loses facts only when somebody   *)
(* writes over what he was not shown.  For any sessions, background tasks, *)
(* notes and bounds.                                                       *)
(*                                                                         *)
(* The properties are inductive together with where messages are: their    *)
(* identities rise within a session and belong to one session, in memory   *)
(* and in its file, so a chunk that is archived is in no other prompt.     *)
(***************************************************************************)
EXTENDS SessionMemory, TLAPS, SequenceTheorems

Row == [role : {"user", "assistant"}, id : Messages]
MemFiles == [last : Nat, messages : Seq(Row)]
Chunks == [first : Nat, end : Nat, round : 0..MaxRounds, seen : SUBSET Facts]

\* Every variable keeps to its domain.
MemTypes ==
  /\ messages \in [Sessions -> Seq(Row)] /\ last \in [Sessions -> Nat]
  /\ file \in [Sessions -> MemFiles]
  /\ memory \subseteq Facts /\ facts \subseteq Facts /\ behind \subseteq Tasks
  /\ archive \in [Messages -> Nat]
  /\ failures \in 0..(MaxFailures - 1)
  /\ task \in [Tasks -> {"off", "waiting", "asking", "running"}]
  /\ chunk \in [Tasks -> Chunks]
  /\ turns \in 0..MaxTurns /\ trouble \in Nat
  /\ partial \in [Sessions -> BOOLEAN] /\ damaged \in [Sessions -> BOOLEAN]
  /\ shaky \in BOOLEAN

\* Identities rise along the messages of a session.
Rising(m) == \A i, j \in 1..Len(m) : i < j => m[i].id < m[j].id

\* The identities a session has in memory or in its file.
Has(s, i) ==
  \/ \E p \in 1..Len(messages[s]) : messages[s][p].id = i
  \/ \E p \in 1..Len(file[s].messages) : file[s].messages[p].id = i

\* Messages of a session are its own, from the turns so far.
IdInv ==
  /\ \A s \in Sessions :
       /\ Rising(messages[s]) /\ Rising(file[s].messages)
       /\ Len(messages[s]) <= 2 * turns /\ Len(file[s].messages) <= 2 * turns
       /\ \A i : Has(s, i) => i <= 2 * turns
  /\ \A s, u \in Sessions : s # u => \A i : ~Has(s, i) \/ ~Has(u, i)

\* A session is consolidated by one task at a time, from its offset on, up to a
\* message it has.
AskInv ==
  \A t \in Tasks : task[t] = "asking" =>
    /\ chunk[t].first = last[t[1]]
    /\ chunk[t].first < chunk[t].end /\ chunk[t].end < Len(messages[t[1]])
    /\ \A u \in Tasks : task[u] = "asking" /\ u[1] = t[1] => u = t

\* The offsets are about messages there have been.
OffsetInv == \A s \in Sessions : last[s] <= 2 * turns /\ file[s].last <= 2 * turns

\* What the prompt no longer has is archived.
HiddenInv ==
  \A s \in Sessions : ~damaged[s] =>
    /\ last[s] <= Len(messages[s])
    /\ \A i \in 1..last[s] : archive[messages[s][i].id] > 0

\* What it has is archived at most once for every trouble, and what is to come
\* not at all.
CountInv ==
  /\ \A i \in Messages : archive[i] <= 1 + trouble
  /\ \A s \in Sessions : \A p \in 1..Len(messages[s]) :
       p > last[s] => archive[messages[s][p].id] <= trouble
  /\ \A i \in Messages : i > 2 * turns => archive[i] = 0

\* Nobody has been shown what was not noted.  Who is not behind has been shown what
\* there is, as long as nobody behind has written.
SeenInv ==
  /\ memory \subseteq facts
  /\ \A u \in Tasks : chunk[u].seen \subseteq facts
  /\ ~shaky => memory = facts /\ \A u \in Shown \ behind : chunk[u].seen = memory

MemInv ==
  /\ MemTypes /\ IdInv /\ AskInv /\ OffsetInv
  /\ HiddenInv /\ CountInv /\ SavedAsKept /\ SeenInv

-----------------------------------------------------------------------------
(* Parts of the actions.                                                   *)

\* Identities are numbers.
LEMMA RowIds == ASSUME NEW r \in Row PROVE r.id \in Messages /\ r.id \in Nat
<1>1. r.id \in Messages
  BY DEF Row
<1>2. Messages \subseteq Nat
  BY MemoryAssumption DEF Messages
<1> QED
  BY <1>1, <1>2

\* Twice as many turns.
LEMMA Doubled ==
  ASSUME NEW a \in Nat, NEW b \in Nat, a <= b
  PROVE  2 * a <= 2 * b /\ 2 * a \in Nat /\ 2 * b \in Nat
OBVIOUS

\* m is the start of n.
Starts(m, n) == Len(m) <= Len(n) /\ \A i \in 1..Len(m) : m[i] = n[i]

\* What a turn adds.
LEMMA AddedShape ==
  ASSUME MemTypes, IdInv, turns < MaxTurns, NEW s \in Sessions, NEW announced \in BOOLEAN,
         NEW m, m = Added(s, announced)
  PROVE  /\ m \in Seq(Row) /\ Len(m) <= Len(messages[s]) + 2 /\ Starts(messages[s], m)
         /\ Rising(m)
         /\ \A i \in 1..Len(m) : i > Len(messages[s]) => m[i].id \in {2 * turns + 1, 2 * turns + 2}
<1> DEFINE old == messages[s]
           said == [role |-> "user", id |-> 2 * turns + 1]
           alone == [role |-> "assistant", id |-> 2 * turns + 1]
           reply == [role |-> "assistant", id |-> 2 * turns + 2]
<1>1. /\ 2 * turns + 1 \in Messages /\ 2 * turns + 2 \in Messages
      /\ turns \in Nat /\ old \in Seq(Row)
  BY MemoryAssumption DEF MemTypes, Messages
<1>2. said \in Row /\ alone \in Row /\ reply \in Row
  BY <1>1 DEF Row
<1>3. /\ said.id = 2 * turns + 1 /\ alone.id = 2 * turns + 1 /\ reply.id = 2 * turns + 2
  OBVIOUS
<1>4. m = old \o <<alone>> \/ m = old \o <<said, reply>>
  BY DEF Added
<1> HIDE DEF said, alone, reply
<1>5. \A i \in 1..Len(old) : old[i].id <= 2 * turns /\ old[i].id \in Nat
  <2> TAKE i \in 1..Len(old)
  <2>1. Has(s, old[i].id) /\ old[i] \in Row
    BY <1>1 DEF Has
  <2>2. old[i].id \in Nat
    BY <2>1, MemoryAssumption DEF Row, Messages
  <2> QED
    BY <2>1, <2>2 DEF IdInv
<1>6. Rising(old)
  BY DEF IdInv
<1> SUFFICES /\ m \in Seq(Row) /\ Len(m) <= Len(old) + 2 /\ Starts(old, m)
             /\ Rising(m)
             /\ \A i \in 1..Len(m) : i > Len(old) => m[i].id \in {2 * turns + 1, 2 * turns + 2}
  OBVIOUS
<1> HIDE DEF old
<1>7. CASE m = old \o <<alone>>
  <2>1. /\ m \in Seq(Row) /\ Len(m) = Len(old) + 1
        /\ \A i \in 1..Len(old) : m[i] = old[i]
        /\ m[Len(old) + 1] = alone
    BY <1>1, <1>2, <1>7
  <2>2. \A i \in 1..Len(m) : i > Len(old) => m[i] = alone
    BY <1>1, <2>1
  <2>3. Rising(m)
    <3>1. ASSUME NEW i \in 1..Len(m), NEW j \in 1..Len(m), i < j PROVE m[i].id < m[j].id
      <4>1. i \in 1..Len(old) /\ m[i] = old[i]
        BY <1>1, <2>1, <3>1
      <4>2. CASE j <= Len(old)
        <5>1. j \in 1..Len(old) /\ m[j] = old[j]
          BY <1>1, <2>1, <4>2
        <5> QED
          BY <1>6, <3>1, <4>1, <5>1 DEF Rising
      <4>3. CASE j > Len(old)
        <5> DEFINE a == m[i].id
                   b == m[j].id
        <5>1. a <= 2 * turns /\ a \in Nat /\ b = 2 * turns + 1
          BY <1>3, <1>5, <2>2, <4>1, <4>3
        <5> HIDE DEF a, b
        <5>2. a < b
          BY <1>1, <5>1
        <5> QED
          BY <5>2 DEF a, b
      <4> QED
        BY <1>1, <4>2, <4>3
    <3> QED
      BY <3>1 DEF Rising
  <2> QED
    BY <1>1, <1>3, <2>1, <2>2, <2>3 DEF Starts
<1>8. CASE m = old \o <<said, reply>>
  <2>1. /\ m \in Seq(Row) /\ Len(m) = Len(old) + 2
        /\ \A i \in 1..Len(old) : m[i] = old[i]
        /\ m[Len(old) + 1] = said /\ m[Len(old) + 2] = reply
    BY <1>1, <1>2, <1>8
  <2>2. \A i \in 1..Len(m) : i > Len(old) =>
          (i = Len(old) + 1 /\ m[i] = said) \/ (i = Len(old) + 2 /\ m[i] = reply)
    BY <1>1, <2>1
  <2>3. ASSUME NEW i \in 1..Len(m), NEW j \in 1..Len(m), i < j PROVE m[i].id < m[j].id
    <3>1. CASE j <= Len(old)
      <4>1. i \in 1..Len(old) /\ j \in 1..Len(old) /\ m[i] = old[i] /\ m[j] = old[j]
        BY <1>1, <2>1, <2>3, <3>1
      <4> QED
        BY <1>6, <2>3, <4>1 DEF Rising
    <3>2. CASE j > Len(old) /\ i <= Len(old)
      <4>1. i \in 1..Len(old) /\ m[i] = old[i]
        BY <1>1, <2>1, <3>2
      <4> DEFINE a == m[i].id
                 b == m[j].id
      <4>2. a <= 2 * turns /\ a \in Nat
        BY <1>5, <4>1
      <4>3. b = 2 * turns + 1 \/ b = 2 * turns + 2
        BY <1>3, <2>2, <3>2
      <4> HIDE DEF a, b
      <4>4. a < b
        BY <1>1, <4>2, <4>3
      <4> QED
        BY <4>4 DEF a, b
    <3>3. CASE i > Len(old)
      <4>1. i = Len(old) + 1 /\ j = Len(old) + 2
        BY <1>1, <2>2, <2>3, <3>3
      <4>2. m[i] = said /\ m[j] = reply
        BY <2>1, <4>1
      <4> QED
        BY <1>1, <1>3, <4>2
    <3> QED
      BY <1>1, <3>1, <3>2, <3>3
  <2>4. Starts(old, m) /\ Len(m) <= Len(old) + 2
    BY <1>1, <2>1 DEF Starts
  <2> QED
    BY <1>1, <1>3, <2>1, <2>2, <2>3, <2>4 DEF Rising
<1> QED
  BY <1>4, <1>7, <1>8

\* What can be loaded of a save that did not end.
LEMMA InterruptedShape ==
  ASSUME NEW l \in Nat, NEW m \in Seq(Row), NEW f \in Interrupted(l, m)
  PROVE  f \in MemFiles /\ f.last \in {0, l} /\ Starts(f.messages, m)
<1>1. CASE f = Saved(0, <<>>)
  <2>1. f.last = 0 /\ f.messages = <<>> /\ f = [last |-> 0, messages |-> <<>>]
    BY <1>1 DEF Saved
  <2>2. <<>> \in Seq(Row) /\ Len(<<>>) = 0
    OBVIOUS
  <2> QED
    BY <2>1, <2>2 DEF MemFiles, Starts
<1>2. ASSUME NEW k \in 0..Len(m), f = Saved(l, SubSeq(m, 1, k))
      PROVE  f \in MemFiles /\ f.last \in {0, l} /\ Starts(f.messages, m)
  <2> DEFINE n == SubSeq(m, 1, k)
  <2>1. \A i \in 1..k : m[i] \in Row
    OBVIOUS
  <2>2. n \in Seq(Row) /\ Len(n) = k /\ \A i \in 1..k : n[i] = m[i]
    BY <2>1, SubSeqProperties
  <2> HIDE DEF n
  <2>3. f = [last |-> l, messages |-> n]
    BY <1>2 DEF Saved, n
  <2> QED
    BY <2>2, <2>3 DEF MemFiles, Starts
<1> QED
  BY <1>1, <1>2 DEF Interrupted

\* m is a text whose messages session w has or gets by the end of a turn.
Grown(w, m) ==
  /\ m \in Seq(Row) /\ Rising(m) /\ Len(m) <= 2 * turns'
  /\ \A i \in 1..Len(m) :
       m[i].id <= 2 * turns' /\ (Has(w, m[i].id) \/ m[i].id > 2 * turns)

\* Messages in memory and in the files come from those there were, and in one
\* session from the turn that ends.
Kept(w, m) ==
  \A s \in Sessions : \A x \in {messages'[s], file'[s].messages} :
    Starts(x, messages[s]) \/ Starts(x, file[s].messages) \/ (s = w /\ Starts(x, m))

\* Such a step keeps every message in its session.
LEMMA IdStep ==
  ASSUME MemTypes, IdInv, turns' \in Nat, turns <= turns',
         messages' \in [Sessions -> Seq(Row)], file' \in [Sessions -> MemFiles],
         NEW w, NEW m, Grown(w, m), Kept(w, m)
  PROVE  IdInv'
<1> DEFINE Mine(s, i) == /\ i \in Nat /\ i <= 2 * turns'
                         /\ Has(s, i) \/ (s = w /\ i > 2 * turns)
<1>1. turns \in Nat
  BY MemoryAssumption DEF MemTypes
<1>2. ASSUME NEW s \in Sessions, NEW n, NEW x \in Seq(Row), Starts(x, n),
             \/ n = messages[s] \/ n = file[s].messages \/ (s = w /\ n = m)
      PROVE  /\ Rising(x) /\ Len(x) <= 2 * turns'
             /\ \A p \in 1..Len(x) : Mine(s, x[p].id)
  <2>1. n \in Seq(Row) /\ Rising(n) /\ Len(n) <= 2 * turns'
    <3>1. CASE n = m
      BY <3>1 DEF Grown
    <3>2. CASE n = messages[s] \/ n = file[s].messages
      <4>1. n \in Seq(Row) /\ Rising(n) /\ Len(n) <= 2 * turns /\ Len(n) \in Nat
        BY <3>2 DEF IdInv, MemTypes, MemFiles
      <4> QED
        BY <1>1, <4>1
    <3> QED
      BY <1>2, <3>1, <3>2
  <2>2. Rising(x)
    <3> SUFFICES ASSUME NEW i \in 1..Len(x), NEW j \in 1..Len(x), i < j PROVE x[i].id < x[j].id
      BY DEF Rising
    <3>1. Len(x) <= Len(n) /\ \A k \in 1..Len(x) : x[k] = n[k]
      BY <1>2 DEF Starts
    <3>2. Len(n) \in Nat /\ Len(x) \in Nat
      BY <2>1
    <3>3. i \in 1..Len(n) /\ j \in 1..Len(n)
      BY <3>1, <3>2
    <3> QED
      BY <2>1, <3>1, <3>3 DEF Rising
  <2>3. ASSUME NEW p \in 1..Len(x) PROVE Mine(s, x[p].id)
    <3>1. x[p] = n[p] /\ p \in 1..Len(n)
      BY <1>2, <2>1, <2>3 DEF Starts
    <3>2. x[p].id \in Nat
      BY RowIds
    <3>3. CASE n = m /\ s = w
      <4>1. x[p].id <= 2 * turns' /\ (Has(w, x[p].id) \/ x[p].id > 2 * turns)
        BY <3>1, <3>3 DEF Grown
      <4> QED
        BY <3>2, <3>3, <4>1
    <3>4. CASE ~(n = m /\ s = w)
      <4>1. Has(s, x[p].id)
        BY <1>2, <3>1, <3>4 DEF Has
      <4> DEFINE a == x[p].id
               b == 2 * turns
               c == 2 * turns'
      <4>2. a <= b /\ a \in Nat
        BY <3>2, <4>1 DEF IdInv
      <4>3. b <= c /\ b \in Nat /\ c \in Nat
        BY <1>1, Doubled
      <4> HIDE DEF a, b, c
      <4>4. a <= c
        BY <4>2, <4>3
      <4> QED
        BY <3>2, <4>1, <4>4 DEF a, b, c
    <3> QED
      BY <3>3, <3>4
  <2>4. Len(x) <= 2 * turns'
    BY <1>2, <2>1 DEF Starts
  <2> QED
    BY <2>2, <2>3, <2>4
<1>3. ASSUME NEW s \in Sessions, NEW x \in {messages'[s], file'[s].messages}
      PROVE  /\ Rising(x) /\ Len(x) <= 2 * turns'
             /\ \A p \in 1..Len(x) : Mine(s, x[p].id)
  <2>1. x \in Seq(Row)
    BY DEF MemFiles
  <2> QED
    BY <1>2, <2>1 DEF Kept
<1>4. ASSUME NEW s \in Sessions, NEW i, Has(s, i)' PROVE Mine(s, i)
  <2>1. \/ \E p \in 1..Len(messages'[s]) : messages'[s][p].id = i
        \/ \E p \in 1..Len(file'[s].messages) : file'[s].messages[p].id = i
    BY <1>4 DEF Has
  <2> HIDE DEF Mine
  <2> QED
    BY <1>3, <2>1
<1>5. ASSUME NEW s \in Sessions, NEW u \in Sessions, s # u, NEW i, Mine(s, i), Mine(u, i)
      PROVE  FALSE
  BY <1>1, <1>5 DEF IdInv
<1> HIDE DEF Mine
<1>6. \A s \in Sessions : \A i : Has(s, i)' => i <= 2 * turns'
  BY <1>4 DEF Mine
<1>7. \A s, u \in Sessions : s # u => \A i : ~Has(s, i)' \/ ~Has(u, i)'
  BY <1>4, <1>5
<1>8. \A s \in Sessions :
        /\ Rising(messages'[s]) /\ Rising(file'[s].messages)
        /\ Len(messages'[s]) <= 2 * turns' /\ Len(file'[s].messages) <= 2 * turns'
  BY <1>3
<1> QED
  BY <1>6, <1>7, <1>8 DEF IdInv, Rising

\* A sequence starts itself.
LEMMA StartsItself == ASSUME NEW m \in Seq(Row) PROVE Starts(m, m)
BY DEF Starts

\* The empty sequence adds nothing.
LEMMA NothingAdded ==
  /\ <<>> \in Seq(Row) /\ Rising(<<>>) /\ Len(<<>>) = 0
  /\ 1..Len(<<>>) = {}
BY DEF Rising

\* A step without a turn takes what it keeps of a session from memory or file.
LEMMA IdStay ==
  ASSUME MemTypes, IdInv, turns' = turns,
         messages' \in [Sessions -> Seq(Row)], file' \in [Sessions -> MemFiles],
         \A s \in Sessions : \A x \in {messages'[s], file'[s].messages} :
           Starts(x, messages[s]) \/ Starts(x, file[s].messages)
  PROVE  IdInv'
<1> DEFINE e == <<>>
<1>1. e \in Seq(Row) /\ Rising(e) /\ Len(e) = 0 /\ 1..Len(e) = {}
  BY NothingAdded
<1> HIDE DEF e
<1>2. turns \in Nat /\ turns' \in Nat /\ turns <= turns'
  BY MemoryAssumption DEF MemTypes
<1>3. Grown("nobody", e)
  BY <1>1, <1>2 DEF Grown
<1>4. Kept("nobody", e)
  BY DEF Kept
<1> QED
  BY <1>2, <1>3, <1>4, IdStep

\* The messages of a chunk are of its session, from its offset on.
LEMMA ChunkShape ==
  ASSUME MemTypes, IdInv, AskInv, NEW t \in Tasks, task[t] = "asking"
  PROVE  /\ t[1] \in Sessions /\ Chunk(t) \subseteq Messages
         /\ \A i \in Chunk(t) : Has(t[1], i) /\ i <= 2 * turns
         /\ \A p \in 1..Len(messages[t[1]]) :
              messages[t[1]][p].id \in Chunk(t) <=> last[t[1]] < p /\ p <= chunk[t].end
         /\ chunk[t].end \in Nat /\ last[t[1]] < chunk[t].end
         /\ chunk[t].end < Len(messages[t[1]])
<1> DEFINE m == messages[t[1]]
           e == chunk[t].end
           l == last[t[1]]
<1>1. t[1] \in Sessions
  BY DEF Tasks
<1>2. m \in Seq(Row) /\ Len(m) \in Nat /\ e \in Nat /\ l \in Nat /\ l < e /\ e < Len(m)
  BY <1>1 DEF MemTypes, AskInv, Chunks
<1>3. Chunk(t) = {m[i].id : i \in (l + 1)..e}
  BY DEF Chunk, AskInv
<1>4. \A i, j \in 1..Len(m) : i < j => m[i].id < m[j].id
  BY <1>1 DEF IdInv, Rising
<1>5. \A p \in 1..Len(m) : m[p] \in Row /\ m[p].id \in Messages /\ m[p].id \in Nat
  BY <1>2, RowIds
<1>6. \A p \in 1..Len(m) : Has(t[1], m[p].id)
  BY DEF Has
<1> HIDE DEF m, e, l
<1>8. \A p \in (l + 1)..e : p \in 1..Len(m)
  BY <1>2
<1>9. \A i \in Chunk(t) : i \in Messages /\ Has(t[1], i) /\ i <= 2 * turns
  BY <1>1, <1>3, <1>5, <1>6, <1>8 DEF IdInv
<1>10. ASSUME NEW p \in 1..Len(m), m[p].id \in Chunk(t) PROVE l < p /\ p <= e
  <2>1. PICK q \in (l + 1)..e : m[p].id = m[q].id
    BY <1>3, <1>10
  <2>2. p = q
    BY <1>2, <1>4, <1>5, <1>8, <2>1
  <2> QED
    BY <1>2, <2>2
<1>11. ASSUME NEW p \in 1..Len(m), l < p, p <= e PROVE m[p].id \in Chunk(t)
  BY <1>2, <1>3, <1>11
<1> QED
  BY <1>1, <1>2, <1>9, <1>10, <1>11 DEF m, e, l

\* Other sessions have none of them.
LEMMA ChunkIsOwn ==
  ASSUME MemTypes, IdInv, AskInv, NEW t \in Tasks, task[t] = "asking",
         NEW s \in Sessions, s # t[1], NEW p \in 1..Len(messages[s])
  PROVE  messages[s][p].id \notin Chunk(t)
<1>1. Has(s, messages[s][p].id)
  BY DEF Has
<1> QED
  BY <1>1, ChunkShape DEF IdInv

\* Archiving a chunk counts its messages once more, or twice.
LEMMA ArchivedShape ==
  ASSUME MemTypes, IdInv, AskInv, CountInv, NEW t \in Tasks, task[t] = "asking",
         NEW n \in 1..2, Archived(t, n)
  PROVE  /\ archive' \in [Messages -> Nat]
         /\ \A i \in Messages : /\ archive[i] <= archive'[i]
                                /\ i \in Chunk(t) => archive'[i] > 0
                                /\ i \notin Chunk(t) => archive'[i] = archive[i]
                                /\ archive'[i] <= n + trouble
                                /\ i > 2 * turns => archive'[i] = 0
<1>1. archive' = [i \in Messages |-> archive[i] + IF i \in Chunk(t) THEN n ELSE 0]
  BY DEF Archived
<1>2. archive \in [Messages -> Nat] /\ trouble \in Nat /\ turns \in Nat
  BY DEF MemTypes
<1>3. \A i \in Chunk(t) : i \in Messages /\ i <= 2 * turns /\ i \in Nat
  BY ChunkShape, MemoryAssumption DEF Messages
<1>4. ASSUME NEW i \in Chunk(t) PROVE archive[i] <= trouble
  <2>1. PICK p \in (chunk[t].first + 1)..chunk[t].end : i = messages[t[1]][p].id
    BY DEF Chunk
  <2>2. /\ last[t[1]] \in Nat /\ chunk[t].end \in Nat /\ chunk[t].first = last[t[1]]
        /\ t[1] \in Sessions /\ Len(messages[t[1]]) \in Nat
        /\ chunk[t].end < Len(messages[t[1]])
    BY ChunkShape DEF MemTypes, AskInv
  <2>3. p \in 1..Len(messages[t[1]]) /\ p > last[t[1]]
    BY <2>2
  <2> QED
    BY <2>1, <2>2, <2>3 DEF CountInv
<1>5. \A i \in Messages : archive[i] <= 1 + trouble /\ (i > 2 * turns => archive[i] = 0)
  BY DEF CountInv
<1>6. ASSUME NEW i \in Messages
      PROVE  /\ archive'[i] \in Nat /\ archive[i] <= archive'[i]
             /\ i \in Chunk(t) => archive'[i] > 0
             /\ i \notin Chunk(t) => archive'[i] = archive[i]
             /\ archive'[i] <= n + trouble
             /\ i > 2 * turns => archive'[i] = 0
  <2>1. CASE i \in Chunk(t)
    BY <1>1, <1>2, <1>3, <1>4, <2>1
  <2>2. CASE i \notin Chunk(t)
    BY <1>1, <1>2, <1>5, <2>2
  <2> QED
    BY <2>1, <2>2
<1> QED
  BY <1>1, <1>6

-----------------------------------------------------------------------------
(* MEMORY.md.                                                              *)

\* What is lost of MEMORY.md is known.
FactsStep ==
  /\ memory' \subseteq facts' /\ facts \subseteq facts' /\ facts' \subseteq Facts
  /\ shaky' \in BOOLEAN
  /\ ~shaky' => ~shaky /\ memory' = facts'

\* So is who has not been shown what task t wrote.
BehindStep(t) ==
  /\ behind' \subseteq Tasks
  /\ \/ memory' = memory /\ behind \ {t} \subseteq behind'
     \/ (behind \cup Shown) \ {t} \subseteq behind'

\* The other tasks were shown what they were before, and t what there is.
LEMMA SeenStep ==
  ASSUME SeenInv, NEW t \in Tasks, FactsStep, BehindStep(t),
         \A u \in Tasks \ {t} :
           chunk'[u] = chunk[u] /\ (task'[u] \in {"asking", "running"} => task'[u] = task[u]),
         chunk'[t].seen \subseteq facts',
         ~shaky' /\ t \notin behind' /\ task'[t] \in {"asking", "running"} =>
           chunk'[t].seen = memory'
  PROVE  SeenInv'
<1>1. ASSUME NEW u \in Tasks PROVE chunk'[u].seen \subseteq facts'
  <2>1. CASE u = t
    BY <2>1
  <2>2. CASE u # t
    BY <2>2 DEF SeenInv, FactsStep
  <2> QED
    BY <2>1, <2>2
<1>2. ASSUME ~shaky', NEW u \in Tasks, task'[u] \in {"asking", "running"}, u \notin behind'
      PROVE  chunk'[u].seen = memory'
  <2>1. CASE u = t
    BY <1>2, <2>1
  <2>2. CASE u # t
    <3>1. chunk'[u] = chunk[u] /\ u \in Shown
      BY <1>2, <2>2 DEF Shown
    <3>2. memory' = memory /\ u \notin behind
      BY <1>2, <2>2, <3>1 DEF BehindStep
    <3>3. ~shaky
      BY <1>2 DEF FactsStep
    <3> QED
      BY <3>1, <3>2, <3>3 DEF SeenInv
  <2> QED
    BY <2>1, <2>2
<1>3. Shown' = {u \in Tasks : task'[u] \in {"asking", "running"}}
  BY DEF Shown
<1> QED
  BY <1>1, <1>2, <1>3 DEF SeenInv, FactsStep

\* A task writes the file it was shown with what it adds.
LEMMA OverwritesStep ==
  ASSUME MemTypes, SeenInv, NEW t \in Shown, NEW added \in SUBSET Facts,
         Overwrites(t, chunk[t].seen \cup added), facts' = facts \cup added
  PROVE  FactsStep
<1>1. /\ memory' = chunk[t].seen \cup added
      /\ shaky' = (shaky \/ t \in behind)
  BY DEF Overwrites
<1>2. t \in Tasks
  BY DEF Shown
<1>3. chunk[t].seen \subseteq facts
  BY <1>2 DEF SeenInv
<1>4. ~shaky' => ~shaky /\ chunk[t].seen = facts
  BY <1>1 DEF SeenInv
<1>5. shaky' \in BOOLEAN
  BY <1>1
<1> QED
  BY <1>1, <1>3, <1>4, <1>5 DEF FactsStep, MemTypes

\* Nothing new is written.
LEMMA FactsStand ==
  ASSUME MemTypes, SeenInv, memory' = memory, facts' = facts, shaky' = shaky
  PROVE  FactsStep
BY DEF FactsStep, MemTypes, SeenInv

\* The file was truncated.
LEMMA TruncatesStep ==
  ASSUME MemTypes, Truncates, facts' = facts
  PROVE  FactsStep
BY DEF FactsStep, MemTypes, Truncates

\* The facts of a chunk are in the file, or were shown with it.
LEMMA UpdatedStep ==
  ASSUME MemTypes, IdInv, AskInv, SeenInv, NEW t \in Tasks, task[t] = "asking",
         MemoryUpdated(t)
  PROVE  FactsStep /\ (~Writes(t) => memory' = memory)
<1>1. Chunk(t) \in SUBSET Facts /\ t \in Shown
  BY ChunkShape DEF Facts, Shown
<1>2. facts' = facts \cup Chunk(t)
  BY DEF MemoryUpdated
<1>3. CASE Writes(t)
  <2>1. Overwrites(t, chunk[t].seen \cup Chunk(t))
    BY <1>3 DEF MemoryUpdated
  <2> QED
    BY <1>1, <1>2, <1>3, <2>1, OverwritesStep
<1>4. CASE ~Writes(t)
  <2>1. memory' = memory /\ shaky' = shaky /\ Chunk(t) \subseteq chunk[t].seen
    BY <1>4 DEF MemoryUpdated, Writes
  <2>2. facts' = facts
    BY <1>2, <2>1 DEF SeenInv
  <2> QED
    BY <2>1, <2>2, FactsStand
<1> QED
  BY <1>3, <1>4

\* Who is shown the file again is not behind; who writes it leaves others behind.
LEMMA ShownAnewStep ==
  ASSUME MemTypes, NEW t \in Tasks, ShownAnew(t), memory' = memory
  PROVE  BehindStep(t) /\ t \notin behind'
BY DEF ShownAnew, BehindStep, MemTypes
LEMMA RewrittenStep ==
  ASSUME MemTypes, NEW t \in Tasks, Rewritten(t)
  PROVE  BehindStep(t) /\ t \notin behind'
BY DEF Rewritten, BehindStep, Shown, MemTypes

\* The memory is done with a chunk.
LEMMA DoneStep ==
  ASSUME MemTypes, IdInv, AskInv, SeenInv, NEW t \in Tasks, task[t] = "asking",
         NEW mishaps \in 0..1, Done(t, mishaps)
  PROVE  /\ Archived(t, mishaps + 1) /\ failures' = 0
         /\ FactsStep /\ BehindStep(t) /\ t \notin behind'
<1>1. failures' = 0
  BY DEF Done
<1>2. CASE mishaps = 0 /\ Summarized(t)
  <2>1. Archived(t, 1) /\ MemoryUpdated(t)
    BY <1>2 DEF Summarized
  <2>2. FactsStep /\ (~Writes(t) => memory' = memory)
    BY <2>1, UpdatedStep
  <2>3. CASE Writes(t)
    <3>1. Rewritten(t)
      BY <1>2, <2>3 DEF Summarized
    <3> QED
      BY <1>1, <1>2, <2>1, <2>2, <3>1, RewrittenStep
  <2>4. CASE ~Writes(t)
    <3>1. ShownAnew(t)
      BY <1>2, <2>4 DEF Summarized
    <3> QED
      BY <1>1, <1>2, <2>1, <2>2, <2>4, <3>1, ShownAnewStep
  <2> QED
    BY <2>3, <2>4
<1>3. CASE mishaps = 0 /\ RawArchived(t)
  <2>1. Archived(t, 1) /\ ShownAnew(t) /\ UNCHANGED <<memory, facts, shaky>>
    BY <1>3 DEF RawArchived
  <2> QED
    BY <1>1, <1>3, <2>1, FactsStand, ShownAnewStep
<1>4. CASE mishaps = 1 /\ ArchivedTwice(t)
  <2>1. Archived(t, 2) /\ Truncates /\ Rewritten(t) /\ facts' = facts
    BY <1>4 DEF ArchivedTwice
  <2> QED
    BY <1>1, <1>4, <2>1, TruncatesStep, RewrittenStep
<1> QED
  BY <1>2, <1>3, <1>4 DEF Done

-----------------------------------------------------------------------------
(* Steps of a consolidation.                                               *)

\* Task t asks for a chunk from l on, or leaves; it is shown the memory.
AsksOrLeaves(t, l) ==
  \/ \E i \in Nat, round \in 0..MaxRounds :
       /\ l < i /\ i < Len(messages[t[1]])
       /\ task' = [task EXCEPT ![t] = "asking"]
       /\ chunk' = [chunk EXCEPT ![t] =
                      [first |-> l, end |-> i, round |-> round, seen |-> memory']]
  \/ \E to \in {"running", "off"}, c \in Chunks :
       /\ task' = [task EXCEPT ![t] = to] /\ chunk' = [chunk EXCEPT ![t] = c]
       /\ c.seen \subseteq memory' /\ (to = "running" => c.seen = memory')

\* Nothing is a chunk, and so is what a turn is shown.
LEMMA NothingSeen ==
  ASSUME memory' \subseteq Facts
  PROVE  /\ Nothing \in Chunks /\ Nothing.seen = {}
         /\ [Nothing EXCEPT !.seen = memory'] \in Chunks
         /\ [Nothing EXCEPT !.seen = memory'].seen = memory'
BY MemoryAssumption DEF Nothing, Chunks

\* A task leaves.
LEMMA LeaveGoes ==
  ASSUME MemTypes, NEW t \in Tasks, NEW l \in Nat, memory' \subseteq Facts, Leave(t)
  PROVE  AsksOrLeaves(t, l)
<1>1. CASE t[2] = Turn
  <2>1. /\ task' = [task EXCEPT ![t] = "running"]
        /\ chunk' = [chunk EXCEPT ![t] = [Nothing EXCEPT !.seen = memory']]
    BY <1>1 DEF Leave
  <2> QED
    BY <2>1, NothingSeen DEF AsksOrLeaves
<1>2. CASE t[2] # Turn
  <2>1. task' = [task EXCEPT ![t] = "off"] /\ chunk' = [chunk EXCEPT ![t] = Nothing]
    BY <1>2 DEF Leave
  <2> QED
    BY <2>1, NothingSeen DEF AsksOrLeaves
<1> QED
  BY <1>1, <1>2

\* The next round goes so.
LEMMA ContinueGoes ==
  ASSUME MemTypes, NEW t \in Tasks, NEW l \in Nat, NEW round \in Nat,
         memory' \subseteq Facts, NEW limit, Continue(t, l, round, memory', limit)
  PROVE  AsksOrLeaves(t, l)
<1>1. CASE round < MaxRounds /\ Ask(t, l, round, memory')
  <2>0. round \in 0..MaxRounds
    BY <1>1, MemoryAssumption
  <2>1. PICK i \in UserTurns(messages[t[1]], l) :
          /\ task' = [task EXCEPT ![t] = "asking"]
          /\ chunk' = [chunk EXCEPT ![t] =
                         [first |-> l, end |-> i, round |-> round, seen |-> memory']]
    BY <1>1 DEF Ask
  <2>2. Len(messages[t[1]]) \in Nat
    BY DEF MemTypes, Tasks
  <2>3. i \in Nat /\ l < i /\ i < Len(messages[t[1]])
    BY <2>2 DEF UserTurns
  <2> QED
    BY <2>0, <2>1, <2>3 DEF AsksOrLeaves
<1>2. CASE Leave(t)
  BY <1>2, LeaveGoes
<1> QED
  BY <1>1, <1>2 DEF Continue

\* The types of what a task goes for.
LEMMA GoesTypes ==
  ASSUME MemTypes, NEW t \in Tasks, NEW l \in Nat, memory' \subseteq Facts,
         AsksOrLeaves(t, l)
  PROVE  /\ task' \in [Tasks -> {"off", "waiting", "asking", "running"}]
         /\ chunk' \in [Tasks -> Chunks]
<1>1. \A i \in Nat, round \in 0..MaxRounds :
        [first |-> l, end |-> i, round |-> round, seen |-> memory'] \in Chunks
  BY DEF Chunks
<1>2. \E c \in Chunks : chunk' = [chunk EXCEPT ![t] = c]
  BY <1>1 DEF AsksOrLeaves
<1>3. chunk' \in [Tasks -> Chunks]
  BY <1>2 DEF MemTypes
<1> QED
  BY <1>3 DEF AsksOrLeaves, MemTypes

\* A task that goes on alone in its session keeps chunks at the offsets.
LEMMA GoesAsks ==
  ASSUME MemTypes, AskInv, NEW t \in Tasks, NEW l \in Nat,
         AsksOrLeaves(t, l), messages' = messages, last' = [last EXCEPT ![t[1]] = l],
         \A u \in Tasks : task[u] = "asking" /\ u[1] = t[1] => u = t
  PROVE  AskInv'
<1>1. t[1] \in Sessions /\ last'[t[1]] = l
  BY DEF Tasks, MemTypes
<1>2. ASSUME NEW u \in Tasks, task'[u] = "asking"
      PROVE  /\ chunk'[u].first = last'[u[1]]
             /\ chunk'[u].first < chunk'[u].end /\ chunk'[u].end < Len(messages[u[1]])
             /\ \A v \in Tasks : task'[v] = "asking" /\ v[1] = u[1] => v = u
  <2>1. CASE u = t
    <3>1. chunk'[t].first = l /\ l < chunk'[t].end /\ chunk'[t].end < Len(messages[t[1]])
      BY <1>2, <2>1 DEF AsksOrLeaves, MemTypes
    <3>2. \A v \in Tasks : task'[v] = "asking" /\ v[1] = t[1] => v = t
      BY DEF AsksOrLeaves, MemTypes
    <3> QED
      BY <1>1, <2>1, <3>1, <3>2
  <2>2. CASE u # t
    <3>1. task[u] = "asking" /\ chunk'[u] = chunk[u]
      BY <1>2, <2>2 DEF AsksOrLeaves, MemTypes
    <3>2. u[1] # t[1]
      BY <2>2, <3>1
    <3>3. last'[u[1]] = last[u[1]] /\ u[1] \in Sessions
      BY <3>2 DEF Tasks, MemTypes
    <3>4. \A v \in Tasks : task'[v] = "asking" /\ v[1] = u[1] => task[v] = "asking"
      BY <3>2 DEF AsksOrLeaves, MemTypes
    <3> QED
      BY <3>1, <3>3, <3>4 DEF AskInv
  <2> QED
    BY <2>1, <2>2
<1> QED
  BY <1>2 DEF AskInv

\* A task that is shown the memory keeps the facts.
LEMMA GoesSeen ==
  ASSUME MemTypes, SeenInv, NEW t \in Tasks, NEW l \in Nat, AsksOrLeaves(t, l),
         FactsStep, BehindStep(t)
  PROVE  SeenInv'
<1>1. \A u \in Tasks \ {t} : chunk'[u] = chunk[u] /\ task'[u] = task[u]
  BY DEF AsksOrLeaves, MemTypes
<1>2. /\ chunk'[t].seen \subseteq memory'
      /\ task'[t] \in {"asking", "running"} => chunk'[t].seen = memory'
  BY DEF AsksOrLeaves, MemTypes
<1>3. chunk'[t].seen \subseteq facts'
  BY <1>2 DEF FactsStep
<1> QED
  BY <1>1, <1>2, <1>3, SeenStep

\* A step that leaves the sessions, their files and what is archived alone.
LEMMA QuietSessions ==
  ASSUME MemInv, UNCHANGED <<messages, last, file, archive, turns, damaged, partial>>,
         trouble' \in Nat, trouble <= trouble'
  PROVE  IdInv' /\ OffsetInv' /\ HiddenInv' /\ CountInv' /\ SavedAsKept'
<1> USE DEF MemInv
<1>1. IdInv' /\ OffsetInv'
  <2>1. \A s \in Sessions : \A i : Has(s, i)' <=> Has(s, i)
    BY DEF Has
  <2> QED
    BY <2>1 DEF IdInv, OffsetInv, Rising
<1>2. HiddenInv' /\ SavedAsKept'
  BY DEF HiddenInv, SavedAsKept, Saved
<1>3. trouble \in Nat /\ archive \in [Messages -> Nat] /\ messages \in [Sessions -> Seq(Row)]
  BY DEF MemTypes
<1>4. ASSUME NEW i \in Messages PROVE archive[i] <= 1 + trouble'
  BY <1>3 DEF CountInv
<1>5. ASSUME NEW s \in Sessions, NEW p \in 1..Len(messages[s]), p > last[s]
      PROVE  archive[messages[s][p].id] <= trouble'
  <2>1. messages[s][p].id \in Messages
    BY <1>3, RowIds
  <2> QED
    BY <1>3, <1>5, <2>1 DEF CountInv
<1>6. CountInv'
  BY <1>4, <1>5 DEF CountInv
<1> QED
  BY <1>1, <1>2, <1>6

\* A task begins to consolidate.
LEMMA ConsolidateStep == ASSUME MemInv, NEW t \in Tasks, Consolidate(t) PROVE MemInv'
<1> USE DEF MemInv
<1>1. /\ UNCHANGED <<messages, last, file, archive, turns, damaged, partial, trouble>>
      /\ UNCHANGED <<memory, facts, failures, shaky>> /\ ShownAnew(t)
      /\ SessionLockFree(t[1]) /\ Continue(t, last[t[1]], 0, memory', Budget)
  BY DEF Consolidate, NoTrouble
<1>2. t[1] \in Sessions /\ last[t[1]] \in Nat /\ memory' \subseteq Facts
  BY <1>1 DEF Tasks, MemTypes
<1>3. AsksOrLeaves(t, last[t[1]])
  BY <1>1, <1>2, ContinueGoes
<1>4. FactsStep /\ BehindStep(t)
  BY <1>1, FactsStand, ShownAnewStep
<1>5. MemTypes'
  <2>1. /\ task' \in [Tasks -> {"off", "waiting", "asking", "running"}]
        /\ chunk' \in [Tasks -> Chunks]
    BY <1>2, <1>3, GoesTypes
  <2> QED
    BY <1>1, <1>2, <1>4, <2>1 DEF MemTypes, BehindStep
<1>6. \A u \in Tasks : task[u] = "asking" => u[1] # t[1]
  BY <1>1 DEF SessionLockFree, Tasks
<1>7. last' = [last EXCEPT ![t[1]] = last[t[1]]]
  BY <1>1 DEF MemTypes
<1>8. AskInv'
  BY <1>1, <1>2, <1>3, <1>6, <1>7, GoesAsks
<1>9. SeenInv'
  BY <1>2, <1>3, <1>4, GoesSeen
<1>10. trouble \in Nat
  BY DEF MemTypes
<1> QED
  BY <1>1, <1>5, <1>8, <1>9, <1>10, QuietSessions

\* The offset moves behind an archived chunk.
LEMMA AdvanceStep ==
  ASSUME MemInv, NEW t \in Tasks, task[t] = "asking", Advance(t),
         NEW n \in 1..2, Archived(t, n), trouble' \in Nat, trouble + n <= 1 + trouble'
  PROVE  /\ last' \in [Sessions -> Nat] /\ archive' \in [Messages -> Nat]
         /\ HiddenInv' /\ CountInv'
         /\ chunk[t].end \in Nat /\ chunk[t].end <= 2 * turns
<1> USE DEF MemInv
<1> DEFINE e == chunk[t].end
           h == t[1]
<1>1. /\ UNCHANGED <<messages, turns, damaged>>
      /\ last' = [last EXCEPT ![h] = e]
  BY DEF Advance, Offset
<1>2. /\ h \in Sessions /\ e \in Nat /\ last[h] < e /\ e < Len(messages[h])
      /\ \A p \in 1..Len(messages[h]) :
           messages[h][p].id \in Chunk(t) <=> last[h] < p /\ p <= e
  BY ChunkShape
<1>3. /\ archive' \in [Messages -> Nat]
      /\ \A i \in Messages : /\ archive[i] <= archive'[i]
                             /\ i \in Chunk(t) => archive'[i] > 0
                             /\ i \notin Chunk(t) => archive'[i] = archive[i]
                             /\ archive'[i] <= n + trouble
                             /\ i > 2 * turns => archive'[i] = 0
  BY ArchivedShape
<1>4. /\ messages \in [Sessions -> Seq(Row)] /\ last \in [Sessions -> Nat]
      /\ archive \in [Messages -> Nat] /\ trouble \in Nat
  BY DEF MemTypes
<1>5. last' \in [Sessions -> Nat] /\ last'[h] = e /\ \A s \in Sessions : s # h => last'[s] = last[s]
  BY <1>1, <1>2, <1>4
<1>6. \A s \in Sessions : \A p \in 1..Len(messages[s]) :
        messages[s][p].id \in Messages
  BY <1>4, RowIds
<1>7. e <= 2 * turns
  <2>1. Len(messages[h]) <= 2 * turns /\ turns \in Nat
    BY <1>2 DEF IdInv, MemTypes
  <2>2. Len(messages[h]) \in Nat /\ 2 * turns \in Nat
    BY <1>2, <1>4, <2>1, Doubled
  <2> QED
    BY <1>2, <2>1, <2>2
<1> HIDE DEF e, h
<1>8. ASSUME NEW s \in Sessions, ~damaged[s], NEW i \in 1..last'[s]
      PROVE  last'[s] <= Len(messages[s]) /\ archive'[messages[s][i].id] > 0
  <2> DEFINE id == messages[s][i].id
  <2>1. CASE s = h
    <3>1. i \in 1..Len(messages[h]) /\ i <= e /\ Len(messages[h]) \in Nat
      BY <1>2, <1>4, <1>5, <1>8, <2>1
    <3>2. CASE last[h] < i
      <4>1. messages[h][i].id \in Chunk(t)
        BY <1>2, <3>1, <3>2
      <4> QED
        BY <1>2, <1>3, <1>4, <1>5, <1>6, <2>1, <3>1, <4>1
    <3>3. CASE i <= last[h]
      <4>1. i \in 1..last[h]
        BY <1>2, <1>4, <3>3
      <4>2. archive[id] > 0 /\ id \in Messages
        BY <1>6, <1>8, <2>1, <3>1, <4>1 DEF HiddenInv
      <4>3. archive'[id] > 0
        BY <1>3, <1>4, <4>2
      <4> QED
        BY <1>2, <1>5, <2>1, <3>1, <4>3
    <3> QED
      BY <1>2, <1>4, <3>1, <3>2, <3>3
  <2>2. CASE s # h
    <3>1. last'[s] = last[s]
      BY <1>5, <2>2
    <3>2. last[s] <= Len(messages[s]) /\ archive[id] > 0
      BY <1>8, <3>1 DEF HiddenInv
    <3>3. i \in 1..Len(messages[s])
      BY <1>4, <1>8, <3>1, <3>2
    <3>4. id \in Messages
      BY <1>6, <3>3
    <3> QED
      BY <1>3, <1>4, <3>1, <3>2, <3>4
  <2> QED
    BY <2>1, <2>2
<1>9. HiddenInv'
  <2>1. ASSUME NEW s \in Sessions, ~damaged[s] PROVE last'[s] <= Len(messages[s])
    <3>1. CASE s = h
      BY <1>2, <1>4, <1>5, <3>1
    <3>2. CASE s # h
      BY <1>5, <2>1, <3>2 DEF HiddenInv
    <3> QED
      BY <3>1, <3>2
  <2> QED
    BY <1>1, <1>8, <2>1 DEF HiddenInv
<1>10. ASSUME NEW s \in Sessions, NEW p \in 1..Len(messages[s]), p > last'[s]
       PROVE  archive'[messages[s][p].id] <= trouble'
  <2> DEFINE id == messages[s][p].id
  <2>1. id \notin Chunk(t) /\ p > last[s]
    <3>1. CASE s = h
      BY <1>2, <1>4, <1>5, <1>10, <3>1
    <3>2. CASE s # h
      BY <1>5, <1>10, <3>2, ChunkIsOwn DEF h
    <3> QED
      BY <3>1, <3>2
  <2>2. archive[id] <= trouble
    BY <2>1 DEF CountInv
  <2> QED
    BY <1>3, <1>4, <1>6, <2>1, <2>2
<1>11. CountInv'
  <2>1. ASSUME NEW i \in Messages PROVE archive'[i] <= 1 + trouble'
    <3>1. archive'[i] \in Nat /\ archive'[i] <= n + trouble
      BY <1>3
    <3> DEFINE a == archive'[i]
               b == trouble'
    <3>2. a <= n + trouble /\ a \in Nat /\ b \in Nat /\ trouble + n <= 1 + b /\ n \in Nat
      BY <3>1
    <3> HIDE DEF a, b
    <3>3. a <= 1 + b
      BY ONLY <1>4, <3>2
    <3> QED
      BY <3>3 DEF a, b
  <2> QED
    BY <1>1, <1>3, <1>10, <2>1 DEF CountInv
<1> QED
  BY <1>3, <1>5, <1>7, <1>9, <1>11, <1>2 DEF e

\* The file of a session is written, whole or in part; nothing else is new.
LEMMA FileStep ==
  ASSUME MemTypes, IdInv, OffsetInv, NEW s \in Sessions, NEW f \in MemFiles,
         file' = [file EXCEPT ![s] = f], UNCHANGED <<messages, turns>>,
         Starts(f.messages, messages[s]), f.last <= 2 * turns,
         last' \in [Sessions -> Nat], \A u \in Sessions : last'[u] <= 2 * turns
  PROVE  file' \in [Sessions -> MemFiles] /\ IdInv' /\ OffsetInv'
<1>1. file' \in [Sessions -> MemFiles] /\ messages' \in [Sessions -> Seq(Row)]
  BY DEF MemTypes
<1>2. ASSUME NEW u \in Sessions, NEW x \in {messages'[u], file'[u].messages}
      PROVE  Starts(x, messages[u]) \/ Starts(x, file[u].messages)
  <2>1. messages[u] \in Seq(Row) /\ file[u].messages \in Seq(Row)
    BY DEF MemTypes, MemFiles
  <2>2. Starts(messages[u], messages[u]) /\ Starts(file[u].messages, file[u].messages)
    BY <2>1, StartsItself
  <2> QED
    BY <1>2, <2>2 DEF MemTypes
<1>3. IdInv'
  BY <1>1, <1>2, IdStay
<1>4. OffsetInv'
  BY DEF OffsetInv, MemTypes
<1> QED
  BY <1>1, <1>3, <1>4

\* Tasks that go on asking do so for what they asked for.
StillAsking ==
  \A u \in Tasks : task'[u] = "asking" => task[u] = "asking" /\ chunk'[u] = chunk[u]

\* The chunks stay where they are while messages are appended.
LEMMA AskShrinks ==
  ASSUME MemTypes, AskInv, StillAsking, messages' \in [Sessions -> Seq(Row)],
         \A u \in Tasks : task'[u] = "asking" =>
           /\ last'[u[1]] = last[u[1]]
           /\ Len(messages[u[1]]) <= Len(messages'[u[1]])
  PROVE  AskInv'
<1> SUFFICES ASSUME NEW t \in Tasks, task'[t] = "asking"
             PROVE  /\ chunk'[t].first = last'[t[1]]
                    /\ chunk'[t].first < chunk'[t].end
                    /\ chunk'[t].end < Len(messages'[t[1]])
                    /\ \A u \in Tasks : task'[u] = "asking" /\ u[1] = t[1] => u = t
  BY DEF AskInv
<1>1. task[t] = "asking" /\ chunk'[t] = chunk[t] /\ last'[t[1]] = last[t[1]]
  BY DEF StillAsking
<1>2. chunk[t].end \in Nat /\ Len(messages[t[1]]) \in Nat /\ Len(messages'[t[1]]) \in Nat
  BY DEF MemTypes, Chunks, Tasks
<1>3. chunk[t].end < Len(messages'[t[1]])
  BY <1>1, <1>2 DEF AskInv
<1> QED
  BY <1>1, <1>3 DEF AskInv, StillAsking

\* A chunk has been archived and its offset saved.
LEMMA NextRoundStep ==
  ASSUME MemInv, NEW t \in Tasks, task[t] = "asking", Advance(t), NextRound(t),
         NEW n \in 1..2, Archived(t, n), trouble' \in Nat, trouble + n <= 1 + trouble',
         failures' = 0, FactsStep, BehindStep(t)
  PROVE  MemInv'
<1> USE DEF MemInv
<1> DEFINE e == chunk[t].end
           h == t[1]
<1>1. /\ UNCHANGED <<messages, turns, damaged>>
      /\ last' = [last EXCEPT ![h] = e]
      /\ file' = [file EXCEPT ![h] = Saved(e, messages[h])]
      /\ partial' = [partial EXCEPT ![h] = FALSE]
      /\ Continue(t, e, chunk[t].round + 1, memory', Budget \div 2 + 1)
  BY DEF Advance, NextRound, Offset, OffsetSaved, Save, SeenNext
<1>2. memory' \subseteq Facts /\ h \in Sessions /\ chunk[t].round + 1 \in Nat
  BY MemoryAssumption DEF MemTypes, Tasks, Chunks, FactsStep
<1>3. /\ last' \in [Sessions -> Nat] /\ archive' \in [Messages -> Nat]
      /\ HiddenInv' /\ CountInv' /\ e \in Nat /\ e <= 2 * turns
  BY AdvanceStep
<1>4. AsksOrLeaves(t, e)
  BY <1>1, <1>2, <1>3, ContinueGoes
<1>5. Saved(e, messages[h]) \in MemFiles /\ Starts(messages[h], messages[h])
  BY <1>2, <1>3, StartsItself DEF MemFiles, Saved, MemTypes
<1>6. \A u \in Sessions : last'[u] <= 2 * turns
  BY <1>1, <1>3 DEF OffsetInv, MemTypes
<1>7. file' \in [Sessions -> MemFiles] /\ IdInv' /\ OffsetInv'
  BY <1>1, <1>2, <1>3, <1>5, <1>6, FileStep DEF Saved
<1>8. MemTypes'
  <2>1. /\ task' \in [Tasks -> {"off", "waiting", "asking", "running"}]
        /\ chunk' \in [Tasks -> Chunks]
    BY <1>2, <1>3, <1>4, GoesTypes
  <2>2. failures' \in 0..(MaxFailures - 1)
    BY MemoryAssumption
  <2>3. facts' \subseteq Facts /\ shaky' \in BOOLEAN /\ behind' \subseteq Tasks
    BY DEF FactsStep, BehindStep
  <2> QED
    BY <1>1, <1>2, <1>3, <1>7, <2>1, <2>2, <2>3 DEF MemTypes
<1>9. AskInv'
  <2>1. \A u \in Tasks : task[u] = "asking" /\ u[1] = t[1] => u = t
    BY DEF AskInv
  <2> QED
    BY <1>1, <1>3, <1>4, <2>1, GoesAsks
<1>10. SavedAsKept'
  BY <1>1, <1>2 DEF SavedAsKept, MemTypes, Saved
<1>11. SeenInv'
  BY <1>3, <1>4, GoesSeen
<1> QED
  BY <1>3, <1>7, <1>8, <1>9, <1>10, <1>11

\* The answer was written down, or the messages were archived as they are.
LEMMA AnsweredStep ==
  ASSUME MemInv, NEW t \in Tasks, NEW mishaps \in 0..1, Answered(t, mishaps)
  PROVE  MemInv'
<1> USE DEF MemInv
<1>1. /\ task[t] = "asking" /\ Advance(t) /\ NextRound(t) /\ Done(t, mishaps)
      /\ trouble' = trouble + mishaps
  BY DEF Answered, Mishaps
<1>2. /\ Archived(t, mishaps + 1) /\ failures' = 0
      /\ FactsStep /\ BehindStep(t)
  BY <1>1, DoneStep
<1>3. trouble \in Nat
  BY DEF MemTypes
<1>4. mishaps + 1 \in 1..2 /\ trouble' \in Nat /\ trouble + (mishaps + 1) <= 1 + trouble'
  BY <1>1, <1>3
<1> QED
  BY <1>1, <1>2, <1>4, NextRoundStep

\* The answer cannot be used.
LEMMA UnusableStep == ASSUME MemInv, NEW t \in Tasks, Unusable(t) PROVE MemInv'
<1> USE DEF MemInv
<1>1. /\ UNCHANGED <<messages, last, file, archive, turns, damaged, partial, trouble>>
      /\ UNCHANGED <<memory, facts, shaky>> /\ task[t] = "asking"
      /\ Leave(t) /\ ShownAnew(t)
      /\ ~(failures + 1 >= MaxFailures) /\ failures' = failures + 1
  BY DEF Unusable, Fails, LastFailure, NoTrouble
<1>2. t[1] \in Sessions /\ last[t[1]] \in Nat /\ memory' \subseteq Facts /\ trouble \in Nat
  BY <1>1 DEF Tasks, MemTypes
<1>3. AsksOrLeaves(t, last[t[1]])
  BY <1>1, <1>2, LeaveGoes
<1>4. failures' \in 0..(MaxFailures - 1)
  BY <1>1, MemoryAssumption DEF MemTypes
<1>5. FactsStep /\ BehindStep(t)
  BY <1>1, FactsStand, ShownAnewStep
<1>6. MemTypes'
  <2>1. /\ task' \in [Tasks -> {"off", "waiting", "asking", "running"}]
        /\ chunk' \in [Tasks -> Chunks]
    BY <1>2, <1>3, GoesTypes
  <2> QED
    BY <1>1, <1>2, <1>4, <1>5, <2>1 DEF MemTypes, BehindStep
<1>7. AskInv'
  <2>1. last' = [last EXCEPT ![t[1]] = last[t[1]]]
    BY <1>1 DEF MemTypes
  <2>2. \A u \in Tasks : task[u] = "asking" /\ u[1] = t[1] => u = t
    BY <1>1 DEF AskInv
  <2> QED
    BY <1>1, <1>2, <1>3, <2>1, <2>2, GoesAsks
<1>8. SeenInv'
  BY <1>2, <1>3, <1>5, GoesSeen
<1> QED
  BY <1>1, <1>2, <1>6, <1>7, <1>8, QuietSessions

\* A chunk has been archived, and then there was trouble.
LEMMA ArchivedInVain ==
  ASSUME MemInv, NEW t \in Tasks, task[t] = "asking", Archived(t, 1),
         UNCHANGED <<messages, last, turns, damaged>>, trouble' = trouble + 1
  PROVE  archive' \in [Messages -> Nat] /\ HiddenInv' /\ CountInv'
<1> USE DEF MemInv
<1>1. /\ archive' \in [Messages -> Nat]
      /\ \A i \in Messages : /\ archive[i] <= archive'[i]
                             /\ archive'[i] <= 1 + trouble
                             /\ i > 2 * turns => archive'[i] = 0
  BY ArchivedShape
<1>2. /\ messages \in [Sessions -> Seq(Row)] /\ last \in [Sessions -> Nat]
      /\ archive \in [Messages -> Nat] /\ trouble \in Nat
  BY DEF MemTypes
<1>3. \A s \in Sessions : \A p \in 1..Len(messages[s]) : messages[s][p].id \in Messages
  BY <1>2, RowIds
<1>4. ASSUME NEW s \in Sessions, ~damaged[s], NEW i \in 1..last[s]
      PROVE  archive'[messages[s][i].id] > 0
  <2>1. last[s] <= Len(messages[s]) /\ archive[messages[s][i].id] > 0
    BY <1>4 DEF HiddenInv
  <2>2. messages[s][i].id \in Messages
    BY <1>2, <1>3, <2>1
  <2> QED
    BY <1>1, <1>2, <2>1, <2>2
<1>5. HiddenInv'
  BY <1>4 DEF HiddenInv
<1>6. \A i \in Messages : archive'[i] <= trouble' /\ archive'[i] <= 1 + trouble'
  BY <1>1, <1>2
<1>7. CountInv'
  BY <1>1, <1>3, <1>6 DEF CountInv
<1> QED
  BY <1>1, <1>5, <1>7

\* MEMORY.md was truncated.
LEMMA MemoryWriteFailsStep ==
  ASSUME MemInv, NEW t \in Tasks, MemoryWriteFails(t) PROVE MemInv'
<1> USE DEF MemInv
<1>1. /\ UNCHANGED <<messages, last, file, turns, damaged, partial, facts>>
      /\ Archived(t, 1) /\ task[t] = "asking" /\ Leave(t) /\ Truncates /\ Rewritten(t)
      /\ ~(failures + 1 >= MaxFailures) /\ failures' = failures + 1 /\ trouble' = trouble + 1
  BY DEF MemoryWriteFails, Fails, LastFailure, Trouble, Mishaps
<1>2. archive' \in [Messages -> Nat] /\ HiddenInv' /\ CountInv'
  BY <1>1, ArchivedInVain
<1>3. FactsStep /\ BehindStep(t)
  BY <1>1, TruncatesStep, RewrittenStep
<1>4. t[1] \in Sessions /\ last[t[1]] \in Nat /\ memory' \subseteq Facts
  BY <1>3 DEF Tasks, MemTypes, FactsStep
<1>5. AsksOrLeaves(t, last[t[1]])
  BY <1>1, <1>4, LeaveGoes
<1>6. MemTypes'
  <2>1. /\ task' \in [Tasks -> {"off", "waiting", "asking", "running"}]
        /\ chunk' \in [Tasks -> Chunks]
    BY <1>4, <1>5, GoesTypes
  <2>2. failures' \in 0..(MaxFailures - 1) /\ trouble' \in Nat
    BY <1>1, MemoryAssumption DEF MemTypes
  <2> QED
    BY <1>1, <1>2, <1>3, <1>4, <2>1, <2>2 DEF MemTypes, FactsStep, BehindStep
<1>7. IdInv' /\ OffsetInv'
  <2>1. \A s \in Sessions : \A i : Has(s, i)' <=> Has(s, i)
    BY <1>1 DEF Has
  <2> QED
    BY <1>1, <2>1 DEF IdInv, OffsetInv, Rising
<1>8. SavedAsKept'
  BY <1>1 DEF SavedAsKept, Saved
<1>9. AskInv'
  <2>1. last' = [last EXCEPT ![t[1]] = last[t[1]]]
    BY <1>1 DEF MemTypes
  <2>2. \A u \in Tasks : task[u] = "asking" /\ u[1] = t[1] => u = t
    BY <1>1 DEF AskInv
  <2> QED
    BY <1>1, <1>4, <1>5, <2>1, <2>2, GoesAsks
<1>10. SeenInv'
  BY <1>3, <1>4, <1>5, GoesSeen
<1> QED
  BY <1>2, <1>6, <1>7, <1>8, <1>9, <1>10

\* The offset could not be saved.
LEMMA OffsetSaveFailsStep ==
  ASSUME MemInv, NEW t \in Tasks, NEW mishaps \in 0..1, OffsetSaveFails(t, mishaps)
  PROVE  MemInv'
<1> USE DEF MemInv
<1> DEFINE e == chunk[t].end
           h == t[1]
<1>1. /\ task[t] = "asking" /\ Advance(t) /\ UNCHANGED <<messages, turns, damaged>>
      /\ last' = [last EXCEPT ![h] = e] /\ partial' = [partial EXCEPT ![h] = TRUE]
      /\ Done(t, mishaps) /\ trouble' = trouble + (mishaps + 1)
      /\ task' = [task EXCEPT ![t] = "off"] /\ chunk' = [chunk EXCEPT ![t] = Nothing]
  BY DEF OffsetSaveFails, Mishaps, Advance, Offset, SaveBreaks
<1>2. /\ Archived(t, mishaps + 1) /\ failures' = 0
      /\ FactsStep /\ BehindStep(t)
  BY <1>1, DoneStep
<1>3. PICK f \in Interrupted(e, messages[h]) : file' = [file EXCEPT ![h] = f]
  BY DEF OffsetSaveFails, SaveBreaks, Offset
<1>4. h \in Sessions /\ messages[h] \in Seq(Row) /\ trouble \in Nat
      /\ memory' \subseteq Facts
  BY <1>1, <1>2, ChunkShape DEF MemTypes, FactsStep
<1>5. /\ trouble' \in Nat /\ mishaps + 1 \in 1..2
      /\ trouble + (mishaps + 1) <= 1 + trouble'
  BY <1>1, <1>4
<1>6. /\ last' \in [Sessions -> Nat] /\ archive' \in [Messages -> Nat]
      /\ HiddenInv' /\ CountInv' /\ e \in Nat /\ e <= 2 * turns
  BY <1>1, <1>5, <1>2, AdvanceStep
<1>7. f \in MemFiles /\ f.last \in {0, e} /\ Starts(f.messages, messages[h])
  BY <1>3, <1>4, <1>6, InterruptedShape
<1>8. \A u \in Sessions : last'[u] <= 2 * turns
  BY <1>1, <1>6 DEF OffsetInv, MemTypes
<1>9. file' \in [Sessions -> MemFiles] /\ IdInv' /\ OffsetInv'
  <2>1. 0 <= 2 * turns
    BY DEF MemTypes
  <2>2. f.last <= 2 * turns
    BY <1>6, <1>7, <2>1
  <2> QED
    BY <1>1, <1>3, <1>4, <1>6, <1>7, <1>8, <2>2, FileStep
<1>10. MemTypes'
  <2>1. Nothing \in Chunks /\ failures' \in 0..(MaxFailures - 1)
    BY <1>4, <1>2, MemoryAssumption, NothingSeen
  <2>2. facts' \subseteq Facts /\ behind' \subseteq Tasks /\ shaky' \in BOOLEAN
    BY <1>2 DEF FactsStep, BehindStep
  <2> QED
    BY <1>1, <1>4, <1>5, <1>6, <1>9, <2>1, <2>2 DEF MemTypes
<1>11. StillAsking
  BY <1>1 DEF StillAsking, MemTypes
<1>12. AskInv'
  <2>1. ASSUME NEW u \in Tasks, task'[u] = "asking"
        PROVE  last'[u[1]] = last[u[1]] /\ Len(messages[u[1]]) <= Len(messages[u[1]])
    <3>1. u # t /\ task[u] = "asking" /\ u[1] \in Sessions
      BY <1>1, <2>1 DEF MemTypes, Tasks
    <3>2. u[1] # h
      BY <1>1, <3>1 DEF AskInv
    <3> QED
      BY <1>1, <3>1, <3>2 DEF MemTypes
  <2> QED
    BY <1>1, <1>10, <1>11, <2>1, AskShrinks DEF MemTypes
<1>13. SavedAsKept'
  BY <1>1, <1>3, <1>4 DEF SavedAsKept, MemTypes, Saved
<1>14. SeenInv'
  <2>1. \A u \in Tasks \ {t} : chunk'[u] = chunk[u] /\ task'[u] = task[u]
    BY <1>1 DEF MemTypes
  <2>2. chunk'[t].seen \subseteq facts' /\ task'[t] = "off"
    BY <1>1, <1>4, NothingSeen DEF MemTypes
  <2> QED
    BY <1>2, <2>1, <2>2, SeenStep
<1> QED
  BY <1>6, <1>9, <1>10, <1>12, <1>13, <1>14

-----------------------------------------------------------------------------
(* Steps of a turn.                                                        *)

\* A turn begins.
LEMMA StartTurnStep == ASSUME MemInv, NEW s \in Sessions, StartTurn(s) PROVE MemInv'
<1> USE DEF MemInv
<1>1. /\ UNCHANGED <<messages, last, file, archive, turns, damaged, partial, trouble>>
      /\ UNCHANGED <<memory, facts, failures, chunk, behind, shaky>>
      /\ task' = [task EXCEPT ![<<s, Turn>>] = "waiting"]
  BY DEF StartTurn, NoTrouble
<1>2. MemTypes'
  BY <1>1 DEF MemTypes
<1>3. StillAsking
  BY <1>1 DEF StillAsking, MemTypes
<1>4. AskInv'
  <2>1. \A u \in Tasks : Len(messages[u[1]]) <= Len(messages[u[1]])
    BY DEF Tasks, MemTypes
  <2> QED
    BY <1>1, <1>2, <1>3, <2>1, AskShrinks DEF MemTypes
<1>5. SeenInv'
  <2>1. /\ <<s, Turn>> \in Tasks /\ task'[<<s, Turn>>] = "waiting"
        /\ \A u \in Tasks \ {<<s, Turn>>} : task'[u] = task[u]
    BY <1>1 DEF Tasks, MemTypes
  <2>2. FactsStep
    BY <1>1, FactsStand
  <2>3. BehindStep(<<s, Turn>>)
    BY <1>1 DEF BehindStep, MemTypes
  <2>4. chunk'[<<s, Turn>>].seen \subseteq facts'
    BY <1>1, <2>1 DEF SeenInv
  <2> QED
    BY <1>1, <2>1, <2>2, <2>3, <2>4, SeenStep
<1>6. trouble \in Nat /\ trouble' = trouble
  BY <1>1 DEF MemTypes
<1> QED
  BY <1>1, <1>2, <1>4, <1>5, <1>6, QuietSessions

\* The agent of a turn is at MEMORY.md.
LEMMA AgentStep ==
  ASSUME MemInv, NEW t \in Tasks, AgentAtFile(t), FactsStep, BehindStep(t),
         NEW fs \in SUBSET Facts, chunk' = [chunk EXCEPT ![t].seen = fs],
         fs \subseteq facts', ~shaky' /\ t \notin behind' => fs = memory'
  PROVE  MemInv'
<1> USE DEF MemInv
<1>1. /\ UNCHANGED <<messages, last, file, archive, turns, damaged, partial, trouble>>
      /\ UNCHANGED <<failures, task>> /\ task[t] = "running"
  BY DEF AgentAtFile, NoTrouble
<1>2. chunk' = [chunk EXCEPT ![t] = [chunk[t] EXCEPT !.seen = fs]]
  OBVIOUS
<1> DEFINE c == [chunk[t] EXCEPT !.seen = fs]
<1>3. c \in Chunks /\ c.seen = fs
  BY DEF MemTypes, Chunks
<1>4. chunk' = [chunk EXCEPT ![t] = c]
  BY <1>2
<1> HIDE DEF c
<1>5. /\ chunk' \in [Tasks -> Chunks] /\ chunk'[t] = c
      /\ \A u \in Tasks \ {t} : chunk'[u] = chunk[u]
  BY <1>3, <1>4 DEF MemTypes
<1>6. MemTypes'
  <2>1. memory' \subseteq Facts /\ facts' \subseteq Facts /\ behind' \subseteq Tasks
        /\ shaky' \in BOOLEAN
    BY DEF FactsStep, BehindStep
  <2> QED
    BY <1>1, <1>5, <2>1 DEF MemTypes
<1>7. StillAsking
  BY <1>1, <1>5 DEF StillAsking
<1>8. AskInv'
  <2>1. \A u \in Tasks : Len(messages[u[1]]) <= Len(messages[u[1]])
    BY DEF Tasks, MemTypes
  <2> QED
    BY <1>1, <1>6, <1>7, <2>1, AskShrinks DEF MemTypes
<1>9. SeenInv'
  BY <1>1, <1>3, <1>5, SeenStep
<1>10. trouble \in Nat /\ trouble' = trouble
  BY <1>1 DEF MemTypes
<1> QED
  BY <1>1, <1>6, <1>8, <1>9, <1>10, QuietSessions

\* It notes a fact in the file as it is.
LEMMA AgentEditsStep ==
  ASSUME MemInv, NEW t \in Tasks, NEW f \in Notes, AgentEdits(t, f)
  PROVE  MemInv'
<1> USE DEF MemInv
<1>1. /\ AgentAtFile(t) /\ memory' = memory \cup {f} /\ facts' = facts \cup {f}
      /\ chunk' = [chunk EXCEPT ![t].seen = @ \cup {f}]
      /\ behind' = behind \cup (Shown \ {t}) /\ shaky' = shaky
  BY DEF AgentEdits
<1> DEFINE fs == chunk[t].seen \cup {f}
<1>2. /\ fs \in SUBSET Facts /\ f \in Facts /\ t \in Shown
      /\ chunk' = [chunk EXCEPT ![t].seen = fs]
  BY <1>1 DEF Facts, MemTypes, Chunks, Shown, AgentAtFile
<1>3. FactsStep
  BY <1>1, <1>2 DEF FactsStep, MemTypes, SeenInv
<1>4. BehindStep(t)
  BY <1>1 DEF BehindStep, MemTypes, Shown
<1>5. fs \subseteq facts' /\ (~shaky' /\ t \notin behind' => fs = memory')
  BY <1>1, <1>2 DEF SeenInv
<1> HIDE DEF fs
<1> QED
  BY <1>1, <1>2, <1>3, <1>4, <1>5, AgentStep

\* It writes the file as it was shown to it.
LEMMA AgentWritesStep ==
  ASSUME MemInv, NEW t \in Tasks, NEW f \in Notes, AgentWrites(t, f)
  PROVE  MemInv'
<1> USE DEF MemInv
<1>1. /\ AgentAtFile(t) /\ Overwrites(t, chunk[t].seen \cup {f}) /\ facts' = facts \cup {f}
      /\ chunk' = [chunk EXCEPT ![t].seen = @ \cup {f}] /\ Rewritten(t)
  BY DEF AgentWrites
<1> DEFINE fs == chunk[t].seen \cup {f}
<1>2. /\ fs \in SUBSET Facts /\ {f} \in SUBSET Facts /\ t \in Shown
      /\ chunk' = [chunk EXCEPT ![t].seen = fs]
  BY <1>1 DEF Facts, MemTypes, Chunks, Shown, AgentAtFile
<1>3. FactsStep
  BY <1>1, <1>2, OverwritesStep
<1>4. BehindStep(t)
  BY <1>1, RewrittenStep
<1>5. fs = memory'
  BY <1>1 DEF Overwrites
<1>6. fs \subseteq facts'
  BY <1>3, <1>5 DEF FactsStep
<1> HIDE DEF fs
<1> QED
  BY <1>1, <1>2, <1>3, <1>4, <1>5, <1>6, AgentStep

\* It is shown the file again.
LEMMA AgentReadsStep == ASSUME MemInv, NEW t \in Tasks, AgentReads(t) PROVE MemInv'
<1> USE DEF MemInv
<1>1. /\ AgentAtFile(t) /\ chunk' = [chunk EXCEPT ![t].seen = memory] /\ ShownAnew(t)
      /\ UNCHANGED <<memory, facts, shaky>>
  BY DEF AgentReads
<1>2. FactsStep /\ BehindStep(t)
  BY <1>1, FactsStand, ShownAnewStep
<1>3. memory \in SUBSET Facts /\ memory \subseteq facts' /\ memory = memory'
  BY <1>1 DEF MemTypes, SeenInv
<1> QED
  BY <1>1, <1>2, <1>3, AgentStep

\* The turns are numbers that fit.
LEMMA OneMoreTurn ==
  ASSUME MemTypes, turns < MaxTurns, turns' = turns + 1
  PROVE  /\ turns \in Nat /\ turns' \in Nat /\ turns <= turns' /\ turns' \in 0..MaxTurns
         /\ 2 * turns' = 2 * turns + 2
BY MemoryAssumption DEF MemTypes

\* What a session has with the turn that ends.
LEMMA AddedGrown ==
  ASSUME MemTypes, IdInv, turns < MaxTurns, turns' = turns + 1,
         NEW s \in Sessions, NEW announced \in BOOLEAN, NEW m, m = Added(s, announced)
  PROVE  /\ Grown(s, m) /\ Starts(messages[s], m) /\ m \in Seq(Row)
         /\ \A i \in 1..Len(m) : i > Len(messages[s]) => m[i].id > 2 * turns
<1> DEFINE old == messages[s]
           b == 2 * turns
           c == 2 * turns'
<1>1. /\ m \in Seq(Row) /\ Len(m) <= Len(old) + 2 /\ Starts(old, m) /\ Rising(m)
      /\ \A i \in 1..Len(m) : i > Len(old) => m[i].id \in {b + 1, b + 2}
  BY AddedShape
<1>2. b \in Nat /\ c = b + 2
  BY OneMoreTurn
<1>3. old \in Seq(Row) /\ Len(old) <= b
  BY DEF MemTypes, IdInv
<1>4. ASSUME NEW i \in 1..Len(m)
      PROVE  /\ m[i].id <= c /\ (Has(s, m[i].id) \/ m[i].id > b)
             /\ i > Len(old) => m[i].id > b
  <2>1. CASE i <= Len(old)
    <3>1. i \in 1..Len(old) /\ m[i] = old[i]
      BY <1>1, <1>3, <2>1 DEF Starts
    <3>2. Has(s, m[i].id)
      BY <3>1 DEF Has
    <3>3. m[i].id <= b /\ m[i].id \in Nat
      BY <1>1, <3>2, RowIds DEF IdInv
    <3> HIDE DEF b, c, old
    <3> QED
      BY <1>2, <1>3, <2>1, <3>2, <3>3
  <2>2. CASE i > Len(old)
    <3>1. m[i].id \in {b + 1, b + 2}
      BY <1>1, <2>2
    <3> HIDE DEF b, c
    <3> QED
      BY <1>2, <3>1
  <2> QED
    BY <1>1, <1>3, <2>1, <2>2
<1>5. Len(m) <= c
  <2> HIDE DEF b, c
  <2> QED
    BY <1>1, <1>2, <1>3
<1> QED
  BY <1>1, <1>4, <1>5 DEF Grown

\* A turn ends; what can be loaded of its save is f.
LEMMA TurnStep ==
  ASSUME MemInv, NEW s \in Sessions, NEW announced \in BOOLEAN, TurnEnds(s, announced),
         NEW f \in MemFiles, file' = [file EXCEPT ![s] = f],
         Starts(f.messages, Added(s, announced)), f.last \in {0, last[s]},
         trouble' \in Nat, trouble <= trouble'
  PROVE  /\ messages' \in [Sessions -> Seq(Row)] /\ file' \in [Sessions -> MemFiles]
         /\ turns' \in 0..MaxTurns
         /\ \A u \in Sessions : Starts(messages[u], messages'[u])
         /\ IdInv' /\ OffsetInv' /\ HiddenInv' /\ CountInv'
<1> USE DEF MemInv
<1> DEFINE m == Added(s, announced)
<1>1. /\ turns < MaxTurns /\ turns' = turns + 1
      /\ messages' = [messages EXCEPT ![s] = m]
      /\ UNCHANGED <<last, archive, damaged>>
  BY DEF TurnEnds, Ending
<1>2. /\ Grown(s, m) /\ Starts(messages[s], m) /\ m \in Seq(Row)
      /\ \A i \in 1..Len(m) : i > Len(messages[s]) => m[i].id > 2 * turns
  BY <1>1, AddedGrown
<1>3. Starts(f.messages, m)
  OBVIOUS
<1> HIDE DEF m
<1>4. /\ messages \in [Sessions -> Seq(Row)] /\ last \in [Sessions -> Nat]
      /\ file \in [Sessions -> MemFiles]
      /\ archive \in [Messages -> Nat] /\ trouble \in Nat
  BY DEF MemTypes
<1>5. /\ messages' \in [Sessions -> Seq(Row)] /\ file' \in [Sessions -> MemFiles]
      /\ messages'[s] = m /\ file'[s] = f
      /\ \A u \in Sessions : u # s => messages'[u] = messages[u] /\ file'[u] = file[u]
  BY <1>1, <1>2, <1>4
<1>6. \A u \in Sessions : Starts(messages[u], messages'[u])
  BY <1>2, <1>4, <1>5, StartsItself
<1>7. Kept(s, m)
  <2>1. ASSUME NEW u \in Sessions, NEW x \in {messages'[u], file'[u].messages}
        PROVE  Starts(x, messages[u]) \/ Starts(x, file[u].messages) \/ (u = s /\ Starts(x, m))
    <3>1. CASE u = s
      BY <1>2, <1>3, <1>5, <2>1, <3>1, StartsItself
    <3>2. CASE u # s
      <4>1. messages[u] \in Seq(Row) /\ file[u].messages \in Seq(Row)
        BY <1>4 DEF MemFiles
      <4>2. x = messages[u] \/ x = file[u].messages
        BY <1>5, <2>1, <3>2
      <4> QED
        BY <4>1, <4>2, StartsItself
    <3> QED
      BY <3>1, <3>2
  <2> QED
    BY <2>1 DEF Kept
<1>8. turns \in Nat /\ turns' \in Nat /\ turns <= turns' /\ turns' \in 0..MaxTurns
  BY <1>1, OneMoreTurn
<1>9. IdInv'
  BY <1>2, <1>5, <1>7, <1>8, IdStep
<1> DEFINE b == 2 * turns
           c == 2 * turns'
<1>10. b <= c /\ b \in Nat /\ c \in Nat
  BY <1>8, Doubled
<1>11. OffsetInv'
  <2>1. \A u \in Sessions : last[u] <= b /\ last[u] \in Nat /\ file[u].last <= b
                            /\ file[u].last \in Nat
    BY <1>4 DEF OffsetInv, MemFiles
  <2> HIDE DEF b, c
  <2>2. ASSUME NEW u \in Sessions PROVE last'[u] <= c /\ file'[u].last <= c
    <3>1. f.last <= c /\ last[u] <= c /\ file[u].last <= c
      BY <1>10, <2>1
    <3> QED
      BY <1>1, <1>5, <3>1
  <2> QED
    BY <2>2 DEF OffsetInv, c
<1>12. HiddenInv'
  <2> SUFFICES ASSUME NEW u \in Sessions, ~damaged[u]
               PROVE  /\ last[u] <= Len(messages'[u])
                      /\ \A i \in 1..last[u] : archive[messages'[u][i].id] > 0
    BY <1>1 DEF HiddenInv
  <2>1. /\ last[u] <= Len(messages[u])
        /\ \A i \in 1..last[u] : archive[messages[u][i].id] > 0
    BY DEF HiddenInv
  <2>2. /\ Len(messages[u]) <= Len(messages'[u])
        /\ \A i \in 1..Len(messages[u]) : messages[u][i] = messages'[u][i]
    BY <1>6 DEF Starts
  <2>3. Len(messages[u]) \in Nat /\ Len(messages'[u]) \in Nat /\ last[u] \in Nat
    BY <1>4, <1>5
  <2> QED
    BY <2>1, <2>2, <2>3
<1>13. CountInv'
  <2>1. ASSUME NEW i \in Messages
        PROVE  archive[i] <= 1 + trouble' /\ (i > c => archive[i] = 0)
    <3>1. archive[i] <= 1 + trouble /\ (i > b => archive[i] = 0) /\ i \in Nat
      BY MemoryAssumption DEF CountInv, Messages
    <3>2. archive[i] \in Nat
      BY <1>4
    <3> HIDE DEF b, c
    <3> QED
      BY <1>4, <1>10, <3>1, <3>2
  <2>2. ASSUME NEW u \in Sessions, NEW p \in 1..Len(messages'[u]), p > last[u]
        PROVE  archive[messages'[u][p].id] <= trouble'
    <3> DEFINE id == messages'[u][p].id
    <3>1. id \in Messages
      BY <1>5, RowIds
    <3>2. archive[id] \in Nat
      BY <1>4, <3>1
    <3>3. Len(messages[u]) \in Nat
      BY <1>4
    <3>4. CASE p <= Len(messages[u])
      <4>1. p \in 1..Len(messages[u]) /\ messages'[u][p] = messages[u][p]
        BY <1>6, <3>3, <3>4 DEF Starts
      <4>2. archive[id] <= trouble
        BY <2>2, <4>1 DEF CountInv
      <4> HIDE DEF id
      <4>3. archive[id] <= trouble'
        BY <1>4, <3>2, <4>2
      <4> QED
        BY <4>3 DEF id
    <3>5. CASE p > Len(messages[u])
      <4>1. u = s
        BY <1>5, <2>2, <3>3, <3>5
      <4>2. id > 2 * turns
        BY <1>2, <1>5, <2>2, <3>5, <4>1
      <4>3. archive[id] = 0
        BY <3>1, <4>2 DEF CountInv
      <4> QED
        BY <4>3
    <3> QED
      BY <3>3, <3>4, <3>5
  <2> QED
    BY <1>1, <2>1, <2>2 DEF CountInv, c
<1> QED
  BY <1>5, <1>6, <1>8, <1>9, <1>11, <1>12, <1>13

\* The turn is done with; background tasks go on with what they ask for.
LEMMA TurnOver ==
  ASSUME MemInv, NEW s \in Sessions, NEW announced \in BOOLEAN, TurnEnds(s, announced),
         task' \in [Tasks -> {"off", "waiting", "asking", "running"}],
         \A u \in Tasks : task'[u] \in {"asking", "running"} => task'[u] = task[u],
         task'[<<s, Turn>>] = "off",
         messages' \in [Sessions -> Seq(Row)],
         \A u \in Sessions : Starts(messages[u], messages'[u])
  PROVE  AskInv' /\ SeenInv' /\ chunk' \in [Tasks -> Chunks] /\ behind' \subseteq Tasks
<1> USE DEF MemInv
<1> DEFINE t == <<s, Turn>>
<1>1. /\ UNCHANGED <<last, memory, facts, shaky>>
      /\ chunk' = [chunk EXCEPT ![t] = Nothing] /\ behind' = behind \ {t}
  BY DEF TurnEnds
<1>2. t \in Tasks /\ task'[t] = "off"
  BY DEF Tasks
<1> HIDE DEF t
<1>3. memory' \subseteq Facts
  BY <1>1 DEF MemTypes
<1>4. /\ chunk' \in [Tasks -> Chunks] /\ chunk'[t].seen = {}
      /\ \A u \in Tasks \ {t} : chunk'[u] = chunk[u]
  BY <1>1, <1>2, <1>3, NothingSeen DEF MemTypes
<1>5. StillAsking
  BY <1>2, <1>4 DEF StillAsking
<1>6. \A u \in Tasks : Len(messages[u[1]]) <= Len(messages'[u[1]])
  BY DEF Starts, Tasks
<1>7. AskInv'
  BY <1>1, <1>5, <1>6, AskShrinks DEF MemTypes
<1>8. FactsStep
  BY <1>1, FactsStand
<1>9. BehindStep(t)
  BY <1>1 DEF BehindStep, MemTypes
<1>10. SeenInv'
  BY <1>2, <1>4, <1>8, <1>9, SeenStep
<1> QED
  BY <1>1, <1>4, <1>7, <1>10 DEF MemTypes

\* A turn ends and is saved; a background task is to look at the session.
LEMMA EndTurnStep ==
  ASSUME MemInv, NEW s \in Sessions, NEW announced \in BOOLEAN, NEW b \in Backs,
         EndTurn(s, announced, b)
  PROVE  MemInv'
<1> USE DEF MemInv
<1> DEFINE m == Added(s, announced)
           f == Saved(last[s], m)
<1>1. /\ TurnEnds(s, announced) /\ file' = [file EXCEPT ![s] = f]
      /\ partial' = [partial EXCEPT ![s] = FALSE] /\ trouble' = trouble
      /\ task' = [task EXCEPT ![<<s, Turn>>] = "off", ![<<s, b>>] = "waiting"]
      /\ messages' = [messages EXCEPT ![s] = m]
      /\ UNCHANGED <<last, memory, archive, failures, damaged, facts, shaky>>
  BY DEF EndTurn, Save, NoTrouble, TurnEnds
<1>2. m \in Seq(Row) /\ last[s] \in Nat /\ trouble \in Nat
  BY <1>1, AddedShape DEF MemTypes, TurnEnds, Ending
<1> HIDE DEF m
<1>3. f \in MemFiles /\ f.messages = m /\ f.last = last[s] /\ Starts(m, m)
  BY <1>2, StartsItself DEF Saved, MemFiles
<1>4. Starts(f.messages, Added(s, announced)) /\ f.last \in {0, last[s]}
  BY <1>3 DEF m
<1>5. trouble' \in Nat /\ trouble <= trouble'
  BY <1>1, <1>2
<1> HIDE DEF f
<1>6. /\ messages' \in [Sessions -> Seq(Row)] /\ file' \in [Sessions -> MemFiles]
      /\ turns' \in 0..MaxTurns
      /\ \A u \in Sessions : Starts(messages[u], messages'[u])
      /\ IdInv' /\ OffsetInv' /\ HiddenInv' /\ CountInv'
  BY <1>1, <1>3, <1>4, <1>5, TurnStep
<1>7. /\ task' \in [Tasks -> {"off", "waiting", "asking", "running"}]
      /\ \A u \in Tasks : task'[u] \in {"asking", "running"} => task'[u] = task[u]
      /\ task'[<<s, Turn>>] = "off"
  BY <1>1, MemoryAssumption DEF MemTypes, Tasks, Turn
<1>8. AskInv' /\ SeenInv' /\ chunk' \in [Tasks -> Chunks] /\ behind' \subseteq Tasks
  <2> HIDE DEF MemInv
  <2>1. TurnEnds(s, announced)
    BY <1>1
  <2>2. messages' \in [Sessions -> Seq(Row)] /\ \A u \in Sessions : Starts(messages[u], messages'[u])
    BY <1>6
  <2> QED
    BY <1>7, <2>1, <2>2, TurnOver
<1>9. MemTypes'
  BY <1>1, <1>5, <1>6, <1>7, <1>8 DEF MemTypes
<1>10. SavedAsKept'
  BY <1>1, <1>2 DEF SavedAsKept, Saved, MemTypes, f
<1> QED
  BY <1>6, <1>9, <1>8, <1>10

\* A turn ends and its save does not.
LEMMA TurnSaveFailsStep ==
  ASSUME MemInv, NEW s \in Sessions, NEW announced \in BOOLEAN, TurnSaveFails(s, announced)
  PROVE  MemInv'
<1> USE DEF MemInv
<1> DEFINE m == Added(s, announced)
<1>1. /\ TurnEnds(s, announced) /\ trouble' = trouble + 1
      /\ partial' = [partial EXCEPT ![s] = TRUE]
      /\ task' = [task EXCEPT ![<<s, Turn>>] = "off"]
      /\ messages' = [messages EXCEPT ![s] = m]
      /\ UNCHANGED <<last, memory, archive, failures, damaged, facts, shaky>>
  BY DEF TurnSaveFails, SaveBreaks, Trouble, Mishaps, TurnEnds
<1>2. PICK f \in Interrupted(last[s], m) : file' = [file EXCEPT ![s] = f]
  BY DEF TurnSaveFails, SaveBreaks
<1>3. m \in Seq(Row) /\ last[s] \in Nat /\ trouble \in Nat
  BY <1>1, AddedShape DEF MemTypes, TurnEnds, Ending
<1>4. f \in MemFiles /\ f.last \in {0, last[s]} /\ Starts(f.messages, m)
  BY <1>2, <1>3, InterruptedShape
<1>5. trouble' \in Nat /\ trouble <= trouble'
  BY <1>1, <1>3
<1>6. /\ messages' \in [Sessions -> Seq(Row)] /\ file' \in [Sessions -> MemFiles]
      /\ turns' \in 0..MaxTurns
      /\ \A u \in Sessions : Starts(messages[u], messages'[u])
      /\ IdInv' /\ OffsetInv' /\ HiddenInv' /\ CountInv'
  BY <1>1, <1>2, <1>4, <1>5, TurnStep
<1>7. /\ task' \in [Tasks -> {"off", "waiting", "asking", "running"}]
      /\ \A u \in Tasks : task'[u] \in {"asking", "running"} => task'[u] = task[u]
      /\ task'[<<s, Turn>>] = "off"
  BY <1>1, MemoryAssumption DEF MemTypes, Tasks, Turn
<1>8. AskInv' /\ SeenInv' /\ chunk' \in [Tasks -> Chunks] /\ behind' \subseteq Tasks
  <2> HIDE DEF MemInv
  <2>1. TurnEnds(s, announced)
    BY <1>1
  <2>2. messages' \in [Sessions -> Seq(Row)] /\ \A u \in Sessions : Starts(messages[u], messages'[u])
    BY <1>6
  <2> QED
    BY <1>7, <2>1, <2>2, TurnOver
<1>9. MemTypes'
  BY <1>1, <1>5, <1>6, <1>7, <1>8 DEF MemTypes
<1>10. SavedAsKept'
  BY <1>1, <1>2, <1>3 DEF SavedAsKept, Saved, MemTypes
<1> QED
  BY <1>6, <1>9, <1>8, <1>10

-----------------------------------------------------------------------------
(* Restarts.                                                               *)

\* What is loaded was in the files, or is the start of what one session has by
\* then; the archive may have a chunk already.
LEMMA RestartStep ==
  ASSUME MemInv, NEW broken \in SUBSET Sessions, Restart(broken),
         file' \in [Sessions -> MemFiles], \A s \in Sessions \ broken : file'[s] = file[s],
         archive' \in [Messages -> Nat],
         \A i \in Messages : archive[i] <= archive'[i] /\ archive'[i] <= 1 + trouble,
         \A i \in Messages : i > 2 * turns' => archive'[i] = 0,
         turns' \in 0..MaxTurns, FactsStep,
         IdInv', \A s \in Sessions : file'[s].last <= 2 * turns'
  PROVE  MemInv'
<1> USE DEF MemInv
<1>1. /\ messages' = [s \in Sessions |-> file'[s].messages]
      /\ last' = [s \in Sessions |-> file'[s].last]
      /\ task' = [t \in Tasks |-> "off"] /\ chunk' = [t \in Tasks |-> Nothing]
      /\ failures' = 0 /\ trouble' = trouble + 1 /\ behind' = {}
      /\ partial' = [s \in Sessions |-> FALSE]
      /\ damaged' = [s \in Sessions |-> damaged[s] \/ partial[s] \/ s \in broken]
  BY DEF Restart, Trouble, Mishaps
<1>2. trouble \in Nat /\ archive \in [Messages -> Nat]
  BY DEF MemTypes
<1>3. \A s \in Sessions : file'[s].messages \in Seq(Row) /\ file'[s].last \in Nat
  BY DEF MemFiles
<1>4. MemTypes'
  <2>1. /\ memory' \subseteq Facts /\ facts' \subseteq Facts /\ shaky' \in BOOLEAN
        /\ Nothing \in Chunks /\ failures' \in 0..(MaxFailures - 1)
    BY <1>1, MemoryAssumption, NothingSeen DEF FactsStep
  <2>2. damaged' \in [Sessions -> BOOLEAN]
    BY <1>1 DEF MemTypes
  <2>3. trouble' \in Nat
    BY <1>1, <1>2
  <2>4. /\ task' \in [Tasks -> {"off", "waiting", "asking", "running"}]
        /\ chunk' \in [Tasks -> Chunks]
    BY <1>1, <2>1
  <2>5. messages' \in [Sessions -> Seq(Row)] /\ last' \in [Sessions -> Nat]
    BY <1>1, <1>3
  <2> QED
    BY <1>1, <2>1, <2>2, <2>3, <2>4, <2>5 DEF MemTypes
<1>5. \A t \in Tasks : task'[t] = "off" /\ chunk'[t].seen = {}
  BY <1>1 DEF Nothing
<1>6. AskInv' /\ SeenInv'
  BY <1>5 DEF AskInv, SeenInv, Shown, FactsStep
<1>7. OffsetInv'
  BY <1>1 DEF OffsetInv
<1>8. SavedAsKept'
  BY <1>1 DEF SavedAsKept, Saved, MemFiles
<1>9. HiddenInv'
  <2> SUFFICES ASSUME NEW s \in Sessions, ~damaged'[s]
               PROVE  /\ last'[s] <= Len(messages'[s])
                      /\ \A i \in 1..last'[s] : archive'[messages'[s][i].id] > 0
    BY DEF HiddenInv
  <2>1. ~damaged[s] /\ ~partial[s] /\ s \notin broken
    BY <1>1
  <2>2. messages'[s] = messages[s] /\ last'[s] = last[s]
    <3>1. file'[s] = [last |-> last[s], messages |-> messages[s]]
      BY <2>1 DEF SavedAsKept, Saved
    <3> QED
      BY <1>1, <3>1
  <2>3. /\ last[s] <= Len(messages[s])
        /\ \A i \in 1..last[s] : archive[messages[s][i].id] > 0
    BY <2>1 DEF HiddenInv
  <2>4. messages[s] \in Seq(Row) /\ last[s] \in Nat
    BY DEF MemTypes
  <2>5. \A i \in 1..last[s] : messages[s][i].id \in Messages
    BY <2>3, <2>4, RowIds
  <2> QED
    BY <1>2, <2>2, <2>3, <2>5
<1>10. CountInv'
  <2>1. \A i \in Messages : archive'[i] <= trouble' /\ archive'[i] <= 1 + trouble'
    BY <1>1, <1>2
  <2>2. \A s \in Sessions : \A p \in 1..Len(messages'[s]) :
          messages'[s][p].id \in Messages
    BY <1>1, <1>3, RowIds
  <2> QED
    BY <2>1, <2>2 DEF CountInv
<1> QED
  BY <1>4, <1>6, <1>7, <1>8, <1>9, <1>10

\* What is archived so far is within the bounds of a restart.
LEMMA ArchiveSoFar ==
  ASSUME MemInv
  PROVE  /\ archive \in [Messages -> Nat]
         /\ \A i \in Messages : archive[i] <= archive[i] /\ archive[i] <= 1 + trouble
         /\ \A i \in Messages : i > 2 * turns => archive[i] = 0
<1>1. archive \in [Messages -> Nat]
  BY DEF MemInv, MemTypes
<1> QED
  BY <1>1 DEF MemInv, CountInv

\* The process is killed between two steps that write.
LEMMA KillBetweenStep == ASSUME MemInv, KillBetween PROVE MemInv'
<1> USE DEF MemInv
<1>1. UNCHANGED <<file, memory, archive, turns, facts, shaky>> /\ Restart({})
  BY DEF KillBetween
<1>2. file' \in [Sessions -> MemFiles] /\ messages' \in [Sessions -> Seq(Row)]
      /\ turns' \in 0..MaxTurns
  BY <1>1 DEF MemTypes, Restart, MemFiles
<1>3. IdInv'
  <2>1. ASSUME NEW s \in Sessions, NEW x \in {messages'[s], file'[s].messages}
        PROVE  Starts(x, file[s].messages)
    <3>1. x = file[s].messages /\ x \in Seq(Row)
      BY <1>1, <1>2, <2>1 DEF Restart, MemTypes, MemFiles
    <3> QED
      BY <3>1, StartsItself
  <2> QED
    BY <1>1, <1>2, <2>1, IdStay
<1>4. \A s \in Sessions : file'[s].last <= 2 * turns'
  BY <1>1 DEF OffsetInv
<1>5. FactsStep
  BY <1>1, FactsStand
<1>6. /\ archive' \in [Messages -> Nat]
      /\ \A i \in Messages : archive[i] <= archive'[i] /\ archive'[i] <= 1 + trouble
      /\ \A i \in Messages : i > 2 * turns' => archive'[i] = 0
  BY <1>1, ArchiveSoFar
<1> QED
  BY <1>1, <1>2, <1>3, <1>4, <1>5, <1>6, RestartStep

\* The process is killed while it saves a turn.
LEMMA KillInTurnSaveStep ==
  ASSUME MemInv, NEW s \in Sessions, NEW announced \in BOOLEAN,
         KillInTurnSave(s, announced)
  PROVE  MemInv'
<1> USE DEF MemInv
<1> DEFINE m == Added(s, announced)
<1>1. /\ turns < MaxTurns /\ turns' = turns + 1
      /\ UNCHANGED <<memory, archive, facts, shaky>> /\ Restart({s})
  BY DEF KillInTurnSave, Ending
<1>2. PICK f \in Interrupted(last[s], m) : file' = [file EXCEPT ![s] = f]
  BY DEF KillInTurnSave
<1>3. Grown(s, m) /\ m \in Seq(Row) /\ last[s] \in Nat
  BY <1>1, AddedGrown DEF MemTypes
<1> HIDE DEF m
<1>4. f \in MemFiles /\ f.last \in {0, last[s]} /\ Starts(f.messages, m)
  BY <1>2, <1>3, InterruptedShape
<1>5. turns \in Nat /\ turns' \in Nat /\ turns <= turns' /\ turns' \in 0..MaxTurns
  BY <1>1, OneMoreTurn
<1>6. /\ file \in [Sessions -> MemFiles] /\ file' \in [Sessions -> MemFiles] /\ file'[s] = f
      /\ \A u \in Sessions : u # s => file'[u] = file[u]
  BY <1>2, <1>4 DEF MemTypes
<1>7. /\ messages' = [u \in Sessions |-> file'[u].messages]
      /\ messages' \in [Sessions -> Seq(Row)]
  BY <1>1, <1>6 DEF Restart, MemFiles
<1>8. IdInv'
  <2>1. ASSUME NEW u \in Sessions, NEW x \in {messages'[u], file'[u].messages}
        PROVE  Starts(x, file[u].messages) \/ (u = s /\ Starts(x, m))
    <3>1. x = file'[u].messages
      BY <1>7, <2>1
    <3>2. file[u].messages \in Seq(Row)
      BY <1>6 DEF MemFiles
    <3> QED
      BY <1>4, <1>6, <3>1, <3>2, StartsItself
  <2>2. Kept(s, m)
    BY <2>1 DEF Kept
  <2> QED
    BY <1>3, <1>5, <1>6, <1>7, <2>2, IdStep
<1> DEFINE b == 2 * turns
           c == 2 * turns'
<1>9. b <= c /\ b \in Nat /\ c \in Nat
  BY <1>5, Doubled
<1>10. \A u \in Sessions : file'[u].last <= c
  <2>1. \A u \in Sessions : last[u] <= b /\ last[u] \in Nat /\ file[u].last <= b
                            /\ file[u].last \in Nat
    BY <1>6 DEF OffsetInv, MemTypes, MemFiles
  <2> HIDE DEF b, c
  <2>2. ASSUME NEW u \in Sessions PROVE file'[u].last <= c
    <3>1. f.last <= c /\ last[u] <= c /\ file[u].last <= c
      BY <1>4, <1>9, <2>1
    <3> QED
      BY <1>6, <3>1
  <2> QED
    BY <2>2
<1>11. /\ archive' \in [Messages -> Nat]
       /\ \A i \in Messages : archive[i] <= archive'[i] /\ archive'[i] <= 1 + trouble
       /\ \A i \in Messages : i > c => archive'[i] = 0
  <2>1. /\ archive \in [Messages -> Nat]
        /\ \A i \in Messages : archive[i] <= archive[i] /\ archive[i] <= 1 + trouble
        /\ \A i \in Messages : i > b => archive[i] = 0
    BY ArchiveSoFar
  <2>2. \A i \in Messages : i \in Nat
    BY MemoryAssumption DEF Messages
  <2> HIDE DEF b, c
  <2> QED
    BY <1>1, <1>9, <2>1, <2>2
<1>12. FactsStep
  BY <1>1, FactsStand
<1> QED
  BY <1>1, <1>5, <1>6, <1>8, <1>10, <1>11, <1>12, RestartStep

\* The process is killed while it consolidates.
LEMMA KillInConsolidationStep ==
  ASSUME MemInv, NEW t \in Tasks, KillInConsolidation(t) PROVE MemInv'
<1> USE DEF MemInv
<1> DEFINE e == chunk[t].end
           h == t[1]
<1>1. task[t] = "asking" /\ Archived(t, 1) /\ turns' = turns
      /\ (\/ UNCHANGED <<memory, facts, shaky>>
          \/ Truncates /\ UNCHANGED facts
          \/ MemoryUpdated(t))
  BY DEF KillInConsolidation
<1>2. /\ h \in Sessions /\ messages[h] \in Seq(Row) /\ Chunk(t) \subseteq Messages
      /\ chunk[t] \in Chunks /\ e \in Nat
  BY <1>1, ChunkShape DEF MemTypes
<1>3. /\ archive' \in [Messages -> Nat]
      /\ \A i \in Messages : archive[i] <= archive'[i] /\ archive'[i] <= 1 + trouble
      /\ \A i \in Messages : i > 2 * turns' => archive'[i] = 0
  BY <1>1, ArchivedShape
<1>4. FactsStep
  BY <1>1, FactsStand, TruncatesStep, UpdatedStep
<1>5. PICK broken \in {{}, {h}} :
        /\ Restart(broken) /\ file' \in [Sessions -> MemFiles]
        /\ \A s \in Sessions \ broken : file'[s] = file[s]
        /\ \A s \in broken : /\ file'[s].last \in {0, e}
                             /\ Starts(file'[s].messages, messages[s])
  <2>1. CASE UNCHANGED file /\ Restart({})
    BY <2>1 DEF MemTypes
  <2>2. ASSUME NEW f \in Interrupted(e, messages[h]), file' = [file EXCEPT ![h] = f],
               Restart({h})
        PROVE  \E broken \in {{}, {h}} :
                 /\ Restart(broken) /\ file' \in [Sessions -> MemFiles]
                 /\ \A s \in Sessions \ broken : file'[s] = file[s]
                 /\ \A s \in broken : /\ file'[s].last \in {0, e}
                                      /\ Starts(file'[s].messages, messages[s])
    <3>1. f \in MemFiles /\ f.last \in {0, e} /\ Starts(f.messages, messages[h])
      BY <1>2, <2>2, InterruptedShape
    <3>2. /\ file' \in [Sessions -> MemFiles] /\ file'[h] = f
          /\ \A s \in Sessions \ {h} : file'[s] = file[s]
      BY <1>2, <2>2, <3>1 DEF MemTypes
    <3> QED
      BY <2>2, <3>1, <3>2
  <2> QED
    BY <2>1, <2>2 DEF KillInConsolidation, Offset
<1>6. broken \in SUBSET Sessions
  BY <1>2
<1>7. /\ messages' = [s \in Sessions |-> file'[s].messages]
      /\ messages' \in [Sessions -> Seq(Row)]
  BY <1>5 DEF Restart, MemFiles
<1>8. IdInv'
  <2>1. ASSUME NEW s \in Sessions, NEW x \in {messages'[s], file'[s].messages}
        PROVE  Starts(x, messages[s]) \/ Starts(x, file[s].messages)
    <3>1. x = file'[s].messages
      BY <1>7, <2>1
    <3>2. file[s].messages \in Seq(Row)
      BY DEF MemTypes, MemFiles
    <3> QED
      BY <1>5, <3>1, <3>2, StartsItself
  <2> QED
    BY <1>1, <1>5, <1>7, <2>1, IdStay
<1>9. \A s \in Sessions : file'[s].last <= 2 * turns'
  <2>1. e <= 2 * turns
    <3>1. e < Len(messages[h]) /\ Len(messages[h]) <= 2 * turns /\ Len(messages[h]) \in Nat
      BY <1>1, <1>2, ChunkShape DEF IdInv
    <3>2. 2 * turns \in Nat
      BY Doubled DEF MemTypes
    <3> QED
      BY <1>2, <3>1, <3>2
  <2>2. 0 <= 2 * turns
    BY DEF MemTypes
  <2> QED
    BY <1>1, <1>5, <2>1, <2>2 DEF OffsetInv
<1>10. turns' \in 0..MaxTurns
  BY <1>1 DEF MemTypes
<1> QED
  BY <1>3, <1>4, <1>5, <1>6, <1>8, <1>9, <1>10, RestartStep

-----------------------------------------------------------------------------
(* The theorems.                                                           *)

\* Initially nothing has been said.
LEMMA InitMem == ASSUME MemInit PROVE MemInv
<1> USE DEF MemInit
<1> DEFINE e == <<>>
<1>1. e \in Seq(Row) /\ Rising(e) /\ Len(e) = 0 /\ 1..Len(e) = {}
  BY NothingAdded
<1>2. messages = [s \in Sessions |-> e] /\ file = [s \in Sessions |-> Saved(0, e)]
  OBVIOUS
<1> HIDE DEF e
<1>3. Nothing \in Chunks /\ Saved(0, e) \in MemFiles /\ Saved(0, e).messages = e
      /\ Saved(0, e).last = 0
  BY <1>1, MemoryAssumption DEF Nothing, Chunks, Saved, MemFiles
<1> DEFINE f == Saved(0, e)
<1>4. file = [s \in Sessions |-> f] /\ f \in MemFiles /\ f.messages = e /\ f.last = 0
  BY <1>2, <1>3
<1>5. Nothing \in Chunks
  BY <1>3
<1> HIDE DEF f
<1>6. MemTypes
  <2>1. messages \in [Sessions -> Seq(Row)] /\ file \in [Sessions -> MemFiles]
    BY <1>1, <1>2, <1>4
  <2>2. failures \in 0..(MaxFailures - 1) /\ turns \in 0..MaxTurns
    BY MemoryAssumption
  <2>3. /\ chunk \in [Tasks -> Chunks]
        /\ task \in [Tasks -> {"off", "waiting", "asking", "running"}]
    BY <1>5
  <2> QED
    BY <2>1, <2>2, <2>3 DEF MemTypes
<1>7. ASSUME NEW s \in Sessions
      PROVE  /\ messages[s] = e /\ file[s] = f /\ last[s] = 0
             /\ file[s].messages = e /\ file[s].last = 0
  BY <1>2, <1>4
<1>8. \A s \in Sessions : \A i : ~Has(s, i)
  BY <1>1, <1>7 DEF Has
<1>9. IdInv /\ OffsetInv
  BY <1>1, <1>7, <1>8 DEF IdInv, OffsetInv
<1>10. AskInv /\ SeenInv
  BY DEF AskInv, SeenInv, Shown, Nothing
<1>11. HiddenInv /\ CountInv
  BY <1>1, <1>7 DEF HiddenInv, CountInv
<1>12. SavedAsKept
  BY <1>7 DEF SavedAsKept, f
<1> QED
  BY <1>6, <1>9, <1>10, <1>11, <1>12 DEF MemInv

\* Every step keeps the invariant.
LEMMA NextMem == ASSUME MemInv, [MemNext]_memVars PROVE MemInv'
<1>1. ASSUME NEW t \in Tasks,
             \/ Consolidate(t) \/ Unusable(t) \/ MemoryWriteFails(t)
             \/ KillInConsolidation(t) \/ AgentReads(t)
      PROVE  MemInv'
  BY <1>1, ConsolidateStep, UnusableStep, MemoryWriteFailsStep, KillInConsolidationStep,
     AgentReadsStep
<1>2. ASSUME NEW t \in Tasks, NEW mishaps \in 0..1,
             Answered(t, mishaps) \/ OffsetSaveFails(t, mishaps)
      PROVE  MemInv'
  BY <1>2, AnsweredStep, OffsetSaveFailsStep
<1>3. ASSUME NEW t \in Tasks, NEW f \in Notes, AgentEdits(t, f) \/ AgentWrites(t, f)
      PROVE  MemInv'
  BY <1>3, AgentEditsStep, AgentWritesStep
<1>4. ASSUME NEW s \in Sessions, StartTurn(s) PROVE MemInv'
  BY <1>4, StartTurnStep
<1>5. ASSUME NEW s \in Sessions, NEW announced \in BOOLEAN, NEW b \in Backs,
             EndTurn(s, announced, b)
      PROVE  MemInv'
  BY <1>5, EndTurnStep
<1>6. ASSUME NEW s \in Sessions, NEW announced \in BOOLEAN,
             TurnSaveFails(s, announced) \/ KillInTurnSave(s, announced)
      PROVE  MemInv'
  BY <1>6, TurnSaveFailsStep, KillInTurnSaveStep
<1>7. CASE KillBetween
  BY <1>7, KillBetweenStep
<1>8. CASE UNCHANGED memVars
  <2>1. UNCHANGED <<messages, last, file, memory, archive, failures, task, chunk, turns,
                    trouble, partial, damaged, facts, behind, shaky>>
    BY <1>8 DEF memVars
  <2>2. \A s \in Sessions : \A i : Has(s, i)' <=> Has(s, i)
    BY <2>1 DEF Has
  <2>3. MemTypes' /\ AskInv' /\ OffsetInv'
    BY <2>1 DEF MemInv, MemTypes, AskInv, OffsetInv
  <2>4. IdInv'
    BY <2>1, <2>2 DEF MemInv, IdInv, Rising
  <2>5. HiddenInv' /\ CountInv' /\ SavedAsKept' /\ SeenInv'
    BY <2>1 DEF MemInv, HiddenInv, CountInv, SavedAsKept, Saved, SeenInv, Shown
  <2> QED
    BY <2>3, <2>4, <2>5 DEF MemInv
<1> QED
  BY <1>1, <1>4, <1>5, <1>6, <1>7, <1>8, <1>2, <1>3 DEF MemNext

\* The invariant holds in every run.
THEOREM MemoryRuns == MemSpec => []MemInv
BY InitMem, NextMem, PTL DEF MemSpec

\* Every variable keeps to its domain.
THEOREM MemoryTypes == MemSpec => []MemTypeOK
<1>1. ASSUME MemInv PROVE MemTypeOK
  <2>1. \A s \in Sessions : \A i \in 1..Len(messages[s]) :
          messages[s][i] \in [role : {"user", "assistant"}, id : Messages]
    <3>1. \A s \in Sessions : messages[s] \in Seq(Row)
      BY <1>1 DEF MemInv, MemTypes
    <3>2. \A s \in Sessions : \A i \in 1..Len(messages[s]) : messages[s][i] \in Row
      BY <3>1
    <3> QED
      BY <3>2 DEF Row
  <2>2. last \in [Sessions -> 0..(2 * MaxTurns)]
    <3>1. turns \in Nat /\ turns <= MaxTurns /\ last \in [Sessions -> Nat]
      BY <1>1, MemoryAssumption DEF MemInv, MemTypes
    <3>2. 2 * turns <= 2 * MaxTurns /\ 2 * turns \in Nat /\ 2 * MaxTurns \in Nat
      BY <3>1, MemoryAssumption, Doubled
    <3> DEFINE b == 2 * turns
               c == 2 * MaxTurns
    <3>3. OffsetInv
      BY <1>1 DEF MemInv
    <3>4. ASSUME NEW s \in Sessions PROVE last[s] <= b /\ last[s] \in Nat
      BY <3>1, <3>3 DEF OffsetInv
    <3>5. b <= c /\ b \in Nat /\ c \in Nat
      BY <3>2
    <3> HIDE DEF b, c
    <3>6. ASSUME NEW s \in Sessions PROVE last[s] \in 0..c
      BY <3>4, <3>5
    <3>7. last \in [Sessions -> 0..c]
      BY <3>1, <3>6
    <3> QED
      BY <3>7 DEF c
  <2>3. \A t \in Tasks : chunk[t].round \in 0..MaxRounds /\ chunk[t].seen \subseteq Facts
    BY <1>1 DEF MemInv, MemTypes, Chunks
  <2> QED
    BY <1>1, <2>1, <2>2, <2>3 DEF MemInv, MemTypes, MemTypeOK
<1> QED
  BY <1>1, MemoryRuns, PTL

\* A message the prompt no longer has is in HISTORY.md, and no message is there
\* more than once but for the kills and failed saves in between
\* (_memory.py, maybe_consolidate_by_tokens).
THEOREM NothingForgotten == MemSpec => []HiddenIsArchived
<1>1. ASSUME MemInv PROVE HiddenIsArchived
  BY <1>1 DEF MemInv, HiddenInv, CountInv, HiddenIsArchived
<1> QED
  BY <1>1, MemoryRuns, PTL

\* Unless its last save did not end, a session is on the disk as it is in memory
\* (SessionManager.save and its callers).
THEOREM KeptAsSaved == MemSpec => []SavedAsKept
<1>1. ASSUME MemInv PROVE SavedAsKept
  BY <1>1 DEF MemInv
<1> QED
  BY <1>1, MemoryRuns, PTL

\* MEMORY.md loses a fact only when a consolidation or an agent wrote over what
\* another one had written since the file was shown to it, or the file was truncated
\* (MemoryStore.consolidate, WriteFileTool).
THEOREM FactsStay == MemSpec => []MemoryKeepsFacts
<1>1. ASSUME MemInv PROVE MemoryKeepsFacts
  BY <1>1 DEF MemInv, SeenInv, MemoryKeepsFacts
<1> QED
  BY <1>1, MemoryRuns, PTL
=============================================================================
