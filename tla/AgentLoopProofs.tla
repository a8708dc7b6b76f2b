-------------------------- MODULE AgentLoopProofs --------------------------
(***************************************************************************)
(* Theorems about the agent loop, for every set of messages and subagents  *)
(* and every bound; at the end, that it implements the dispatcher.         *)
(***************************************************************************)
EXTENDS AgentLoop, TLAPS, FiniteSetTheorems, SequenceTheorems, WellFoundedInduction

USE MessageAssumption, BoundAssumption, BatchAssumption

-----------------------------------------------------------------------------
(* Types of the operators the actions are built from.                       *)

\* Messages are processed in sessions and dispatched under keys.
LEMMA KeyType ==
  ASSUME TypeOK, NEW m \in M
  PROVE  Session(m) \in Sessions /\ Key(m) \in Keys
BY DEF TypeOK, M, Session, Key, Keys, KeyKinds

\* History entries of a turn.
LEMMA EntryType ==
  ASSUME TypeOK, NEW m \in M
  PROVE  /\ Calls(m) \in Entry /\ Results(m) \in Entry
         /\ Interrupted(m) \in Entry /\ Final(m) \in Entry
         /\ AwaitingTools(m) \in Seq(Entry) /\ ToolsCompleted(m) \in Seq(Entry)
<1>1. iter[m] \in Nat
  BY DEF TypeOK
<1>2. Calls(m) \in Entry /\ Results(m) \in Entry /\ Interrupted(m) \in Entry /\ Final(m) \in Entry
  BY <1>1 DEF Calls, Results, Interrupted, Final, Entry, Kinds
<1> QED BY <1>2 DEF AwaitingTools, ToolsCompleted

\* The input, injected results and answers.
LEMMA InputType ==
  ASSUME NEW m \in M, NEW h, NEW it \in Nat
  PROVE  Input(m, h) \in Seq(Entry) /\ Injected(m, it) \in Seq(Entry)
<1>1. [turn |-> m, it |-> 0, is |-> "input"] \in Entry /\ [turn |-> m, it |-> it, is |-> "injected"] \in Entry
  BY DEF Entry, Kinds
<1> QED BY <1>1 DEF Input, Injected

\* What _process_message returns is a list of replies.
LEMMA AnswerType ==
  ASSUME TypeOK, NEW m \in M
  PROVE  Answer(m) \in Seq(Reply)
<1>1. \A is \in {"answer", "empty"} : [msg |-> m, to |-> <<"chat", Session(m)>>, is |-> is] \in Reply
  BY KeyType DEF Reply
<1> QED BY <1>1 DEF Answer

\* What remains of the messages of a turn when the last one is replaced.
LEMMA AppendFinalType ==
  ASSUME TypeOK, NEW m \in M, NEW b \in Seq(Entry)
  PROVE  AppendFinal(m, b) \in Seq(Entry)
<1>1. Final(m) \in Entry
  BY EntryType
<1>2. CASE b = <<>>
  BY <1>1, <1>2 DEF AppendFinal, TypeOK
<1>3. CASE b # <<>>
  <2>1. SubSeq(b, 1, Len(b) - 1) \in Seq(Entry)
    BY <1>3
  <2> QED BY <1>1, <1>3, <2>1 DEF AppendFinal, TypeOK
<1> QED BY <1>2, <1>3

\* A history and a checkpoint have a longest overlap.
LEMMA OverlapType ==
  ASSUME NEW S, NEW h \in Seq(S), NEW r \in Seq(S)
  PROVE  Overlap(h, r) \in 0..Len(r)
<1> DEFINE T == {k \in Nat : k <= Len(r) /\ Len(r) - k \in Overlaps(h, r)}
<1>1. Overlaps(h, r) \subseteq 0..Len(r)
  BY DEF Overlaps
<1>2. 0 \in Overlaps(h, r)
  <2>1. SubSeq(h, Len(h) - 0 + 1, Len(h)) = <<>> /\ SubSeq(r, 1, 0) = <<>>
    OBVIOUS
  <2> QED BY <2>1 DEF Overlaps
<1>3. Len(r) \in T
  BY <1>2
<1>4. \E x \in T : \A y \in T : ~ (<<y, x>> \in OpToRel(<, Nat))
  <2>1. T \subseteq Nat /\ T # {}
    BY <1>3
  <2> HIDE DEF T
  <2> QED BY <2>1, WFMin, NatLessThanWellFounded
<1>5. PICK x \in T : \A y \in T : ~ (y < x)
  BY <1>4 DEF OpToRel
<1>6. \A k \in Overlaps(h, r) : k <= Len(r) - x
  <2> TAKE k \in Overlaps(h, r)
  <2>1. k \in 0..Len(r) /\ Len(r) - (Len(r) - k) = k
    BY <1>1
  <2>2. Len(r) - k \in T
    BY <2>1
  <2> QED BY <1>5, <2>1, <2>2
<1> QED BY <1>1, <1>5, <1>6 DEF Overlap

\* A history completed from a checkpoint is a history.
LEMMA RestoredType ==
  ASSUME NEW h \in Seq(Entry), NEW r \in Seq(Entry)
  PROVE  Restored(h, r) \in Seq(Entry)
<1>1. Overlap(h, r) \in 0..Len(r)
  BY OverlapType
<1>2. SubSeq(r, Overlap(h, r) + 1, Len(r)) \in Seq(Entry)
  BY <1>1
<1> QED BY <1>2 DEF Restored

-----------------------------------------------------------------------------
(* The invariant.  TypeOK alone is not inductive: that a lock's queue stays  *)
(* a queue when its holder releases it needs that it has a holder, and that  *)
(* a message keeps its key needs that its origin is settled by then.         *)

Holding(m) == pc[m] \in {"gate", "begin", "model", "tools"}

\* A subagent's announcement is not under way before the subagent has started.
SubInv == \A x \in Subs : sub[x] \in {"free", "called", "running"} => pc[x] = "new"

\* A subagent waits to be started in one place at most.
TodoInv ==
  /\ \A m \in M : pc[m] # "tools" => todo[m] = <<>>
  /\ \A m \in M : \A i \in 1..Len(todo[m]) :
       todo[m][i] \in Subs => sub[todo[m][i]] = "called"
  /\ \A m, n \in M : \A i \in 1..Len(todo[m]), j \in 1..Len(todo[n]) :
       todo[m][i] \in Subs /\ todo[m][i] = todo[n][j] => m = n /\ i = j

\* A message waits for its lock in the lock's queue, and holds it at its head.
LockInv ==
  \A m \in M :
    /\ pc[m] = "lock" => \E i \in 1..Len(lockQ[Key(m)]) : lockQ[Key(m)][i] = m
    /\ Holding(m) => lockQ[Key(m)] # <<>> /\ Head(lockQ[Key(m)]) = m

\* A message waits for the gate in the gate's queue.
GateInv == \A m \in M : pc[m] = "gate" => \E i \in 1..Len(gateQ) : gateQ[i] = m

\* Messages are published once, and dispatched in that order.
QueueInv ==
  /\ consumed <= Len(inbound)
  /\ \A i \in 1..Len(inbound) :
       IF i <= consumed THEN pc[inbound[i]] \notin {"new", "inbound"}
                        ELSE pc[inbound[i]] = "inbound"
  /\ \A i, j \in 1..Len(inbound) : inbound[i] = inbound[j] => i = j

IInv == TypeOK /\ SubInv /\ TodoInv /\ LockInv /\ GateInv /\ QueueInv

\* The initial states satisfy the invariant.
LEMMA InitIInv == Init => IInv
<1> SUFFICES ASSUME Init PROVE IInv
  OBVIOUS
<1>1. TypeOK
  <2>1. /\ inbound \in Seq(M) /\ consumed \in Nat /\ outbound \in Seq(Reply) /\ gateQ \in Seq(M)
        /\ lockQ \in [Keys -> Seq(M)] /\ hist \in [Sessions -> Seq(Entry)]
        /\ ckpt \in [Sessions -> Seq(Entry)] /\ buf \in [M -> Seq(Entry)]
        /\ todo \in [M -> Seq(Tools \cup {"asleep"} \cup Subs)]
    BY DEF Init
  <2>0. /\ running \in BOOLEAN /\ polling \in BOOLEAN /\ fed \in [M -> BOOLEAN]
        /\ sentInTurn \in BOOLEAN
    BY Zenon DEF Init
  <2>2. /\ iter \in [M -> 0..(MaxIter - 1)] /\ toolCtx \in Sessions
        /\ origin \in [Subs -> Sessions] /\ pending \subseteq Subs /\ seen \in [M -> SUBSET Subs]
    BY DEF Init
  <2>3. /\ pc \in [M -> {"new", "inbound", "lock", "gate", "begin", "model", "tools", "done"}]
        /\ outcome \in [Keys -> Reasons \cup {"none"}]
        /\ sub \in [Subs -> {"free", "called", "running", "announced", "cleaned"}]
    BY DEF Init
  <2> QED BY <2>0, <2>1, <2>2, <2>3 DEF TypeOK
<1>2. SubInv /\ TodoInv
  BY DEF Init, SubInv, TodoInv, M
<1>3. LockInv /\ GateInv
  BY DEF Init, LockInv, GateInv, Holding
<1>4. QueueInv
  BY DEF Init, QueueInv
<1> QED BY <1>1, <1>2, <1>3, <1>4 DEF IInv

\* The tail of a queue.
LEMMA TailFacts ==
  ASSUME NEW S, NEW s \in Seq(S), s # <<>>
  PROVE  /\ Tail(s) \in Seq(S) /\ Len(Tail(s)) = Len(s) - 1
         /\ \A i \in 1..Len(s) - 1 : Tail(s)[i] = s[i + 1]
         /\ Head(s) = s[1]
OBVIOUS

\* A call is taken off the batch of m.
LEMMA PopPreserves ==
  ASSUME IInv, NEW m \in M, todo[m] # <<>>, Pop(m)
  PROVE  /\ todo' \in [M -> Seq(Tools \cup {"asleep"} \cup Subs)]
         /\ UNCHANGED <<taskVars, sub>> => TodoInv'
<1> DEFINE T == Tools \cup {"asleep"} \cup Subs
<1>1. todo \in [M -> Seq(T)]
  BY DEF IInv, TypeOK
<1> HIDE DEF T
<1>2. /\ todo' \in [M -> Seq(T)]
      /\ \A n \in M : n # m => todo'[n] = todo[n]
      /\ Len(todo'[m]) = Len(todo[m]) - 1
      /\ \A i \in 1..Len(todo'[m]) : i + 1 \in 1..Len(todo[m]) /\ todo'[m][i] = todo[m][i + 1]
  <2>1. todo[m] \in Seq(T) /\ Tail(todo[m]) \in Seq(T) /\ Len(Tail(todo[m])) = Len(todo[m]) - 1
        /\ \A i \in 1..Len(todo[m]) - 1 : Tail(todo[m])[i] = todo[m][i + 1]
    BY <1>1
  <2>2. todo' = [todo EXCEPT ![m] = Tail(@)]
    BY DEF Pop
  <2>3. todo' \in [M -> Seq(T)] /\ todo'[m] = Tail(todo[m]) /\ \A n \in M : n # m => todo'[n] = todo[n]
    BY <1>1, <2>1, <2>2
  <2> QED BY <2>1, <2>3
<1>4. ASSUME UNCHANGED <<taskVars, sub>>
      PROVE  TodoInv'
  <2>1. \A n \in M : pc'[n] # "tools" => todo'[n] = <<>>
    BY <1>2, <1>4 DEF IInv, TodoInv, taskVars
  <2>2. \A n \in M : \A i \in 1..Len(todo'[n]) : todo'[n][i] \in Subs => sub'[todo'[n][i]] = "called"
    <3> SUFFICES ASSUME NEW n \in M, NEW i \in 1..Len(todo'[n]), todo'[n][i] \in Subs
                 PROVE  sub[todo'[n][i]] = "called"
      BY <1>4, SMT
    <3> DEFINE c == IF n = m THEN i + 1 ELSE i
    <3>1. c \in 1..Len(todo[n]) /\ todo[n][c] = todo'[n][i]
      BY <1>2
    <3> HIDE DEF c
    <3> QED BY <1>4, <3>1 DEF IInv, TodoInv
  <2>3. ASSUME NEW k \in M, NEW n \in M, NEW i \in 1..Len(todo'[k]), NEW j \in 1..Len(todo'[n]),
               todo'[k][i] \in Subs, todo'[k][i] = todo'[n][j]
        PROVE  k = n /\ i = j
    <3> DEFINE c == IF k = m THEN i + 1 ELSE i
               d == IF n = m THEN j + 1 ELSE j
    <3>0. Len(todo'[k]) \in Nat /\ Len(todo'[n]) \in Nat
      BY <1>2
    <3>1. c \in 1..Len(todo[k]) /\ todo[k][c] = todo'[k][i]
      BY <1>2
    <3>2. d \in 1..Len(todo[n]) /\ todo[n][d] = todo'[n][j]
      BY <1>2
    <3>3. k = n /\ c = d
      <4> HIDE DEF c, d
      <4> QED BY <2>3, <3>1, <3>2 DEF IInv, TodoInv
    <3> QED BY <3>0, <3>3
  <2> QED BY <2>1, <2>2, <2>3 DEF TodoInv
<1> QED BY <1>2, <1>4 DEF T

\* A yield falls asleep.
LEMMA SleepPreserves ==
  ASSUME IInv, NEW m \in M, todo[m] # <<>>, todo' = [todo EXCEPT ![m] = <<"asleep">> \o Tail(@)],
         UNCHANGED <<taskVars, sub>>
  PROVE  todo' \in [M -> Seq(Tools \cup {"asleep"} \cup Subs)] /\ TodoInv'
<1> DEFINE T == Tools \cup {"asleep"} \cup Subs
<1>1. todo \in [M -> Seq(T)] /\ "asleep" \in T
  BY DEF IInv, TypeOK
<1> HIDE DEF T
<1>2. /\ todo' \in [M -> Seq(T)]
      /\ \A n \in M : n # m => todo'[n] = todo[n]
      /\ Len(todo'[m]) = Len(todo[m])
      /\ todo'[m][1] = "asleep"
      /\ \A i \in 2..Len(todo[m]) : todo'[m][i] = todo[m][i]
  <2>1. todo[m] \in Seq(T) /\ Tail(todo[m]) \in Seq(T) /\ Len(Tail(todo[m])) = Len(todo[m]) - 1
        /\ \A i \in 1..Len(todo[m]) - 1 : Tail(todo[m])[i] = todo[m][i + 1]
    BY <1>1
  <2> DEFINE t == <<"asleep">> \o Tail(todo[m])
  <2>2. t \in Seq(T) /\ Len(t) = Len(todo[m]) /\ t[1] = "asleep"
        /\ \A i \in 2..Len(todo[m]) : t[i] = todo[m][i]
    BY <1>1, <2>1
  <2>3. todo' = [todo EXCEPT ![m] = t]
    OBVIOUS
  <2> HIDE DEF t
  <2> QED BY <1>1, <2>2, <2>3
<1>3. \A n \in M : \A i \in 1..Len(todo'[n]) :
        todo'[n][i] \in Subs => i \in 1..Len(todo[n]) /\ todo'[n][i] = todo[n][i]
  <2> TAKE n \in M
  <2>1. CASE n # m
    BY <1>2, <2>1
  <2>2. CASE n = m
    <3> TAKE i \in 1..Len(todo'[n])
    <3>1. todo'[m] \in Seq(T) /\ Len(todo'[m]) \in Nat
      BY <1>2
    <3> QED BY <1>2, <2>2, <3>1
  <2> QED BY <2>1, <2>2
<1>4. \A n \in M : pc'[n] # "tools" => todo'[n] = <<>>
  BY <1>2 DEF IInv, TodoInv, taskVars
<1>5. \A n \in M : \A i \in 1..Len(todo'[n]) : todo'[n][i] \in Subs => sub'[todo'[n][i]] = "called"
  BY <1>3 DEF IInv, TodoInv
<1>6. ASSUME NEW k \in M, NEW n \in M, NEW i \in 1..Len(todo'[k]), NEW j \in 1..Len(todo'[n]),
             todo'[k][i] \in Subs, todo'[k][i] = todo'[n][j]
      PROVE  k = n /\ i = j
  BY <1>3, <1>6 DEF IInv, TodoInv
<1> QED BY <1>2, <1>4, <1>5, <1>6 DEF TodoInv, T

\* Actions that leave the bus, the dispatch tasks and the subagents alone.
LEMMA FramePreserves ==
  ASSUME IInv, UNCHANGED <<inbound, consumed, taskVars, sub, origin>>
  PROVE  SubInv' /\ LockInv' /\ GateInv' /\ QueueInv' /\ (UNCHANGED todo => TodoInv')
<1>1. SubInv' /\ GateInv' /\ QueueInv' /\ (UNCHANGED todo => TodoInv')
  BY DEF IInv, SubInv, GateInv, QueueInv, TodoInv, taskVars
<1>2. \A m \in M : Key(m)' = Key(m)
  BY DEF Key, Session
<1>3. LockInv'
  BY <1>2 DEF IInv, LockInv, Holding, taskVars
<1> QED BY <1>1, <1>3

\* A dispatch task that has its lock goes on.
LEMMA MovePreserves ==
  ASSUME IInv, NEW m \in M, pc[m] \in {"gate", "begin", "model", "tools"},
         NEW p \in {"begin", "model", "tools"}, pc' = [pc EXCEPT ![m] = p],
         UNCHANGED <<inbound, consumed, lockQ, origin>>
  PROVE  /\ pc' \in [M -> {"new", "inbound", "lock", "gate", "begin", "model", "tools", "done"}]
         /\ LockInv' /\ QueueInv' /\ (UNCHANGED sub => SubInv') /\ (UNCHANGED gateQ => GateInv')
<1>1. /\ pc' \in [M -> {"new", "inbound", "lock", "gate", "begin", "model", "tools", "done"}]
      /\ pc'[m] = p /\ \A n \in M : n # m => pc'[n] = pc[n]
  BY DEF IInv, TypeOK
<1>2. \A n \in M : Key(n)' = Key(n)
  BY DEF Key, Session
<1>3. LockInv'
  BY <1>1, <1>2 DEF IInv, LockInv, Holding
<1>4. QueueInv'
  <2>1. inbound \in Seq(M)
    BY DEF IInv, TypeOK
  <2> QED BY <1>1, <2>1 DEF IInv, QueueInv
<1>5. UNCHANGED sub => SubInv'
  BY <1>1 DEF IInv, SubInv, M
<1>6. UNCHANGED gateQ => GateInv'
  BY <1>1 DEF IInv, GateInv
<1> QED BY <1>1, <1>3, <1>4, <1>5, <1>6

\* A dispatch task ends.
LEMMA ReleasePreserves ==
  ASSUME IInv, NEW m \in M, pc[m] \in {"begin", "model", "tools"}, Release(m), UNCHANGED sub
  PROVE  /\ pc' \in [M -> {"new", "inbound", "lock", "gate", "begin", "model", "tools", "done"}]
         /\ lockQ' \in [Keys -> Seq(M)] /\ buf' \in [M -> Seq(Entry)] /\ fed' \in [M -> BOOLEAN]
         /\ iter' \in [M -> 0..(MaxIter - 1)]
         /\ todo' \in [M -> Seq(Tools \cup {"asleep"} \cup Subs)]
         /\ SubInv' /\ TodoInv' /\ LockInv' /\ GateInv' /\ QueueInv'
<1> DEFINE k == Key(m)
<1>0. TypeOK /\ k \in Keys
  BY KeyType DEF IInv
<1>1. /\ pc' \in [M -> {"new", "inbound", "lock", "gate", "begin", "model", "tools", "done"}]
      /\ pc'[m] = "done" /\ \A n \in M : n # m => pc'[n] = pc[n]
  BY <1>0 DEF TypeOK, Release
<1>2. \A n \in M : Key(n)' = Key(n)
  BY DEF Key, Session, Release
<1>3. /\ lockQ[k] \in Seq(M) /\ lockQ[k] # <<>> /\ lockQ[k][1] = m
      /\ Tail(lockQ[k]) \in Seq(M) /\ Len(Tail(lockQ[k])) = Len(lockQ[k]) - 1
      /\ \A i \in 1..Len(lockQ[k]) - 1 : Tail(lockQ[k])[i] = lockQ[k][i + 1]
  <2>1. lockQ[k] \in Seq(M) /\ lockQ[k] # <<>> /\ Head(lockQ[k]) = m
    BY <1>0 DEF IInv, TypeOK, LockInv, Holding
  <2> HIDE DEF k
  <2> QED BY <2>1
<1>4. /\ lockQ' \in [Keys -> Seq(M)] /\ lockQ'[k] = Tail(lockQ[k])
      /\ \A l \in Keys : l # k => lockQ'[l] = lockQ[l]
  BY <1>0, <1>3 DEF TypeOK, Release
<1>5. LockInv'
  <2> SUFFICES ASSUME NEW n \in M
               PROVE  /\ pc'[n] = "lock" => \E i \in 1..Len(lockQ'[Key(n)]) : lockQ'[Key(n)][i] = n
                      /\ Holding(n)' => lockQ'[Key(n)] # <<>> /\ Head(lockQ'[Key(n)]) = n
    BY <1>2 DEF LockInv
  <2>0. Key(n) \in Keys
    BY <1>0, KeyType
  <2>1. CASE Key(n) # k
    BY <1>1, <1>4, <2>0, <2>1 DEF IInv, LockInv, Holding
  <2>2. CASE Key(n) = k
    <3>1. ASSUME pc'[n] = "lock"
          PROVE  \E i \in 1..Len(lockQ'[k]) : lockQ'[k][i] = n
      <4>1. n # m /\ pc[n] = "lock"
        BY <1>1, <3>1
      <4>2. PICK i \in 1..Len(lockQ[k]) : lockQ[k][i] = n
        BY <2>2, <4>1 DEF IInv, LockInv
      <4>3. i - 1 \in 1..Len(Tail(lockQ[k])) /\ Tail(lockQ[k])[i - 1] = n
        BY <1>3, <4>1, <4>2
      <4> QED BY <1>4, <4>3
    <3>2. ~Holding(n)'
      <4>1. CASE n = m
        BY <1>1, <4>1 DEF Holding
      <4>2. CASE n # m
        BY <1>1, <1>3, <2>2, <4>2 DEF Holding, IInv, LockInv
      <4> QED BY <4>1, <4>2
    <3> QED BY <2>2, <3>1, <3>2
  <2> QED BY <2>1, <2>2
<1>6. QueueInv'
  <2>1. inbound \in Seq(M) /\ inbound' = inbound /\ consumed' = consumed
    BY <1>0 DEF TypeOK, Release
  <2> QED BY <1>1, <2>1 DEF IInv, QueueInv
<1>7. SubInv'
  BY <1>1 DEF IInv, SubInv, M
<1>8. GateInv'
  BY <1>1 DEF IInv, GateInv, Release
<1>9. /\ buf' \in [M -> Seq(Entry)] /\ iter' \in [M -> 0..(MaxIter - 1)]
      /\ todo' \in [M -> Seq(Tools \cup {"asleep"} \cup Subs)]
  BY <1>0 DEF TypeOK, Release
<1>10. fed' \in [M -> BOOLEAN]
  <2>1. fed \in [M -> BOOLEAN] /\ fed' = [fed EXCEPT ![m] = FALSE]
    BY <1>0 DEF TypeOK, Release
  <2> QED BY <2>1
<1>11. TodoInv'
  <2>1. todo \in [M -> Seq(Tools \cup {"asleep"} \cup Subs)] /\ todo' = [todo EXCEPT ![m] = <<>>]
    BY <1>0 DEF TypeOK, Release
  <2>2. todo'[m] = <<>> /\ \A n \in M : n # m => todo'[n] = todo[n]
    BY <2>1
  <2>3. \A n \in M : pc'[n] # "tools" => todo'[n] = <<>>
    BY <1>1, <2>2 DEF IInv, TodoInv
  <2>4. \A n \in M : \A i \in 1..Len(todo'[n]) : n # m
    BY <2>2
  <2> QED BY <2>2, <2>3, <2>4 DEF IInv, TodoInv
<1> QED BY <1>1, <1>4, <1>5, <1>6, <1>7, <1>8, <1>9, <1>10, <1>11

\* The ways a turn ends or goes on.
LEMMA FinishIInv ==
  ASSUME IInv, NEW m \in M, pc[m] \in {"begin", "model", "tools"},
         NEW b \in Seq(Entry), NEW reason \in Reasons, Finish(m, b, reason)
  PROVE  IInv'
<1>0. TypeOK /\ Session(m) \in Sessions /\ Key(m) \in Keys /\ Answer(m) \in Seq(Reply)
  BY KeyType, AnswerType DEF IInv
<1>1. /\ pc' \in [M -> {"new", "inbound", "lock", "gate", "begin", "model", "tools", "done"}]
      /\ lockQ' \in [Keys -> Seq(M)] /\ buf' \in [M -> Seq(Entry)] /\ fed' \in [M -> BOOLEAN]
      /\ iter' \in [M -> 0..(MaxIter - 1)]
      /\ todo' \in [M -> Seq(Tools \cup {"asleep"} \cup Subs)]
      /\ SubInv' /\ TodoInv' /\ LockInv' /\ GateInv' /\ QueueInv'
  BY ReleasePreserves DEF Finish
<1>2. hist' \in [Sessions -> Seq(Entry)] /\ ckpt' \in [Sessions -> Seq(Entry)]
  <2>1. \A h \in Seq(Entry) : h \o b \in Seq(Entry)
    OBVIOUS
  <2>2. hist \in [Sessions -> Seq(Entry)] /\ ckpt \in [Sessions -> Seq(Entry)]
    BY <1>0 DEF TypeOK
  <2> QED BY <1>0, <2>1, <2>2 DEF Finish, ClearCheckpoint
<1>3. outcome' \in [Keys -> Reasons \cup {"none"}] /\ outbound' \in Seq(Reply)
  <2>1. OutcomeKey(m) \in Keys
    BY <1>0 DEF OutcomeKey, Keys, KeyKinds
  <2> QED BY <1>0, <2>1 DEF TypeOK, Finish
<1>4. TypeOK'
  <2>1. UNCHANGED <<inbound, consumed, running, polling, gateQ, toolCtx, sentInTurn,
                    origin, pending, seen, sub>>
    BY DEF Finish, Release
  <2> QED BY <1>0, <1>1, <1>2, <1>3, <2>1 DEF TypeOK
<1> QED BY <1>1, <1>4 DEF IInv

\* A turn that raises leaves its dispatch task through Release.
LEMMA AbortIInv ==
  ASSUME IInv, NEW m \in M, pc[m] \in {"begin", "model", "tools"}, NEW c \in Seq(Entry), Abort(m, c)
  PROVE  IInv'
<1>0. TypeOK /\ Session(m) \in Sessions /\ Key(m) \in Keys
  BY KeyType DEF IInv
<1>1. /\ pc' \in [M -> {"new", "inbound", "lock", "gate", "begin", "model", "tools", "done"}]
      /\ lockQ' \in [Keys -> Seq(M)] /\ buf' \in [M -> Seq(Entry)] /\ fed' \in [M -> BOOLEAN]
      /\ iter' \in [M -> 0..(MaxIter - 1)]
      /\ todo' \in [M -> Seq(Tools \cup {"asleep"} \cup Subs)]
      /\ SubInv' /\ TodoInv' /\ LockInv' /\ GateInv' /\ QueueInv'
  BY ReleasePreserves DEF Abort
<1>2. hist' \in [Sessions -> Seq(Entry)] /\ ckpt' \in [Sessions -> Seq(Entry)]
      /\ outcome' \in [Keys -> Reasons \cup {"none"}]
  BY <1>0 DEF TypeOK, Abort, Reasons
<1>3. outbound' \in Seq(Reply)
  <2>1. [msg |-> m, to |-> ErrorAddress(m), is |-> "error"] \in Reply
    BY <1>0 DEF Reply, ErrorAddress
  <2> QED BY <1>0, <2>1 DEF TypeOK, Abort
<1>4. TypeOK'
  <2>1. UNCHANGED <<inbound, consumed, running, polling, gateQ, toolCtx, sentInTurn,
                    origin, pending, seen, sub>>
    BY DEF Abort, Release
  <2> QED BY <1>0, <1>1, <1>2, <1>3, <2>1 DEF TypeOK
<1> QED BY <1>1, <1>4 DEF IInv

\* Draining keeps the types of what is pending and what has been seen.
LEMMA DrainType ==
  ASSUME TypeOK, NEW m \in M, Drain(m)
  PROVE  pending' \subseteq Subs /\ seen' \in [M -> SUBSET Subs]
<1>1. Drained(m) \subseteq Subs /\ pending \subseteq Subs /\ seen \in [M -> SUBSET Subs]
  BY DEF TypeOK, Drained
<1> QED BY <1>1 DEF Drain, Left

\* The next iteration, or the end of a turn that has none left.
LEMMA ContinueIInv ==
  ASSUME IInv, NEW m \in M, pc[m] \in {"model", "tools"}, todo[m] = <<>>,
         NEW b \in Seq(Entry), NEW feedback \in BOOLEAN, NEW c \in Seq(Entry), Continue(m, b, feedback, c)
  PROVE  IInv'
<1>0. TypeOK /\ Session(m) \in Sessions
  BY KeyType DEF IInv
<1>1. CASE ~IterationsLeft(m)
  <2>1. Append(b, Final(m)) \in Seq(Entry) /\ AppendFinal(m, b) \in Seq(Entry)
    BY <1>0, EntryType, AppendFinalType
  <2>2. "max_iterations" \in Reasons
    BY DEF Reasons
  <2>3. PICK e \in {Append(b, Final(m)), AppendFinal(m, b)} : Finish(m, e, "max_iterations")
    BY <1>1 DEF Continue
  <2> QED BY <2>1, <2>2, <2>3, FinishIInv
<1>2. CASE IterationsLeft(m)
  <2>1. /\ pc' = [pc EXCEPT ![m] = "model"]
        /\ iter' = [iter EXCEPT ![m] = @ + 1]
        /\ buf' = [buf EXCEPT ![m] = b \o Injected(m, iter[m] + 1)]
        /\ fed' = [fed EXCEPT ![m] = feedback /\ Drained(m) = {}]
        /\ Drain(m)
        /\ ckpt' = [ckpt EXCEPT ![Session(m)] = c]
        /\ UNCHANGED <<busVars, lockQ, gateQ, hist, todo, toolVars, sub, origin>>
    BY <1>2 DEF Continue
  <2>2. /\ pc' \in [M -> {"new", "inbound", "lock", "gate", "begin", "model", "tools", "done"}]
        /\ LockInv' /\ QueueInv' /\ SubInv' /\ GateInv'
    BY <2>1, MovePreserves DEF busVars
  <2>3. TodoInv'
    <3>1. pc'[m] = "model" /\ \A n \in M : n # m => pc'[n] = pc[n]
      BY <1>0, <2>1 DEF TypeOK
    <3>2. todo' = todo /\ sub' = sub /\ todo[m] = <<>>
      BY <2>1
    <3>3. \A n \in M : pc'[n] # "tools" => todo'[n] = <<>>
      BY <3>1, <3>2 DEF IInv, TodoInv
    <3> QED BY <3>2, <3>3 DEF IInv, TodoInv
  <2>4. iter' \in [M -> 0..(MaxIter - 1)] /\ buf' \in [M -> Seq(Entry)]
    <3>1. iter[m] \in 0..(MaxIter - 1) /\ iter[m] + 1 \in 0..(MaxIter - 1) /\ iter[m] + 1 \in Nat
      BY <1>0, <1>2 DEF TypeOK, IterationsLeft
    <3>2. b \o Injected(m, iter[m] + 1) \in Seq(Entry)
      <4>1. Injected(m, iter[m] + 1) \in Seq(Entry)
        BY ONLY <3>1, InputType, m \in M
      <4> QED BY <4>1
    <3> QED BY <1>0, <2>1, <3>1, <3>2 DEF TypeOK
  <2>5. fed' \in [M -> BOOLEAN]
    <3>1. fed \in [M -> BOOLEAN] /\ (feedback /\ Drained(m) = {}) \in BOOLEAN
      BY <1>0 DEF TypeOK
    <3> QED BY <2>1, <3>1
  <2>6. ckpt' \in [Sessions -> Seq(Entry)] /\ pending' \subseteq Subs /\ seen' \in [M -> SUBSET Subs]
    BY <1>0, <2>1, DrainType DEF TypeOK
  <2>7. TypeOK'
    BY <1>0, <2>1, <2>2, <2>4, <2>5, <2>6 DEF TypeOK, busVars, toolVars
  <2> QED BY <2>2, <2>3, <2>7 DEF IInv
<1> QED BY <1>1, <1>2

-----------------------------------------------------------------------------
(* Every action preserves the invariant.                                     *)

\* A client publishes: the message is on the bus and in no queue.
LEMMA PublishIInv == ASSUME IInv, NEW u \in Users, Publish(u) PROVE IInv'
<1>0. TypeOK /\ u \in M /\ u \notin Subs
  BY DEF IInv, M
<1>1. /\ pc' \in [M -> {"new", "inbound", "lock", "gate", "begin", "model", "tools", "done"}]
      /\ pc'[u] = "inbound" /\ \A n \in M : n # u => pc'[n] = pc[n]
  BY <1>0 DEF TypeOK, Publish
<1>2. inbound \in Seq(M) /\ inbound' = Append(inbound, u) /\ inbound' \in Seq(M)
  BY <1>0 DEF TypeOK, Publish
<1>3. TypeOK'
  BY <1>0, <1>1, <1>2 DEF TypeOK, Publish, sessionVars, turnVars, toolVars, subVars
<1>4. SubInv' /\ TodoInv' /\ GateInv'
  BY <1>0, <1>1 DEF IInv, SubInv, TodoInv, GateInv, Publish, turnVars, subVars, M
<1>5. LockInv'
  <2>1. \A n \in M : Key(n)' = Key(n)
    BY DEF Key, Session, Publish, subVars
  <2> QED BY <1>1, <2>1 DEF IInv, LockInv, Holding, Publish
<1>6. QueueInv'
  <2>1. consumed' = consumed /\ consumed \in Nat
    BY <1>0 DEF TypeOK, Publish
  <2>2. Len(inbound') = Len(inbound) + 1 /\ inbound'[Len(inbound) + 1] = u
        /\ \A i \in 1..Len(inbound) : inbound'[i] = inbound[i] /\ inbound[i] # u /\ inbound[i] \in M
    BY <1>2 DEF IInv, QueueInv, Publish
  <2> QED BY <1>1, <1>2, <2>1, <2>2 DEF IInv, QueueInv
<1> QED BY <1>3, <1>4, <1>5, <1>6 DEF IInv

\* A message leaves the bus and joins the queue of its lock, in which it was not.
LEMMA DispatchIInv == ASSUME IInv, Dispatch PROVE IInv'
<1> DEFINE m == inbound[consumed + 1]
           k == Key(m)
<1>0. TypeOK /\ m \in M /\ k \in Keys /\ consumed \in Nat /\ consumed < Len(inbound) /\ inbound \in Seq(M)
  <2>1. TypeOK /\ consumed \in Nat /\ consumed < Len(inbound) /\ inbound \in Seq(M)
    BY DEF IInv, TypeOK, Dispatch
  <2>2. m \in M
    BY <2>1
  <2> QED BY <2>1, <2>2, KeyType
<1>a. pc' = [pc EXCEPT ![m] = "lock"] /\ lockQ' = [lockQ EXCEPT ![k] = Append(@, m)]
  BY DEF Dispatch
<1>1. pc[m] = "inbound"
  BY <1>0 DEF IInv, QueueInv
<1> HIDE DEF m
<1>2. /\ pc' \in [M -> {"new", "inbound", "lock", "gate", "begin", "model", "tools", "done"}]
      /\ pc'[m] = "lock" /\ \A n \in M : n # m => pc'[n] = pc[n]
  BY <1>0, <1>a DEF TypeOK
<1>3. /\ lockQ' \in [Keys -> Seq(M)] /\ lockQ'[k] = Append(lockQ[k], m)
      /\ \A l \in Keys : l # k => lockQ'[l] = lockQ[l]
  <2> HIDE DEF k
  <2>1. lockQ \in [Keys -> Seq(M)]
    BY <1>0 DEF TypeOK
  <2> QED BY <1>0, <1>a, <2>1
<1>4. TypeOK'
  <2>1. polling' \in BOOLEAN /\ running' \in BOOLEAN
    BY <1>0, Zenon DEF TypeOK, Dispatch
  <2>2. consumed' \in Nat /\ inbound' = inbound
    BY <1>0 DEF Dispatch
  <2>3. UNCHANGED <<outbound, gateQ, sessionVars, turnVars, toolVars, subVars>>
    BY DEF Dispatch
  <2> QED BY <1>0, <1>2, <1>3, <2>1, <2>2, <2>3
          DEF TypeOK, sessionVars, turnVars, toolVars, subVars
<1>5. SubInv' /\ TodoInv' /\ GateInv'
  BY <1>1, <1>2 DEF IInv, SubInv, TodoInv, GateInv, Dispatch, turnVars, subVars, M
<1>6. LockInv'
  <2>1. \A n \in M : Key(n)' = Key(n)
    BY DEF Key, Session, Dispatch, subVars
  <2>2. lockQ[k] \in Seq(M)
    BY <1>0 DEF TypeOK
  <2>3. /\ Len(lockQ'[k]) = Len(lockQ[k]) + 1 /\ lockQ'[k][Len(lockQ[k]) + 1] = m
        /\ \A i \in 1..Len(lockQ[k]) : lockQ'[k][i] = lockQ[k][i]
        /\ lockQ'[k] # <<>>
        /\ lockQ[k] # <<>> => Head(lockQ'[k]) = Head(lockQ[k])
    <3> HIDE DEF k
    <3> QED BY <1>0, <1>3, <2>2
  <2> SUFFICES ASSUME NEW n \in M
               PROVE  /\ pc'[n] = "lock" => \E i \in 1..Len(lockQ'[Key(n)]) : lockQ'[Key(n)][i] = n
                      /\ Holding(n)' => lockQ'[Key(n)] # <<>> /\ Head(lockQ'[Key(n)]) = n
    BY <2>1 DEF LockInv
  <2>4. Key(n) \in Keys
    BY <1>0, KeyType
  <2>5. CASE n = m
    <3>1. Len(lockQ[k]) + 1 \in 1..Len(lockQ'[k])
      BY <2>2, <2>3
    <3>2. ~Holding(n)'
      BY <1>2, <2>5 DEF Holding
    <3> QED BY <2>3, <2>5, <3>1, <3>2
  <2>6. CASE n # m
    <3>1. pc'[n] = pc[n]
      BY <1>2, <2>6
    <3>2. ASSUME pc'[n] = "lock"
          PROVE  \E i \in 1..Len(lockQ'[Key(n)]) : lockQ'[Key(n)][i] = n
      <4>1. PICK i \in 1..Len(lockQ[Key(n)]) : lockQ[Key(n)][i] = n
        BY <3>1, <3>2 DEF IInv, LockInv
      <4>2. i \in 1..Len(lockQ'[Key(n)]) /\ lockQ'[Key(n)][i] = n
        BY <1>3, <2>2, <2>3, <2>4, <4>1
      <4> QED BY <4>2
    <3>3. ASSUME Holding(n)'
          PROVE  lockQ'[Key(n)] # <<>> /\ Head(lockQ'[Key(n)]) = n
      <4>1. lockQ[Key(n)] # <<>> /\ Head(lockQ[Key(n)]) = n
        BY <3>1, <3>3 DEF IInv, LockInv, Holding
      <4> QED BY <1>3, <2>3, <2>4, <4>1
    <3> QED BY <3>2, <3>3
  <2> QED BY <2>5, <2>6
<1>7. QueueInv'
  <2>1. consumed' = consumed + 1 /\ inbound' = inbound
    BY DEF Dispatch
  <2>2. \A i \in 1..Len(inbound) : inbound[i] \in M /\ (inbound[i] = m => i = consumed + 1)
    BY <1>0 DEF IInv, QueueInv, m
  <2>3. inbound[consumed + 1] = m
    BY DEF m
  <2>4. ASSUME NEW i \in 1..Len(inbound)
        PROVE  IF i <= consumed + 1 THEN pc'[inbound[i]] \notin {"new", "inbound"}
                                    ELSE pc'[inbound[i]] = "inbound"
    <3>1. CASE i = consumed + 1
      BY <1>0, <1>2, <2>3, <3>1
    <3>2. CASE i # consumed + 1
      <4>1. pc'[inbound[i]] = pc[inbound[i]]
        BY <1>2, <2>2, <3>2
      <4> QED BY <1>0, <3>2, <4>1 DEF IInv, QueueInv
    <3> QED BY <3>1, <3>2
  <2> QED BY <1>0, <2>1, <2>4 DEF IInv, QueueInv
<1> QED BY <1>4, <1>5, <1>6, <1>7 DEF IInv

\* The head of a lock's queue joins the gate's, in which it was not.
LEMMA AcquireLockIInv == ASSUME IInv, NEW m \in M, AcquireLock(m) PROVE IInv'
<1>0. TypeOK /\ Key(m) \in Keys
  BY KeyType DEF IInv
<1>1. /\ pc' \in [M -> {"new", "inbound", "lock", "gate", "begin", "model", "tools", "done"}]
      /\ pc[m] = "lock" /\ pc'[m] = "gate" /\ \A n \in M : n # m => pc'[n] = pc[n]
  BY <1>0 DEF TypeOK, AcquireLock
<1>2. gateQ' = Append(gateQ, m) /\ gateQ \in Seq(M) /\ gateQ' \in Seq(M)
  BY <1>0 DEF TypeOK, AcquireLock
<1>3. TypeOK'
  BY <1>0, <1>1, <1>2 DEF TypeOK, AcquireLock, busVars, sessionVars, turnVars, toolVars, subVars
<1>4. SubInv' /\ TodoInv'
  BY <1>1 DEF IInv, SubInv, TodoInv, AcquireLock, turnVars, subVars, M
<1>5. GateInv'
  <2>1. Len(gateQ') = Len(gateQ) + 1 /\ gateQ'[Len(gateQ) + 1] = m /\ Len(gateQ) \in Nat
        /\ \A i \in 1..Len(gateQ) : gateQ'[i] = gateQ[i]
    BY <1>2
  <2> SUFFICES ASSUME NEW n \in M, pc'[n] = "gate"
               PROVE  \E i \in 1..Len(gateQ') : gateQ'[i] = n
    BY DEF GateInv
  <2>2. CASE n = m
    BY <2>1, <2>2
  <2>3. CASE n # m
    <3>1. PICK i \in 1..Len(gateQ) : gateQ[i] = n
      BY <1>1, <2>3 DEF IInv, GateInv
    <3> QED BY <2>1, <3>1
  <2> QED BY <2>2, <2>3
<1>6. LockInv'
  <2>1. \A n \in M : Key(n)' = Key(n)
    BY DEF Key, Session, AcquireLock, subVars
  <2>2. lockQ' = lockQ /\ lockQ[Key(m)] # <<>> /\ Head(lockQ[Key(m)]) = m
    BY <1>0, <1>1 DEF IInv, LockInv, AcquireLock, HoldsLock
  <2> QED BY <1>1, <2>1, <2>2 DEF IInv, LockInv, Holding
<1>7. QueueInv'
  <2>1. inbound' = inbound /\ consumed' = consumed /\ inbound \in Seq(M)
    BY <1>0 DEF TypeOK, AcquireLock, busVars
  <2> QED BY <1>1, <2>1 DEF IInv, QueueInv
<1> QED BY <1>3, <1>4, <1>5, <1>6, <1>7 DEF IInv

\* The head of the gate's queue begins its turn.
LEMMA PassGateIInv == ASSUME IInv, NEW m \in M, PassGate(m) PROVE IInv'
<1>0. TypeOK /\ Session(m) \in Sessions /\ pc[m] = "gate"
  BY KeyType DEF IInv, PassGate
<1>1. /\ pc' = [pc EXCEPT ![m] = "begin"]
      /\ UNCHANGED <<inbound, consumed, lockQ, origin, sub, todo>>
  BY DEF PassGate, busVars, subVars, turnVars
<1>2. /\ pc' \in [M -> {"new", "inbound", "lock", "gate", "begin", "model", "tools", "done"}]
      /\ LockInv' /\ QueueInv' /\ SubInv'
  BY <1>0, <1>1, MovePreserves
<1>3. pc'[m] = "begin" /\ \A n \in M : n # m => pc'[n] = pc[n]
  BY <1>0, <1>1 DEF TypeOK
<1>4. gateQ \in Seq(M) /\ gateQ # <<>> /\ gateQ' = Tail(gateQ) /\ Head(gateQ) = m
  BY <1>0 DEF TypeOK, PassGate, IInv, GateInv
<1>5. gateQ' \in Seq(M) /\ Len(gateQ') = Len(gateQ) - 1 /\ gateQ[1] = m
      /\ \A i \in 1..Len(gateQ) - 1 : gateQ'[i] = gateQ[i + 1]
  BY <1>4
<1>6. GateInv'
  <2> SUFFICES ASSUME NEW n \in M, pc'[n] = "gate"
               PROVE  \E i \in 1..Len(gateQ') : gateQ'[i] = n
    BY DEF GateInv
  <2>1. n # m /\ pc[n] = "gate"
    BY <1>3
  <2>2. PICK i \in 1..Len(gateQ) : gateQ[i] = n
    BY <2>1 DEF IInv, GateInv
  <2>3. i - 1 \in 1..Len(gateQ') /\ gateQ'[i - 1] = n
    BY <1>4, <1>5, <2>1, <2>2
  <2> QED BY <2>3
<1>7. TodoInv'
  BY <1>0, <1>1, <1>3 DEF IInv, TodoInv
<1>8. hist' \in [Sessions -> Seq(Entry)] /\ ckpt' \in [Sessions -> Seq(Entry)]
  <2>1. Restored(hist[Session(m)], ckpt[Session(m)]) \in Seq(Entry)
    BY <1>0, RestoredType DEF TypeOK
  <2> QED BY <1>0, <2>1 DEF TypeOK, PassGate
<1>9. TypeOK'
  BY <1>0, <1>2, <1>5, <1>8 DEF TypeOK, PassGate, busVars, turnVars, toolVars, subVars
<1> QED BY <1>2, <1>6, <1>7, <1>9 DEF IInv

\* A turn takes its snapshot and asks the model.
LEMMA BeginIInv == ASSUME IInv, NEW m \in M, Begin(m) PROVE IInv'
<1>0. TypeOK /\ Session(m) \in Sessions /\ pc[m] = "begin"
  BY KeyType DEF IInv, Begin
<1>1. /\ pc' = [pc EXCEPT ![m] = "model"] /\ gateQ' = gateQ
      /\ UNCHANGED <<inbound, consumed, lockQ, origin, sub, todo>>
  BY DEF Begin, busVars
<1>2. /\ pc' \in [M -> {"new", "inbound", "lock", "gate", "begin", "model", "tools", "done"}]
      /\ LockInv' /\ QueueInv' /\ SubInv' /\ GateInv'
  BY <1>0, <1>1, MovePreserves
<1>3. pc'[m] = "model" /\ \A n \in M : n # m => pc'[n] = pc[n]
  BY <1>0, <1>1 DEF TypeOK
<1>4. TodoInv'
  BY <1>0, <1>1, <1>3 DEF IInv, TodoInv
<1>5. buf' \in [M -> Seq(Entry)]
  <2>1. Input(m, hist[Session(m)]) \o Injected(m, 0) \in Seq(Entry)
    BY InputType
  <2> QED BY <1>0, <2>1 DEF TypeOK, Begin
<1>6. pending' \subseteq Subs /\ seen' \in [M -> SUBSET Subs]
  BY <1>0, DrainType DEF Begin
<1>7. sentInTurn' \in BOOLEAN
  BY <1>0, Zenon DEF TypeOK, Begin, StartTurn
<1>8. TypeOK'
  BY <1>0, <1>1, <1>2, <1>5, <1>6, <1>7 DEF TypeOK, Begin, busVars, sessionVars
<1> QED BY <1>2, <1>4, <1>8 DEF IInv

\* A batch of calls: its subagents were free, so no other batch calls them.
LEMMA ReplyToolsIInv == ASSUME IInv, NEW m \in M, NEW t \in Batches, ReplyTools(m, t) PROVE IInv'
<1>0. TypeOK /\ Session(m) \in Sessions /\ pc[m] = "model" /\ t \in Seq(Tools \cup Subs)
  BY KeyType DEF IInv, ReplyTools
<1>1. /\ pc' = [pc EXCEPT ![m] = "tools"] /\ todo' = [todo EXCEPT ![m] = t]
      /\ UNCHANGED <<inbound, consumed, lockQ, gateQ, origin>>
  BY DEF ReplyTools, busVars
<1>2. /\ pc' \in [M -> {"new", "inbound", "lock", "gate", "begin", "model", "tools", "done"}]
      /\ LockInv' /\ QueueInv' /\ GateInv'
  BY <1>0, <1>1, MovePreserves
<1>3. pc'[m] = "tools" /\ \A n \in M : n # m => pc'[n] = pc[n]
  BY <1>0, <1>1 DEF TypeOK
<1>4. /\ \A x \in Named(t) : sub[x] = "free"
      /\ \A i, j \in 1..Len(t) : t[i] \in Subs /\ t[i] = t[j] => i = j
  BY DEF ReplyTools, Startable, Named
<1>5. /\ sub' \in [Subs -> {"free", "called", "running", "announced", "cleaned"}]
      /\ \A x \in Subs : sub'[x] = IF x \in Named(t) THEN "called" ELSE sub[x]
  <2>1. sub' = [x \in Subs |-> IF x \in Named(t) THEN "called" ELSE sub[x]]
    BY DEF ReplyTools, Called
  <2> QED BY <1>0, <2>1 DEF TypeOK
<1>6. SubInv'
  BY <1>0, <1>3, <1>4, <1>5 DEF IInv, SubInv, M
<1>7. todo \in [M -> Seq(Tools \cup {"asleep"} \cup Subs)]
      /\ todo' \in [M -> Seq(Tools \cup {"asleep"} \cup Subs)]
      /\ todo'[m] = t /\ \A n \in M : n # m => todo'[n] = todo[n]
  <2>1. t \in Seq(Tools \cup {"asleep"} \cup Subs) /\ todo \in [M -> Seq(Tools \cup {"asleep"} \cup Subs)]
    <3>1. \A i \in 1..Len(t) : t[i] \in Tools \cup {"asleep"} \cup Subs
      BY <1>0
    <3>2. todo \in [M -> Seq(Tools \cup {"asleep"} \cup Subs)]
      BY <1>0 DEF TypeOK
    <3> QED BY <1>0, <3>1, <3>2
  <2> QED BY <1>1, <2>1
<1>8. TodoInv'
  <2>1. \A n \in M : pc'[n] # "tools" => todo'[n] = <<>>
    BY <1>3, <1>7 DEF IInv, TodoInv
  <2>2. ASSUME NEW n \in M, NEW i \in 1..Len(todo'[n]), todo'[n][i] \in Subs
        PROVE  /\ sub'[todo'[n][i]] = "called"
               /\ n # m => sub[todo'[n][i]] = "called"
               /\ n = m => todo'[n][i] \in Named(t)
    <3>1. CASE n = m
      BY <1>5, <1>7, <2>2, <3>1 DEF Named
    <3>2. CASE n # m
      BY <1>5, <1>7, <2>2, <3>2 DEF IInv, TodoInv
    <3> QED BY <3>1, <3>2
  <2>3. ASSUME NEW a \in M, NEW n \in M, NEW i \in 1..Len(todo'[a]), NEW j \in 1..Len(todo'[n]),
               todo'[a][i] \in Subs, todo'[a][i] = todo'[n][j]
        PROVE  a = n /\ i = j
    <3>1. CASE a = m /\ n = m
      BY <1>4, <1>7, <2>3, <3>1
    <3>2. CASE a # m /\ n # m
      BY <1>7, <2>3, <3>2 DEF IInv, TodoInv
    <3>3. CASE (a = m /\ n # m) \/ (a # m /\ n = m)
      BY <1>4, <2>2, <2>3, <3>3
    <3> QED BY <3>1, <3>2, <3>3
  <2>4. \A n \in M : \A i \in 1..Len(todo'[n]) : todo'[n][i] \in Subs => sub'[todo'[n][i]] = "called"
    BY <2>2
  <2> QED BY <2>1, <2>3, <2>4 DEF TodoInv
<1>9. buf' \in [M -> Seq(Entry)] /\ ckpt' \in [Sessions -> Seq(Entry)]
  <2>1. AwaitingTools(m) \in Seq(Entry) /\ Append(buf[m], Calls(m)) \in Seq(Entry)
    <3>1. AwaitingTools(m) \in Seq(Entry) /\ Calls(m) \in Entry
      BY <1>0, EntryType
    <3>2. buf[m] \in Seq(Entry)
      BY <1>0 DEF TypeOK
    <3> QED BY <3>1, <3>2
  <2> QED BY <1>0, <2>1 DEF TypeOK, ReplyTools
<1>10. fed' \in [M -> BOOLEAN]
  <2>1. fed \in [M -> BOOLEAN] /\ fed' = [fed EXCEPT ![m] = FALSE]
    BY <1>0 DEF TypeOK, ReplyTools
  <2> QED BY <2>1
<1>11. TypeOK'
  <2>1. /\ UNCHANGED <<busVars, lockQ, gateQ, hist, iter, sentInTurn, outcome, origin, pending, seen>>
        /\ toolCtx' = Session(m)
    BY DEF ReplyTools
  <2> QED BY <1>0, <1>2, <1>5, <1>7, <1>9, <1>10, <2>1 DEF TypeOK, busVars
<1> QED BY <1>2, <1>6, <1>8, <1>11 DEF IInv

\* The other replies end the turn or go on with it.
LEMMA RepliesIInv ==
  ASSUME IInv, NEW m \in M,
         \/ ReplyMalformed(m) \/ ReplyFinal(m) \/ (\E reason \in Reasons : ReplyEnd(m, reason))
  PROVE  IInv'
<1>0. /\ TypeOK /\ Session(m) \in Sessions /\ pc[m] = "model" /\ todo[m] = <<>>
      /\ buf[m] \in Seq(Entry) /\ ckpt[Session(m)] \in Seq(Entry)
  <2>1. TypeOK /\ Session(m) \in Sessions /\ pc[m] = "model"
    BY KeyType DEF IInv, ReplyMalformed, ReplyFinal, ReplyEnd
  <2> QED BY <2>1 DEF IInv, TypeOK, TodoInv
<1>1. Append(buf[m], Final(m)) \in Seq(Entry) /\ AppendFinal(m, buf[m]) \in Seq(Entry)
  BY <1>0, EntryType, AppendFinalType
<1>2. CASE ReplyMalformed(m)
  <2>1. CASE Finish(m, AppendFinal(m, buf[m]), "malformed_tool_call_budget_exhausted")
    <3>1. "malformed_tool_call_budget_exhausted" \in Reasons
      BY DEF Reasons
    <3> QED BY <1>0, <1>1, <2>1, <3>1, FinishIInv
  <2>2. CASE Continue(m, buf[m], TRUE, ckpt[Session(m)])
    BY <1>0, <2>2, ContinueIInv
  <2> QED BY <1>2, <2>1, <2>2 DEF ReplyMalformed
<1>3. CASE ReplyFinal(m)
  <2>1. "completed" \in Reasons
    BY DEF Reasons
  <2> QED BY <1>0, <1>1, <1>3, <2>1, FinishIInv DEF ReplyFinal
<1>4. ASSUME NEW reason \in Reasons, ReplyEnd(m, reason)
      PROVE  IInv'
  BY <1>0, <1>1, <1>4, FinishIInv DEF ReplyEnd
<1> QED BY <1>2, <1>3, <1>4

\* An exception, wherever it is raised.
LEMMA RaiseIInv == ASSUME IInv, NEW m \in M, Raise(m) \/ RaiseInSave(m) PROVE IInv'
<1>0. /\ TypeOK /\ ckpt[Session(m)] \in Seq(Entry)
      /\ AwaitingTools(m) \in Seq(Entry) /\ ToolsCompleted(m) \in Seq(Entry) /\ <<Final(m)>> \in Seq(Entry)
  <2>1. TypeOK /\ Session(m) \in Sessions
    BY KeyType DEF IInv
  <2>2. Final(m) \in Entry /\ AwaitingTools(m) \in Seq(Entry) /\ ToolsCompleted(m) \in Seq(Entry)
    BY <2>1, EntryType
  <2>3. <<Final(m)>> \in Seq(Entry)
    BY <2>2
  <2>4. ckpt[Session(m)] \in Seq(Entry)
    BY <2>1 DEF TypeOK
  <2> QED BY <2>1, <2>2, <2>3, <2>4
<1>1. pc[m] \in {"begin", "model", "tools"} /\ \E c \in Seq(Entry) : Abort(m, c)
  BY <1>0 DEF Raise, RaiseInSave
<1> QED BY <1>1, AbortIInv

\* One step of a tool.
LEMMA ToolsIInv ==
  ASSUME IInv, NEW m \in M,
         Exec(m) \/ SendMessage(m) \/ YieldPoll(m) \/ YieldTimesOut(m)
  PROVE  IInv'
<1>0. TypeOK /\ todo[m] # <<>> /\ UNCHANGED <<inbound, consumed, running, polling, taskVars, sessionVars,
                                     buf, fed, iter, toolCtx, outcome, sub, origin>>
  BY DEF IInv, Exec, SendMessage, YieldPoll, YieldTimesOut, Calling, busVars, toolVars, subVars
<1>1. SubInv' /\ LockInv' /\ GateInv' /\ QueueInv'
  BY <1>0, FramePreserves
<1>2. TodoInv' /\ todo' \in [M -> Seq(Tools \cup {"asleep"} \cup Subs)]
  <2>1. Pop(m) \/ todo' = [todo EXCEPT ![m] = <<"asleep">> \o Tail(@)]
    BY DEF Exec, SendMessage, YieldPoll, YieldTimesOut
  <2> QED BY <1>0, <2>1, PopPreserves, SleepPreserves
<1>3. outbound' \in Seq(Reply)
  <2>1. [msg |-> m, to |-> <<"chat", toolCtx>>, is |-> "tool"] \in Reply
    BY <1>0 DEF TypeOK, Reply
  <2>2. \/ outbound' = outbound
        \/ outbound' = Append(outbound, [msg |-> m, to |-> <<"chat", toolCtx>>, is |-> "tool"])
    BY DEF Exec, SendMessage, YieldPoll, YieldTimesOut, busVars
  <2>3. outbound \in Seq(Reply)
    BY <1>0 DEF TypeOK
  <2> QED BY <2>1, <2>2, <2>3
<1>4. pending' \subseteq Subs /\ seen' \in [M -> SUBSET Subs]
  <2>1. \/ pending' = pending /\ seen' = seen
        \/ pending' = pending \ pending /\ seen' = [seen EXCEPT ![m] = @ \cup pending]
    BY DEF Exec, SendMessage, YieldPoll, YieldTimesOut, subVars, Left
  <2>2. pending \subseteq Subs /\ seen \in [M -> SUBSET Subs]
    BY <1>0 DEF TypeOK
  <2>3. CASE pending' = pending /\ seen' = seen
    BY <2>2, <2>3
  <2>4. CASE pending' = pending \ pending /\ seen' = [seen EXCEPT ![m] = @ \cup pending]
    BY <2>2, <2>4
  <2> QED BY <2>1, <2>3, <2>4
<1>5. sentInTurn' \in BOOLEAN
  BY <1>0, Zenon DEF TypeOK, Exec, SendMessage, YieldPoll, YieldTimesOut, toolVars
<1>6. TypeOK'
  BY <1>0, <1>2, <1>3, <1>4, <1>5 DEF TypeOK, taskVars, sessionVars
<1> QED BY <1>1, <1>2, <1>6 DEF IInv

\* A called subagent starts: it leaves the one batch that called it.
LEMMA SpawnIInv == ASSUME IInv, NEW m \in M, NEW x \in Subs, Spawn(m, x) PROVE IInv'
<1> DEFINE T == Tools \cup {"asleep"} \cup Subs
<1>0. /\ TypeOK /\ todo[m] # <<>> /\ Head(todo[m]) = x /\ todo[m] \in Seq(T) /\ Pop(m)
      /\ UNCHANGED <<busVars, taskVars, sessionVars, buf, fed, iter, toolVars, pending, seen>>
  BY DEF IInv, TypeOK, Spawn, Calling
<1>1. todo[m][1] = x /\ 1 \in 1..Len(todo[m])
  <2> HIDE DEF T
  <2> QED BY <1>0
<1>2. sub[x] = "called" /\ x \in M
  BY <1>1 DEF IInv, TodoInv, M
<1>3. pc[x] = "new"
  BY <1>2 DEF IInv, SubInv
<1>4. /\ sub' \in [Subs -> {"free", "called", "running", "announced", "cleaned"}]
      /\ sub'[x] = "running" /\ \A y \in Subs : y # x => sub'[y] = sub[y]
      /\ origin' \in [Subs -> Sessions]
      /\ \A y \in Subs : y # x => origin'[y] = origin[y]
  BY <1>0 DEF TypeOK, Spawn
<1>5. SubInv' /\ GateInv' /\ QueueInv'
  BY <1>0, <1>3, <1>4 DEF IInv, SubInv, GateInv, QueueInv, busVars, taskVars
<1>6. LockInv'
  <2>1. \A n \in M : n # x => Key(n)' = Key(n)
    BY <1>4 DEF Key, Session
  <2> QED BY <1>0, <1>3, <2>1 DEF IInv, LockInv, Holding, taskVars
<1>7. todo' \in [M -> Seq(T)]
  BY <1>0, PopPreserves
<1>8. TodoInv'
  <2>1. /\ todo \in [M -> Seq(T)] /\ todo' = [todo EXCEPT ![m] = Tail(@)]
    BY <1>0 DEF TypeOK, Pop
  <2> HIDE DEF T
  <2>2. /\ \A n \in M : n # m => todo'[n] = todo[n]
        /\ Len(todo'[m]) = Len(todo[m]) - 1
        /\ \A i \in 1..Len(todo'[m]) : i + 1 \in 1..Len(todo[m]) /\ todo'[m][i] = todo[m][i + 1]
    <3>1. Tail(todo[m]) \in Seq(T) /\ Len(Tail(todo[m])) = Len(todo[m]) - 1
          /\ \A i \in 1..Len(todo[m]) - 1 : Tail(todo[m])[i] = todo[m][i + 1]
      BY <1>0
    <3>2. todo'[m] = Tail(todo[m]) /\ \A n \in M : n # m => todo'[n] = todo[n]
      BY <2>1
    <3> QED BY <1>0, <3>1, <3>2
  <2> DEFINE old(n, i) == IF n = m THEN i + 1 ELSE i
  <2>3. ASSUME NEW n \in M, NEW i \in 1..Len(todo'[n])
        PROVE  old(n, i) \in 1..Len(todo[n]) /\ todo[n][old(n, i)] = todo'[n][i] /\ (n = m => old(n, i) # 1)
    <3>0. Len(todo'[n]) \in Nat
      BY <1>7
    <3>1. CASE n = m
      BY <2>2, <3>0, <3>1
    <3>2. CASE n # m
      BY <2>2, <3>2
    <3> QED BY <3>1, <3>2
  <2>4. \A n \in M : pc'[n] # "tools" => todo'[n] = <<>>
    <3>1. pc[m] = "tools" /\ pc' = pc
      BY <1>0 DEF Spawn, Calling, taskVars
    <3> QED BY <2>2, <3>1 DEF IInv, TodoInv
  <2>5. ASSUME NEW n \in M, NEW i \in 1..Len(todo'[n]), todo'[n][i] \in Subs
        PROVE  sub'[todo'[n][i]] = "called"
    <3> DEFINE c == old(n, i)
    <3>1. c \in 1..Len(todo[n]) /\ todo[n][c] = todo'[n][i] /\ (n = m => c # 1)
      BY <2>3
    <3> HIDE DEF c
    <3>2. todo'[n][i] # x
      BY <1>1, <2>5, <3>1 DEF IInv, TodoInv
    <3> QED BY <1>4, <2>5, <3>1, <3>2 DEF IInv, TodoInv
  <2>6. ASSUME NEW a \in M, NEW n \in M, NEW i \in 1..Len(todo'[a]), NEW j \in 1..Len(todo'[n]),
               todo'[a][i] \in Subs, todo'[a][i] = todo'[n][j]
        PROVE  a = n /\ i = j
    <3>0. Len(todo'[a]) \in Nat /\ Len(todo'[n]) \in Nat
      BY <1>7
    <3> DEFINE c == old(a, i)
               d == old(n, j)
    <3>1. c \in 1..Len(todo[a]) /\ todo[a][c] = todo'[a][i]
      BY <2>3
    <3>2. d \in 1..Len(todo[n]) /\ todo[n][d] = todo'[n][j]
      BY <2>3
    <3>3. a = n /\ c = d
      <4> HIDE DEF c, d
      <4> QED BY <2>6, <3>1, <3>2 DEF IInv, TodoInv
    <3> QED BY <3>0, <3>1, <3>2, <3>3
  <2> QED BY <2>4, <2>5, <2>6 DEF TodoInv
<1>9. TypeOK'
  BY <1>0, <1>4, <1>7 DEF TypeOK, busVars, taskVars, sessionVars, toolVars
<1> QED BY <1>5, <1>6, <1>8, <1>9 DEF IInv

\* The end of a batch.
LEMMA ToolsDoneIInv == ASSUME IInv, NEW m \in M, ToolsDone(m) PROVE IInv'
<1>0. TypeOK /\ pc[m] = "tools" /\ todo[m] = <<>> /\ buf[m] \in Seq(Entry)
  BY DEF IInv, TypeOK, ToolsDone
<1>1. Results(m) \in Entry /\ ToolsCompleted(m) \in Seq(Entry)
  BY <1>0, EntryType
<1>2. Append(buf[m], Results(m)) \in Seq(Entry)
  BY <1>0, <1>1
<1>3. Continue(m, Append(buf[m], Results(m)), FALSE, ToolsCompleted(m))
  BY DEF ToolsDone
<1> QED BY <1>0, <1>1, <1>2, <1>3, ContinueIInv

\* A subagent announces: its message was new, so it is in no queue.
LEMMA AnnounceIInv == ASSUME IInv, NEW x \in Subs, Announce(x) PROVE IInv'
<1>0. TypeOK /\ x \in M /\ pc[x] = "new"
  BY DEF IInv, SubInv, Announce, M
<1>1. /\ pc' \in [M -> {"new", "inbound", "lock", "gate", "begin", "model", "tools", "done"}]
      /\ pc'[x] = "inbound" /\ \A n \in M : n # x => pc'[n] = pc[n]
  BY <1>0 DEF TypeOK, Announce
<1>2. inbound \in Seq(M) /\ inbound' = Append(inbound, x) /\ inbound' \in Seq(M)
  BY <1>0 DEF TypeOK, Announce
<1>3. /\ sub' \in [Subs -> {"free", "called", "running", "announced", "cleaned"}]
      /\ sub'[x] = "announced" /\ sub[x] = "running" /\ \A y \in Subs : y # x => sub'[y] = sub[y]
  BY <1>0 DEF TypeOK, Announce
<1>4. TypeOK'
  BY <1>0, <1>1, <1>2, <1>3 DEF TypeOK, Announce, sessionVars, turnVars, toolVars
<1>5. SubInv' /\ GateInv'
  BY <1>1, <1>3 DEF IInv, SubInv, GateInv, Announce, M
<1>6. TodoInv'
  <2>1. todo' = todo
    BY DEF Announce, turnVars
  <2>2. \A n \in M : pc'[n] # "tools" => todo'[n] = <<>>
    BY <1>0, <1>1, <2>1 DEF IInv, TodoInv
  <2>3. \A n \in M : \A i \in 1..Len(todo'[n]) : todo'[n][i] \in Subs => sub'[todo'[n][i]] = "called"
    BY <1>3, <2>1 DEF IInv, TodoInv
  <2> QED BY <2>1, <2>2, <2>3 DEF IInv, TodoInv
<1>7. LockInv'
  <2>1. \A n \in M : Key(n)' = Key(n)
    BY DEF Key, Session, Announce
  <2> QED BY <1>1, <2>1 DEF IInv, LockInv, Holding, Announce
<1>8. QueueInv'
  <2>1. consumed' = consumed /\ consumed \in Nat
    BY <1>0 DEF TypeOK, Announce
  <2>2. Len(inbound') = Len(inbound) + 1 /\ inbound'[Len(inbound) + 1] = x
        /\ \A i \in 1..Len(inbound) : inbound'[i] = inbound[i] /\ inbound[i] # x /\ inbound[i] \in M
    BY <1>0, <1>2 DEF IInv, QueueInv
  <2> QED BY <1>1, <1>2, <2>1, <2>2 DEF IInv, QueueInv
<1> QED BY <1>4, <1>5, <1>6, <1>7, <1>8 DEF IInv

\* A done callback.
LEMMA CleanupIInv == ASSUME IInv, NEW x \in Subs, Cleanup(x) PROVE IInv'
<1>0. TypeOK /\ UNCHANGED <<busVars, taskVars, sessionVars, turnVars, toolVars, origin, pending, seen>>
  BY DEF IInv, Cleanup
<1>1. /\ sub' \in [Subs -> {"free", "called", "running", "announced", "cleaned"}]
      /\ sub'[x] = "cleaned" /\ sub[x] = "announced" /\ \A y \in Subs : y # x => sub'[y] = sub[y]
  BY <1>0 DEF TypeOK, Cleanup
<1>2. SubInv' /\ GateInv' /\ QueueInv'
  BY <1>0, <1>1 DEF IInv, SubInv, GateInv, QueueInv, busVars, taskVars
<1>3. TodoInv'
  BY <1>0, <1>1 DEF IInv, TodoInv, taskVars, turnVars
<1>4. LockInv'
  <2>1. \A n \in M : Key(n)' = Key(n)
    BY <1>0 DEF Key, Session
  <2> QED BY <1>0, <2>1 DEF IInv, LockInv, Holding, taskVars
<1>5. TypeOK'
  BY <1>0, <1>1 DEF TypeOK, busVars, taskVars, sessionVars, turnVars, toolVars
<1> QED BY <1>2, <1>3, <1>4, <1>5 DEF IInv

\* Stopping only clears a flag.
LEMMA StopIInv == ASSUME IInv, Stop PROVE IInv'
<1>1. TypeOK /\ running' = FALSE
      /\ UNCHANGED <<inbound, consumed, outbound, polling, taskVars, sessionVars, turnVars, toolVars, subVars>>
  BY DEF IInv, Stop
<1>2. SubInv' /\ LockInv' /\ GateInv' /\ QueueInv' /\ TodoInv'
  BY <1>1, FramePreserves DEF subVars, turnVars
<1>3. TypeOK'
  BY <1>1 DEF TypeOK, taskVars, sessionVars, turnVars, toolVars, subVars
<1> QED BY <1>2, <1>3 DEF IInv

\* The poll that ends AgentLoop.run.
LEMMA PollTimesOutIInv == ASSUME IInv, PollTimesOut PROVE IInv'
<1>1. TypeOK /\ polling' = FALSE
      /\ UNCHANGED <<inbound, consumed, outbound, running, taskVars, sessionVars, turnVars, toolVars, subVars>>
  BY DEF IInv, PollTimesOut
<1>2. SubInv' /\ LockInv' /\ GateInv' /\ QueueInv' /\ TodoInv'
  BY <1>1, FramePreserves DEF subVars, turnVars
<1>3. TypeOK'
  BY <1>1 DEF TypeOK, taskVars, sessionVars, turnVars, toolVars, subVars
<1> QED BY <1>2, <1>3 DEF IInv

\* A stuttering step.
LEMMA StutterIInv == ASSUME IInv, UNCHANGED vars PROVE IInv'
<1>1. SubInv' /\ LockInv' /\ GateInv' /\ QueueInv' /\ TodoInv'
  BY FramePreserves DEF vars, taskVars
<1>2. TypeOK'
  BY DEF IInv, TypeOK, vars
<1> QED BY <1>1, <1>2 DEF IInv

\* Every step preserves the invariant.
LEMMA NextIInv == IInv /\ [Next]_vars => IInv'
<1> SUFFICES ASSUME IInv, [Next]_vars PROVE IInv'
  OBVIOUS
<1>1. ASSUME NEW u \in Users, Publish(u) PROVE IInv'
  BY <1>1, PublishIInv
<1>2. CASE Dispatch
  BY <1>2, DispatchIInv
<1>3. CASE PollTimesOut
  BY <1>3, PollTimesOutIInv
<1>4. ASSUME NEW m \in M, AcquireLock(m) \/ PassGate(m) \/ Begin(m)
      PROVE  IInv'
  BY <1>4, AcquireLockIInv, PassGateIInv, BeginIInv
<1>5. ASSUME NEW m \in M, ModelReplies(m) PROVE IInv'
  BY <1>5, ReplyToolsIInv, RepliesIInv DEF ModelReplies
<1>6. ASSUME NEW m \in M, ToolStep(m) \/ YieldTimesOut(m) PROVE IInv'
  BY <1>6, ToolsIInv, SpawnIInv, ToolsDoneIInv DEF ToolStep
<1>7. ASSUME NEW m \in M, Raise(m) \/ RaiseInSave(m) PROVE IInv'
  BY <1>7, RaiseIInv
<1>8. ASSUME NEW x \in Subs, Announce(x) \/ Cleanup(x) PROVE IInv'
  BY <1>8, AnnounceIInv, CleanupIInv
<1>9. CASE UNCHANGED vars
  BY <1>9, StutterIInv
<1>10. CASE Stop
  BY <1>10, StopIInv
<1> QED BY <1>10, <1>1, <1>2, <1>3, <1>4, <1>5, <1>6, <1>7, <1>8, <1>9 DEF Next, LoopStep, TurnStep

\* The invariant holds in every reachable state.
THEOREM InvariantHolds == Spec => []IInv
BY InitIInv, NextIInv, PTL DEF Spec

\* Every variable keeps its type; in particular no dispatch task ever takes the
\* tail of a lock's or the gate's queue without being in it.
THEOREM TypeCorrect == Spec => []TypeOK
<1>1. IInv => TypeOK
  BY DEF IInv
<1> QED BY InvariantHolds, <1>1, PTL

-----------------------------------------------------------------------------
(* Dispatch: what the queues of the locks hold.                            *)

Live == {"lock", "gate", "begin", "model", "tools"}

\* The queue of a lock holds live messages of its key, each once.
LockQueues ==
  \A k \in Keys : \A p \in 1..Len(lockQ[k]) :
    /\ pc[lockQ[k][p]] \in Live /\ Key(lockQ[k][p]) = k
    /\ \A q \in 1..Len(lockQ[k]) : lockQ[k][p] = lockQ[k][q] => p = q

\* Unfinished messages of a key queue for its lock as they were published.
QueuedInOrder ==
  \A i, j \in 1..consumed :
    /\ i < j
    /\ Key(inbound[i]) = Key(inbound[j])
    /\ pc[inbound[i]] # "done" /\ pc[inbound[j]] # "done"
    => \E p, q \in 1..Len(lockQ[Key(inbound[j])]) :
         /\ p < q
         /\ lockQ[Key(inbound[j])][p] = inbound[i]
         /\ lockQ[Key(inbound[j])][q] = inbound[j]

FifoInv == LockQueues /\ QueuedInOrder

-----------------------------------------------------------------------------
(* Every step of the loop is one of five, as far as the dispatcher goes.    *)

\* The keys of messages that have been published stay.
KeysStay == \A n \in M : pc[n] # "new" => Key(n)' = Key(n)

Quiet == /\ inbound' = inbound /\ consumed' = consumed /\ lockQ' = lockQ
         /\ KeysStay
         /\ \A n \in M : /\ Phase(n)' = Phase(n)
                         /\ (pc[n] = "new") = (pc'[n] = "new")
                         /\ pc[n] \in Live => pc'[n] \in Live
                         /\ pc[n] = "done" => pc'[n] = "done"

Publishes(u) == /\ pc[u] = "new" /\ pc' = [pc EXCEPT ![u] = "inbound"]
                /\ inbound' = Append(inbound, u)
                /\ consumed' = consumed /\ lockQ' = lockQ /\ origin' = origin

Stops(m) == pc[m] \in {"begin", "model", "tools"} /\ Release(m)

\* A task that moves within a phase, and a step that moves no task, are quiet.
LEMMA MoveIsQuiet ==
  ASSUME IInv, NEW m \in M, NEW p, pc' = [pc EXCEPT ![m] = p],
         \/ pc[m] = "lock" /\ p = "gate"
         \/ pc[m] \in {"begin", "model", "tools"} /\ p \in {"begin", "model", "tools"},
         UNCHANGED <<inbound, consumed, lockQ, origin>>
  PROVE  Quiet
<1>1. pc'[m] = p /\ \A n \in M : n # m => pc'[n] = pc[n]
  BY DEF IInv, TypeOK
<1>2. KeysStay
  BY DEF KeysStay, Key, Session
<1>3. \A n \in M : Phase(n)' = Phase(n)
  BY <1>1 DEF Phase
<1> QED BY <1>1, <1>2, <1>3 DEF Quiet, Live

\* A step that moves no task is quiet.
LEMMA FrameIsQuiet ==
  ASSUME IInv, UNCHANGED <<inbound, consumed, pc, lockQ>>, KeysStay
  PROVE  Quiet
BY DEF Quiet, Phase

\* Continuing a turn either keeps its task where it is or ends it.
LEMMA ContinueShape ==
  ASSUME IInv, NEW m \in M, pc[m] \in {"model", "tools"},
         NEW b, NEW feedback, NEW c, Continue(m, b, feedback, c)
  PROVE  Quiet \/ Stops(m)
<1>1. CASE IterationsLeft(m)
  <2>1. pc' = [pc EXCEPT ![m] = "model"] /\ UNCHANGED <<inbound, consumed, lockQ, origin>>
    BY <1>1 DEF Continue, busVars
  <2> QED BY <2>1, MoveIsQuiet
<1>2. CASE ~IterationsLeft(m)
  BY <1>2 DEF Continue, Finish, Stops
<1> QED BY <1>1, <1>2

\* The five kinds of steps.
LEMMA StepShapes ==
  ASSUME IInv, [Next]_vars
  PROVE  \/ Quiet \/ Dispatch
         \/ \E m \in M : Publishes(m) \/ PassGate(m) \/ Stops(m)
<1> DEFINE Shape == \/ Quiet \/ Dispatch
                    \/ \E m \in M : Publishes(m) \/ PassGate(m) \/ Stops(m)
<1> SUFFICES Shape
  OBVIOUS
<1>1. ASSUME NEW u \in Users, Publish(u) PROVE Shape
  <2>1. u \in M /\ Publishes(u)
    BY <1>1 DEF Publish, Publishes, subVars, M
  <2> QED BY <2>1
<1>2. ASSUME NEW m \in M, PassGate(m) PROVE Shape
  BY <1>2
<1>d. CASE Dispatch
  BY <1>d
<1>3. ASSUME UNCHANGED <<inbound, consumed, pc, lockQ, origin>> PROVE Shape
  <2>1. KeysStay
    BY <1>3 DEF KeysStay, Key, Session
  <2> QED BY <1>3, <2>1, FrameIsQuiet
<1>p. CASE PollTimesOut
  BY <1>3, <1>p DEF PollTimesOut, taskVars, subVars
<1>s. CASE Stop
  BY <1>3, <1>s DEF Stop, taskVars, subVars
<1>4. ASSUME NEW m \in M, AcquireLock(m) \/ Begin(m) \/ \E b \in Batches : ReplyTools(m, b)
      PROVE  Shape
  <2>1. UNCHANGED <<inbound, consumed, lockQ, origin>>
    BY <1>4 DEF AcquireLock, Begin, ReplyTools, busVars, subVars
  <2>2. \/ pc[m] = "lock" /\ pc' = [pc EXCEPT ![m] = "gate"]
        \/ pc[m] = "begin" /\ pc' = [pc EXCEPT ![m] = "model"]
        \/ pc[m] = "model" /\ pc' = [pc EXCEPT ![m] = "tools"]
    BY <1>4 DEF AcquireLock, Begin, ReplyTools
  <2> QED BY <2>1, <2>2, MoveIsQuiet
<1>5. ASSUME NEW m \in M, ReplyMalformed(m) \/ ToolsDone(m) PROVE Shape
  <2>1. pc[m] \in {"model", "tools"}
    BY <1>5 DEF ReplyMalformed, ToolsDone
  <2>2. (\E b, c : \E feedback \in BOOLEAN : Continue(m, b, feedback, c))
        \/ \E b, reason : Finish(m, b, reason)
    BY <1>5 DEF ReplyMalformed, ToolsDone
  <2>3. Quiet \/ Stops(m)
    BY <2>1, <2>2, ContinueShape DEF Finish, Stops
  <2> QED BY <2>3
<1>6. ASSUME NEW m \in M, ReplyFinal(m) \/ (\E reason \in Reasons : ReplyEnd(m, reason))
                          \/ Raise(m) \/ RaiseInSave(m)
      PROVE  Shape
  <2>1. Stops(m)
    BY <1>6 DEF ReplyFinal, ReplyEnd, Raise, RaiseInSave, Finish, Abort, Stops
  <2> QED BY <2>1
<1>7. ASSUME NEW m \in M, Exec(m) \/ SendMessage(m) \/ YieldPoll(m) \/ YieldTimesOut(m)
      PROVE  Shape
  <2>1. UNCHANGED <<inbound, consumed, pc, lockQ, origin>>
    BY <1>7 DEF Exec, SendMessage, YieldPoll, YieldTimesOut, busVars, taskVars, subVars
  <2>2. KeysStay
    BY <2>1 DEF KeysStay, Key, Session
  <2> QED BY <2>1, <2>2, FrameIsQuiet
<1>8. ASSUME NEW m \in M, NEW x \in Subs, Spawn(m, x) PROVE Shape
  <2>1. /\ UNCHANGED <<inbound, consumed, pc, lockQ>>
        /\ todo[m] # <<>> /\ Head(todo[m]) = x /\ origin' = [origin EXCEPT ![x] = toolCtx]
    BY <1>8 DEF Spawn, Calling, busVars, taskVars
  <2>2. pc[x] = "new"
    <3>1. todo[m] \in Seq(Tools \cup {"asleep"} \cup Subs)
      BY DEF IInv, TypeOK
    <3>2. todo[m][1] = x /\ 1 \in 1..Len(todo[m])
      BY <2>1, <3>1
    <3> QED BY <3>2 DEF IInv, TodoInv, SubInv
  <2>3. KeysStay
    BY <2>1, <2>2 DEF KeysStay, Key, Session, IInv, TypeOK
  <2> QED BY <2>1, <2>3, FrameIsQuiet
<1>9. ASSUME NEW x \in Subs, Announce(x) PROVE Shape
  <2>1. x \in M /\ Publishes(x)
    BY <1>9 DEF Announce, Publishes, IInv, SubInv, M
  <2> QED BY <2>1
<1>10. ASSUME NEW x \in Subs, Cleanup(x) PROVE Shape
  <2>1. UNCHANGED <<inbound, consumed, pc, lockQ, origin>>
    BY <1>10 DEF Cleanup, busVars, taskVars
  <2>2. KeysStay
    BY <2>1 DEF KeysStay, Key, Session
  <2> QED BY <2>1, <2>2, FrameIsQuiet
<1> HIDE DEF Shape
<1>11. ASSUME NEW m \in M, ModelReplies(m) PROVE Shape
  BY <1>4, <1>5, <1>6, <1>11 DEF ModelReplies
<1>12. ASSUME NEW m \in M, ToolStep(m) PROVE Shape
  BY <1>5, <1>7, <1>8, <1>12 DEF ToolStep
<1>13. ASSUME NEW m \in M, TurnStep(m) PROVE Shape
  BY <1>2, <1>4, <1>11, <1>12, <1>13 DEF TurnStep
<1>14. ASSUME NEW m \in M, YieldTimesOut(m) \/ Raise(m) \/ RaiseInSave(m) PROVE Shape
  BY <1>6, <1>7, <1>14
<1>15. ASSUME LoopStep PROVE Shape
  <2>1. CASE PollTimesOut \/ Dispatch
    BY <1>p, <1>d, <2>1
  <2>2. CASE \E m \in M : TurnStep(m) \/ YieldTimesOut(m) \/ Raise(m) \/ RaiseInSave(m)
    BY <1>13, <1>14, <2>2
  <2>3. CASE \E x \in Subs : Announce(x) \/ Cleanup(x)
    BY <1>9, <1>10, <2>3
  <2> QED BY <1>15, <2>1, <2>2, <2>3 DEF LoopStep
<1>16. CASE UNCHANGED vars
  BY <1>3, <1>16 DEF vars
<1> QED BY <1>1, <1>15, <1>16, <1>s DEF Next

-----------------------------------------------------------------------------
(* The locks are fair.                                                      *)

\* Initially nothing is dispatched and every queue is empty.
LEMMA InitFifo == Init => FifoInv
BY DEF Init, FifoInv, LockQueues, QueuedInOrder

\* Published messages that have been dispatched keep their keys.
LEMMA QuietFifo ==
  ASSUME IInv, FifoInv, Quiet
  PROVE  FifoInv'
<1>1. TypeOK /\ inbound \in Seq(M) /\ lockQ \in [Keys -> Seq(M)] /\ consumed \in Nat
      /\ consumed <= Len(inbound)
  BY DEF IInv, TypeOK, QueueInv
<1>2. LockQueues'
  <2> SUFFICES ASSUME NEW k \in Keys, NEW p \in 1..Len(lockQ[k])
               PROVE  /\ pc'[lockQ[k][p]] \in Live /\ Key(lockQ[k][p])' = k
                      /\ \A q \in 1..Len(lockQ[k]) : lockQ[k][p] = lockQ[k][q] => p = q
    BY DEF LockQueues, Quiet
  <2>1. lockQ[k][p] \in M /\ pc[lockQ[k][p]] \in Live
    BY <1>1 DEF FifoInv, LockQueues
  <2>2. pc[lockQ[k][p]] # "new"
    BY <2>1 DEF Live
  <2>3. Key(lockQ[k][p])' = Key(lockQ[k][p])
    BY <2>1, <2>2 DEF Quiet, KeysStay
  <2> QED BY <2>1, <2>3 DEF FifoInv, LockQueues, Quiet
<1>3. QueuedInOrder'
  <2> SUFFICES ASSUME NEW i \in 1..consumed, NEW j \in 1..consumed, i < j,
                      Key(inbound[i])' = Key(inbound[j])',
                      pc'[inbound[i]] # "done", pc'[inbound[j]] # "done"
               PROVE  \E p, q \in 1..Len(lockQ[Key(inbound[j])']) :
                        /\ p < q
                        /\ lockQ[Key(inbound[j])'][p] = inbound[i]
                        /\ lockQ[Key(inbound[j])'][q] = inbound[j]
    BY DEF QueuedInOrder, Quiet
  <2>1. inbound[i] \in M /\ inbound[j] \in M /\ i \in 1..Len(inbound) /\ j \in 1..Len(inbound)
    BY <1>1
  <2>2. pc[inbound[i]] # "new" /\ pc[inbound[j]] # "new"
    BY <2>1 DEF IInv, QueueInv
  <2>3. Key(inbound[i])' = Key(inbound[i]) /\ Key(inbound[j])' = Key(inbound[j])
    BY <2>1, <2>2 DEF Quiet, KeysStay
  <2>4. pc[inbound[i]] # "done" /\ pc[inbound[j]] # "done"
    BY <2>1 DEF Quiet
  <2>5. \E p, q \in 1..Len(lockQ[Key(inbound[j])]) :
          /\ p < q
          /\ lockQ[Key(inbound[j])][p] = inbound[i]
          /\ lockQ[Key(inbound[j])][q] = inbound[j]
    <3>1. Key(inbound[i]) = Key(inbound[j])
      BY <2>3
    <3> QED BY <2>4, <3>1 DEF FifoInv, QueuedInOrder
  <2> QED BY <2>3, <2>5
<1> QED BY <1>2, <1>3 DEF FifoInv

\* The same when a message is published or passes the gate: what is in the
\* lock's queues and dispatched is left alone.
LEMMA AliveFifo ==
  ASSUME IInv, FifoInv, NEW m \in M, Publishes(m) \/ PassGate(m)
  PROVE  FifoInv'
<1>1. TypeOK /\ inbound \in Seq(M) /\ lockQ \in [Keys -> Seq(M)] /\ consumed \in Nat
      /\ consumed <= Len(inbound) /\ m \in M
  BY DEF IInv, TypeOK, QueueInv
<1>2. consumed' = consumed /\ lockQ' = lockQ /\ \A n \in M : Key(n)' = Key(n)
  BY DEF Publishes, PassGate, busVars, subVars, Key, Session
<1>3. \A n \in M : pc'[n] = pc[n] \/ (pc[n] = "gate" /\ pc'[n] = "begin") \/ pc[n] = "new"
  <2>1. pc' = [pc EXCEPT ![m] = "inbound"] \/ pc' = [pc EXCEPT ![m] = "begin"]
    BY DEF Publishes, PassGate
  <2>2. \A n \in M : n # m => pc'[n] = pc[n]
    BY <1>1, <2>1 DEF TypeOK
  <2>3. pc[m] = "new" \/ (pc[m] = "gate" /\ pc'[m] = "begin")
    BY <1>1 DEF Publishes, PassGate, TypeOK
  <2> QED BY <2>2, <2>3
<1>4. \A i \in 1..consumed : inbound'[i] = inbound[i] /\ inbound[i] \in M /\ i \in 1..Len(inbound)
  <2> TAKE i \in 1..consumed
  <2>1. inbound' = inbound \/ inbound' = Append(inbound, m)
    BY DEF Publishes, PassGate, busVars
  <2>2. i \in 1..Len(inbound) /\ inbound[i] \in M
    BY <1>1
  <2>3. Append(inbound, m)[i] = inbound[i]
    BY <1>1, <2>2, AppendProperties
  <2> QED BY <2>1, <2>2, <2>3
<1>5. LockQueues'
  <2> SUFFICES ASSUME NEW k \in Keys, NEW p \in 1..Len(lockQ[k])
               PROVE  /\ pc'[lockQ[k][p]] \in Live /\ Key(lockQ[k][p])' = k
                      /\ \A q \in 1..Len(lockQ[k]) : lockQ[k][p] = lockQ[k][q] => p = q
    BY <1>2 DEF LockQueues
  <2>1. lockQ[k][p] \in M /\ pc[lockQ[k][p]] \in Live
    BY <1>1 DEF FifoInv, LockQueues
  <2> QED BY <1>2, <1>3, <2>1 DEF FifoInv, LockQueues, Live
<1>6. QueuedInOrder'
  <2> SUFFICES ASSUME NEW i \in 1..consumed, NEW j \in 1..consumed, i < j,
                      Key(inbound[i]) = Key(inbound[j]),
                      pc'[inbound[i]] # "done", pc'[inbound[j]] # "done"
               PROVE  \E p, q \in 1..Len(lockQ[Key(inbound[j])]) :
                        /\ p < q
                        /\ lockQ[Key(inbound[j])][p] = inbound[i]
                        /\ lockQ[Key(inbound[j])][q] = inbound[j]
    <3>1. \A i \in 1..consumed : (Key(inbound[i]))' = Key(inbound[i])
      BY <1>2, <1>4
    <3> QED BY <1>2, <1>4, <3>1 DEF QueuedInOrder
  <2>1. pc[inbound[i]] # "done" /\ pc[inbound[j]] # "done"
    BY <1>3, <1>4
  <2> QED BY <2>1 DEF FifoInv, QueuedInOrder
<1> QED BY <1>5, <1>6 DEF FifoInv

\* A live message is in the queue of its lock.
LEMMA LiveIsQueued ==
  ASSUME IInv, NEW m \in M, pc[m] \in Live
  PROVE  \E p \in 1..Len(lockQ[Key(m)]) : lockQ[Key(m)][p] = m
<1>1. lockQ[Key(m)] \in Seq(M)
  BY KeyType DEF IInv, TypeOK
<1>2. CASE pc[m] = "lock"
  BY <1>2 DEF IInv, LockInv
<1>3. CASE Holding(m)
  <2>1. lockQ[Key(m)] # <<>> /\ Head(lockQ[Key(m)]) = m
    BY <1>3 DEF IInv, LockInv
  <2>2. 1 \in 1..Len(lockQ[Key(m)]) /\ lockQ[Key(m)][1] = m
    BY <1>1, <2>1
  <2> QED BY <2>2
<1> QED BY <1>2, <1>3 DEF Live, Holding

\* A dispatched message goes to the end of its lock's queue.
LEMMA DispatchFifo ==
  ASSUME IInv, FifoInv, Dispatch
  PROVE  FifoInv'
<1> DEFINE m == inbound[consumed + 1]
           k == Key(m)
           n == Len(lockQ[k])
<1>1. TypeOK /\ inbound \in Seq(M) /\ consumed \in Nat /\ consumed < Len(inbound) /\ inbound' = inbound
      /\ consumed' = consumed + 1 /\ lockQ \in [Keys -> Seq(M)]
  BY DEF IInv, TypeOK, Dispatch
<1>2. m \in M /\ pc[m] = "inbound"
  BY <1>1 DEF IInv, QueueInv
<1>3. k \in Keys /\ lockQ[k] \in Seq(M) /\ n \in Nat
  <2> HIDE DEF m
  <2>1. k \in Keys
    BY <1>1, <1>2, KeyType
  <2> HIDE DEF k
  <2> QED BY <1>1, <2>1
<1>4. pc' = [pc EXCEPT ![m] = "lock"] /\ lockQ' = [lockQ EXCEPT ![k] = Append(@, m)]
  BY DEF Dispatch
<1>5. \A l \in M : (Key(l))' = Key(l)
  BY DEF Dispatch, subVars, Key, Session
<1>m. inbound[consumed + 1] = m
  OBVIOUS
<1>6. \A i \in 1..consumed : inbound[i] \in M /\ inbound[i] # m /\ i \in 1..Len(inbound)
  BY <1>1 DEF IInv, QueueInv
<1> HIDE DEF m
<1>7. pc'[m] = "lock" /\ \A l \in M : l # m => pc'[l] = pc[l]
  BY <1>1, <1>2, <1>4 DEF TypeOK
<1>k. Key(m) = k
  OBVIOUS
<1> HIDE DEF k
<1>8. /\ lockQ'[k] = Append(lockQ[k], m) /\ \A l \in Keys : l # k => lockQ'[l] = lockQ[l]
      /\ Len(lockQ'[k]) = n + 1 /\ lockQ'[k][n + 1] = m
      /\ \A p \in 1..n : lockQ'[k][p] = lockQ[k][p]
  BY <1>1, <1>2, <1>3, <1>4
<1>9. \A l \in Keys : \A p \in 1..Len(lockQ[l]) :
         /\ p \in 1..Len(lockQ'[l]) /\ lockQ'[l][p] = lockQ[l][p]
         /\ lockQ[l][p] \in M /\ lockQ[l][p] # m
  <2> TAKE l \in Keys
  <2> TAKE p \in 1..Len(lockQ[l])
  <2>1. lockQ[l] \in Seq(M) /\ lockQ[l][p] \in M /\ Len(lockQ[l]) \in Nat
    BY <1>1
  <2>2. lockQ[l][p] # m
    BY <1>2 DEF FifoInv, LockQueues, Live
  <2>3. p \in 1..Len(lockQ'[l]) /\ lockQ'[l][p] = lockQ[l][p]
    <3>1. CASE l = k
      BY <1>3, <1>8, <3>1
    <3>2. CASE l # k
      BY <1>8, <3>2
    <3> QED BY <3>1, <3>2
  <2> QED BY <2>1, <2>2, <2>3
<1>10. \A l \in Keys : \A p \in 1..Len(lockQ'[l]) :
          p \in 1..Len(lockQ[l]) \/ (l = k /\ p = n + 1 /\ lockQ'[l][p] = m)
  BY <1>3, <1>8
<1>11. LockQueues'
  <2> SUFFICES ASSUME NEW l \in Keys, NEW p \in 1..Len(lockQ'[l])
               PROVE  /\ pc'[lockQ'[l][p]] \in Live /\ (Key(lockQ[l][p]))' = l
                      /\ \A q \in 1..Len(lockQ'[l]) : lockQ'[l][p] = lockQ'[l][q] => p = q
    BY DEF LockQueues
  <2>1. CASE p \in 1..Len(lockQ[l])
    <3>1. lockQ'[l][p] = lockQ[l][p] /\ lockQ[l][p] \in M /\ lockQ[l][p] # m
      BY <1>9, <2>1
    <3>2. pc'[lockQ'[l][p]] \in Live
      BY <1>7, <2>1, <3>1 DEF FifoInv, LockQueues
    <3>3. (Key(lockQ[l][p]))' = l
      BY <1>5, <2>1, <3>1 DEF FifoInv, LockQueues
    <3>4. ASSUME NEW q \in 1..Len(lockQ'[l]), lockQ'[l][p] = lockQ'[l][q]
          PROVE  p = q
      <4>1. q \in 1..Len(lockQ[l])
        BY <1>10, <3>1, <3>4
      <4>2. lockQ'[l][q] = lockQ[l][q]
        BY <1>9, <4>1
      <4> QED BY <2>1, <3>1, <3>4, <4>1, <4>2 DEF FifoInv, LockQueues
    <3> QED BY <3>2, <3>3, <3>4
  <2>2. CASE l = k /\ p = n + 1 /\ lockQ'[l][p] = m
    <3>1. pc'[lockQ'[l][p]] \in Live
      BY <1>7, <2>2 DEF Live
    <3>2. (Key(lockQ[l][p]))' = l
      BY <1>2, <1>5, <1>k, <2>2
    <3>3. ASSUME NEW q \in 1..Len(lockQ'[l]), lockQ'[l][p] = lockQ'[l][q]
          PROVE  p = q
      BY <1>9, <1>10, <2>2, <3>3
    <3> QED BY <3>1, <3>2, <3>3
  <2> QED BY <1>10, <2>1, <2>2
<1>12. QueuedInOrder'
  <2> SUFFICES ASSUME NEW i \in 1..consumed', NEW j \in 1..consumed', i < j,
                      Key(inbound[i]) = Key(inbound[j]),
                      pc'[inbound[i]] # "done", pc'[inbound[j]] # "done"
               PROVE  \E p, q \in 1..Len(lockQ'[Key(inbound[j])]) :
                        /\ p < q
                        /\ lockQ'[Key(inbound[j])][p] = inbound[i]
                        /\ lockQ'[Key(inbound[j])][q] = inbound[j]
    <3>1. \A i \in 1..consumed' : (Key(inbound[i]))' = Key(inbound[i])
      BY <1>1, <1>5
    <3>2. \A i \in 1..consumed' : inbound'[i] = inbound[i]
      BY <1>1
    <3> QED BY <3>1, <3>2 DEF QueuedInOrder
  <2>1. i \in 1..consumed /\ inbound[i] \in M /\ inbound[i] # m /\ pc[inbound[i]] # "done"
    BY <1>1, <1>6, <1>7
  <2>2. CASE j \in 1..consumed
    <3>1. inbound[j] \in M /\ pc[inbound[j]] # "done" /\ Key(inbound[j]) \in Keys
      BY <1>1, <1>6, <1>7, <2>2, KeyType
    <3>2. PICK p, q \in 1..Len(lockQ[Key(inbound[j])]) :
             /\ p < q
             /\ lockQ[Key(inbound[j])][p] = inbound[i]
             /\ lockQ[Key(inbound[j])][q] = inbound[j]
      BY <2>1, <2>2, <3>1 DEF FifoInv, QueuedInOrder
    <3> QED BY <1>9, <3>1, <3>2
  <2>3. CASE j = consumed + 1
    <3>1. Key(inbound[i]) = k /\ Key(inbound[j]) = k /\ inbound[j] = m
      BY <1>m, <1>k, <2>3
    <3>2. pc[inbound[i]] \in Live
      <4>1. pc[inbound[i]] \notin {"new", "inbound"}
        BY <1>1, <1>6, <2>1 DEF IInv, QueueInv
      <4> QED BY <1>1, <2>1, <4>1 DEF TypeOK, Live
    <3>3. PICK p \in 1..n : lockQ[k][p] = inbound[i]
      BY <2>1, <3>1, <3>2, LiveIsQueued
    <3>4. p < n + 1 /\ p \in 1..Len(lockQ'[k]) /\ n + 1 \in 1..Len(lockQ'[k])
          /\ lockQ'[k][p] = inbound[i] /\ lockQ'[k][n + 1] = inbound[j]
      BY <1>3, <1>8, <3>1, <3>3
    <3> QED BY <3>1, <3>4
  <2> QED BY <1>1, <2>2, <2>3
<1> QED BY <1>11, <1>12 DEF FifoInv

\* A task that ends leaves the queue of its lock from the head.
LEMMA EndFifo ==
  ASSUME IInv, FifoInv, NEW m \in M, Stops(m)
  PROVE  FifoInv'
<1> DEFINE k == Key(m)
<1>1. TypeOK /\ inbound \in Seq(M) /\ consumed \in Nat /\ consumed <= Len(inbound) /\ k \in Keys
      /\ lockQ \in [Keys -> Seq(M)] /\ inbound' = inbound /\ consumed' = consumed
  BY KeyType DEF IInv, TypeOK, QueueInv, Stops, Release
<1>2. pc'[m] = "done" /\ \A l \in M : l # m => pc'[l] = pc[l]
  BY <1>1 DEF TypeOK, Stops, Release
<1>3. lockQ[k] # <<>> /\ Head(lockQ[k]) = m
  BY DEF IInv, LockInv, Holding, Stops
<1>4. \A l \in M : (Key(l))' = Key(l)
  BY DEF Stops, Release, Key, Session
<1>5. lockQ' = [lockQ EXCEPT ![k] = Tail(@)]
  BY DEF Stops, Release
<1> HIDE DEF k
<1>6. /\ lockQ[k] \in Seq(M) /\ Len(lockQ[k]) \in Nat /\ lockQ[k][1] = m
      /\ Len(lockQ'[k]) = Len(lockQ[k]) - 1
      /\ \A p \in 1..Len(lockQ'[k]) : lockQ'[k][p] = lockQ[k][p + 1]
      /\ \A l \in Keys : l # k => lockQ'[l] = lockQ[l]
  <2>1. lockQ[k] \in Seq(M) /\ Len(lockQ[k]) \in Nat /\ lockQ[k][1] = m
    BY <1>1, <1>3
  <2>2. /\ Len(Tail(lockQ[k])) = Len(lockQ[k]) - 1
        /\ \A p \in 1..Len(lockQ[k]) - 1 : Tail(lockQ[k])[p] = lockQ[k][p + 1]
    BY <1>3, <2>1
  <2>3. lockQ'[k] = Tail(lockQ[k]) /\ \A l \in Keys : l # k => lockQ'[l] = lockQ[l]
    BY <1>1, <1>5
  <2> QED BY <2>1, <2>2, <2>3
<1> DEFINE old(l, p) == IF l = k THEN p + 1 ELSE p
<1>7. ASSUME NEW l \in Keys, NEW p \in 1..Len(lockQ'[l])
      PROVE  /\ old(l, p) \in 1..Len(lockQ[l]) /\ lockQ'[l][p] = lockQ[l][old(l, p)]
             /\ lockQ[l][old(l, p)] \in M /\ lockQ[l][old(l, p)] # m
             /\ p \in Nat
  <2>1. CASE l = k
    <3>1. old(l, p) \in 1..Len(lockQ[l]) /\ lockQ'[l][p] = lockQ[l][old(l, p)] /\ p \in Nat
      BY <1>6, <2>1
    <3>2. 1 \in 1..Len(lockQ[k]) /\ old(l, p) # 1
      BY <1>6, <2>1
    <3>3. lockQ[l][old(l, p)] # m
      BY <1>1, <1>6, <2>1, <3>1, <3>2 DEF FifoInv, LockQueues
    <3>4. lockQ[l][old(l, p)] \in M
      BY <1>6, <2>1, <3>1
    <3> QED BY <3>1, <3>3, <3>4
  <2>2. CASE l # k
    <3>1. lockQ[l] \in Seq(M) /\ lockQ'[l] = lockQ[l] /\ p \in 1..Len(lockQ[l])
      BY <1>1, <1>6, <2>2
    <3>2. lockQ[l][p] \in M /\ p \in Nat
      BY <3>1
    <3>3. Key(lockQ[l][p]) = l
      BY <3>1 DEF FifoInv, LockQueues
    <3>4. lockQ[l][p] # m
      BY <2>2, <3>3 DEF k
    <3> QED BY <2>2, <3>1, <3>2, <3>4
  <2> QED BY <2>1, <2>2
<1>8. LockQueues'
  <2> SUFFICES ASSUME NEW l \in Keys, NEW p \in 1..Len(lockQ'[l])
               PROVE  /\ pc'[lockQ'[l][p]] \in Live /\ (Key(lockQ[l][p]))' = l
                      /\ \A q \in 1..Len(lockQ'[l]) : lockQ'[l][p] = lockQ'[l][q] => p = q
    BY DEF LockQueues
  <2>1. /\ old(l, p) \in 1..Len(lockQ[l]) /\ lockQ'[l][p] = lockQ[l][old(l, p)]
        /\ lockQ[l][old(l, p)] \in M /\ lockQ[l][old(l, p)] # m
    BY <1>7
  <2>a. pc[lockQ[l][old(l, p)]] \in Live /\ Key(lockQ[l][old(l, p)]) = l
    BY <2>1 DEF FifoInv, LockQueues
  <2>2. pc'[lockQ'[l][p]] \in Live
    BY <1>2, <2>1, <2>a
  <2>3. (Key(lockQ[l][p]))' = l
    BY <1>4, <2>1, <2>a
  <2>4. ASSUME NEW q \in 1..Len(lockQ'[l]), lockQ'[l][p] = lockQ'[l][q]
        PROVE  p = q
    <3>1. old(l, q) \in 1..Len(lockQ[l]) /\ lockQ'[l][q] = lockQ[l][old(l, q)] /\ q \in Nat /\ p \in Nat
      BY <1>7
    <3>2. old(l, p) = old(l, q)
      <4> HIDE DEF old
      <4> QED BY <2>1, <2>4, <3>1 DEF FifoInv, LockQueues
    <3> QED BY <3>1, <3>2
  <2> QED BY <2>2, <2>3, <2>4
<1>9. QueuedInOrder'
  <2> SUFFICES ASSUME NEW i \in 1..consumed, NEW j \in 1..consumed, i < j,
                      Key(inbound[i]) = Key(inbound[j]),
                      pc'[inbound[i]] # "done", pc'[inbound[j]] # "done"
               PROVE  \E p, q \in 1..Len(lockQ'[Key(inbound[j])]) :
                        /\ p < q
                        /\ lockQ'[Key(inbound[j])][p] = inbound[i]
                        /\ lockQ'[Key(inbound[j])][q] = inbound[j]
    <3>1. \A i \in 1..consumed : (Key(inbound[i]))' = Key(inbound[i])
      BY <1>1, <1>4
    <3>2. consumed' = consumed /\ \A i \in 1..consumed : inbound'[i] = inbound[i]
      BY <1>1
    <3> QED BY <3>1, <3>2 DEF QueuedInOrder
  <2>1. inbound[i] \in M /\ inbound[j] \in M
    BY <1>1
  <2>2. inbound[i] # m /\ inbound[j] # m
    BY <1>2
  <2>3. pc[inbound[i]] # "done" /\ pc[inbound[j]] # "done" /\ Key(inbound[j]) \in Keys
    BY <1>1, <1>2, <2>1, <2>2, KeyType
  <2> DEFINE l == Key(inbound[j])
  <2>4. PICK p, q \in 1..Len(lockQ[l]) :
          p < q /\ lockQ[l][p] = inbound[i] /\ lockQ[l][q] = inbound[j]
    BY <2>3 DEF FifoInv, QueuedInOrder
  <2>5. l \in Keys
    BY <2>3
  <2> HIDE DEF l
  <2>6. CASE l = k
    <3>1. p # 1 /\ q # 1
      BY <1>6, <2>2, <2>4, <2>6
    <3>2. p - 1 \in 1..Len(lockQ'[l]) /\ q - 1 \in 1..Len(lockQ'[l]) /\ p - 1 < q - 1
          /\ lockQ'[l][p - 1] = inbound[i] /\ lockQ'[l][q - 1] = inbound[j]
      BY <1>6, <2>4, <2>6, <3>1
    <3> QED BY <3>2 DEF l
  <2>7. CASE l # k
    <3>1. lockQ'[l] = lockQ[l]
      BY <1>6, <2>5, <2>7
    <3>2. \E a, b \in 1..Len(lockQ'[l]) : a < b /\ lockQ'[l][a] = inbound[i] /\ lockQ'[l][b] = inbound[j]
      BY <2>4, <3>1
    <3> QED BY <3>2 DEF l
  <2> QED BY <2>6, <2>7
<1> QED BY <1>8, <1>9 DEF FifoInv

\* Every step keeps the queues in the order of publication.
LEMMA NextFifo == IInv /\ FifoInv /\ [Next]_vars => FifoInv'
BY StepShapes, QuietFifo, DispatchFifo, AliveFifo, EndFifo

-----------------------------------------------------------------------------
(* The refinement.                                                          *)

KeyMap == [m \in M |-> IF pc[m] = "new" THEN NoKey ELSE Key(m)]
PhaseMap == [m \in M |-> Phase(m)]

\* Initial states are initial states of the dispatcher.
LEMMA InitRefines == Init => D!Init
BY DEF Init, D!Init, Phase

\* A turn begins when every earlier message of its key is finished.
LEMMA PassGateStarts ==
  ASSUME IInv, FifoInv, NEW m \in M, PassGate(m)
  PROVE  D!Start(m)
<1>1. /\ TypeOK /\ pc[m] = "gate" /\ pc' = [pc EXCEPT ![m] = "begin"]
      /\ inbound \in Seq(M) /\ inbound' = inbound /\ origin' = origin
  BY DEF PassGate, busVars, subVars, IInv, TypeOK
<1>2. pc'[m] = "begin" /\ \A n \in M : n # m => pc'[n] = pc[n]
  BY <1>1 DEF TypeOK
<1>3. KeyMap' = KeyMap
  <2>1. \A n \in M : (Key(n))' = Key(n) /\ (pc'[n] = "new" <=> pc[n] = "new")
    BY <1>1, <1>2 DEF Key, Session
  <2> QED BY <2>1 DEF KeyMap, NoKey
<1>4. PhaseMap[m] = "waiting" /\ PhaseMap' = [PhaseMap EXCEPT ![m] = "processing"]
  <2>1. Phase(m) = "waiting" /\ (Phase(m))' = "processing"
    BY <1>1, <1>2 DEF Phase
  <2>2. \A n \in M : n # m => (Phase(n))' = Phase(n)
    BY <1>2 DEF Phase
  <2> QED BY <2>1, <2>2 DEF PhaseMap
<1>5. ASSUME NEW i \in 1..Len(inbound), NEW j \in 1..Len(inbound), i < j, inbound[j] = m,
             KeyMap[inbound[i]] = KeyMap[m]
      PROVE  PhaseMap[inbound[i]] = "finished"
  <2>0. consumed \in Nat /\ inbound[i] \in M
    BY <1>1 DEF TypeOK
  <2>1. j <= consumed
    BY <1>1, <1>5 DEF IInv, QueueInv
  <2>2. pc[inbound[i]] \notin {"new", "inbound"} /\ i \in 1..consumed /\ j \in 1..consumed
    BY <1>5, <2>0, <2>1 DEF IInv, QueueInv
  <2>3. Key(inbound[i]) = Key(m)
    BY <1>1, <1>5, <2>0, <2>2 DEF KeyMap
  <2>4. pc[inbound[i]] = "done"
    <3> SUFFICES ASSUME pc[inbound[i]] # "done" PROVE FALSE
      OBVIOUS
    <3>1. PICK p, q \in 1..Len(lockQ[Key(m)]) : p < q /\ lockQ[Key(m)][q] = m
      BY <1>1, <1>5, <2>2, <2>3 DEF FifoInv, QueuedInOrder
    <3>2. Key(m) \in Keys /\ lockQ[Key(m)] \in Seq(M)
      BY <1>1, KeyType DEF TypeOK
    <3>3. lockQ[Key(m)] # <<>> /\ Head(lockQ[Key(m)]) = m
      BY <1>1 DEF IInv, LockInv, Holding
    <3>4. 1 \in 1..Len(lockQ[Key(m)]) /\ lockQ[Key(m)][1] = m
      BY <3>2, <3>3
    <3>5. q = 1
      BY <3>1, <3>2, <3>4 DEF FifoInv, LockQueues
    <3> QED BY <3>1, <3>5
  <2> QED BY <2>0, <2>4 DEF PhaseMap, Phase
<1>6. {n \in M : PhaseMap[n] = "processing"} = Running
  BY <1>1 DEF PhaseMap, Phase, Running, TypeOK
<1>7. Cardinality(Running) < GateLimit
  BY DEF PassGate, GateHasSlot
<1>8. D!FirstOfKey(m)
  BY <1>5 DEF D!FirstOfKey, KeyMap, PhaseMap
<1>9. D!Cardinality(D!Active) < GateLimit
  <2>1. D!Cardinality(Running) = Cardinality(Running)
    BY DEF D!Cardinality, Cardinality
  <2> QED BY <1>6, <1>7, <2>1 DEF D!Active, PhaseMap
<1>10. /\ [n \in M |-> Phase(n)][m] = "waiting"
       /\ [n \in M |-> Phase(n)]' = [[n \in M |-> Phase(n)] EXCEPT ![m] = "processing"]
  BY <1>4 DEF PhaseMap
<1>11. UNCHANGED <<inbound, [n \in M |-> IF pc[n] = "new" THEN NoKey ELSE Key(n)]>>
  BY <1>1, <1>3 DEF KeyMap
<1>12. /\ inbound' = inbound
       /\ [n \in M |-> IF pc[n] = "new" THEN NoKey ELSE Key(n)]' = [n \in M |-> IF pc[n] = "new" THEN NoKey ELSE Key(n)]
  BY <1>1, <1>3 DEF KeyMap
<1> QED BY <1>8, <1>9, <1>10, <1>12 DEF D!Start

\* Every step is a step of the dispatcher, or it stutters.
LEMMA StepRefines ==
  ASSUME IInv, FifoInv, [Next]_vars
  PROVE  [D!Next]_(D!vars)
<1>0. TypeOK
  BY DEF IInv
<1>1. CASE Quiet
  <2>1. \A n \in M : (Phase(n))' = Phase(n)
    BY <1>1 DEF Quiet
  <2>2. \A n \in M : (pc[n] = "new") = (pc'[n] = "new") /\ (pc[n] # "new" => (Key(n))' = Key(n))
    BY <1>1 DEF Quiet, KeysStay
  <2>3. KeyMap' = KeyMap /\ PhaseMap' = PhaseMap /\ inbound' = inbound
    BY <1>1, <2>1, <2>2 DEF KeyMap, PhaseMap, Quiet, NoKey
  <2> QED BY <2>3 DEF D!vars, KeyMap, PhaseMap
<1>2. CASE Dispatch
  <2> DEFINE m == inbound[consumed + 1]
  <2>1. pc' = [pc EXCEPT ![m] = "lock"] /\ inbound' = inbound /\ origin' = origin
    BY <1>2 DEF Dispatch, subVars
  <2>2. m \in M /\ pc[m] = "inbound"
    BY <1>0, <1>2 DEF Dispatch, TypeOK, IInv, QueueInv
  <2> HIDE DEF m
  <2>3. pc'[m] = "lock" /\ \A n \in M : n # m => pc'[n] = pc[n]
    BY <1>0, <2>1, <2>2 DEF TypeOK
  <2>4. \A n \in M : (Phase(n))' = Phase(n)
    BY <2>2, <2>3 DEF Phase
  <2>5. \A n \in M : (pc[n] = "new") = (pc'[n] = "new") /\ (Key(n))' = Key(n)
    BY <2>1, <2>2, <2>3 DEF Key, Session
  <2>6. KeyMap' = KeyMap /\ PhaseMap' = PhaseMap
    BY <2>4, <2>5 DEF KeyMap, PhaseMap, NoKey
  <2> QED BY <2>1, <2>6 DEF D!vars, KeyMap, PhaseMap
<1>3. ASSUME NEW m \in M, Publishes(m), NEW k \in Keys, k = Key(m)
      PROVE  D!Publish(m, k)
  <2>1. pc[m] = "new" /\ pc'[m] = "inbound" /\ \A n \in M : n # m => pc'[n] = pc[n]
    BY <1>0, <1>3 DEF Publishes, TypeOK
  <2>2. \A n \in M : (Key(n))' = Key(n)
    BY <1>3 DEF Publishes, Key, Session
  <2>3. PhaseMap[m] = "new" /\ PhaseMap' = [PhaseMap EXCEPT ![m] = "waiting"]
    <3>1. Phase(m) = "new" /\ (Phase(m))' = "waiting" /\ \A n \in M : n # m => (Phase(n))' = Phase(n)
      BY <2>1 DEF Phase
    <3> QED BY <3>1 DEF PhaseMap
  <2>4. KeyMap' = [KeyMap EXCEPT ![m] = k]
    BY <1>3, <2>1, <2>2 DEF KeyMap, NoKey
  <2>5. inbound' = Append(inbound, m)
    BY <1>3 DEF Publishes
  <2> QED BY <2>3, <2>4, <2>5 DEF D!Publish, KeyMap, PhaseMap
<1>4. ASSUME NEW m \in M, PassGate(m)
      PROVE  D!Start(m)
  BY <1>4, PassGateStarts
<1>5. ASSUME NEW m \in M, Stops(m)
      PROVE  D!End(m)
  <2>1. /\ pc[m] \in {"begin", "model", "tools"} /\ pc'[m] = "done"
        /\ \A n \in M : n # m => pc'[n] = pc[n]
    BY <1>0, <1>5 DEF Stops, Release, TypeOK
  <2>2. \A n \in M : (Key(n))' = Key(n)
    BY <1>5 DEF Stops, Release, Key, Session
  <2>3. PhaseMap[m] = "processing" /\ PhaseMap' = [PhaseMap EXCEPT ![m] = "finished"]
    <3>1. Phase(m) = "processing" /\ (Phase(m))' = "finished" /\ \A n \in M : n # m => (Phase(n))' = Phase(n)
      BY <2>1 DEF Phase
    <3> QED BY <3>1 DEF PhaseMap
  <2>4. KeyMap' = KeyMap
    BY <2>1, <2>2 DEF KeyMap, NoKey
  <2>5. inbound' = inbound
    BY <1>5 DEF Stops, Release
  <2> QED BY <2>3, <2>4, <2>5 DEF D!End, KeyMap, PhaseMap
<1>6. CASE \E m \in M : Publishes(m) \/ PassGate(m) \/ Stops(m)
  <2>1. PICK m \in M : Publishes(m) \/ PassGate(m) \/ Stops(m)
    BY <1>6
  <2>2. (\E k \in Keys : D!Publish(m, k)) \/ D!Start(m) \/ D!End(m)
    <3>1. CASE Publishes(m)
      <4>1. PICK k \in Keys : k = Key(m)
        BY <1>0, KeyType
      <4> QED BY <1>3, <3>1, <4>1
    <3>2. CASE PassGate(m)
      BY <1>4, <3>2
    <3>3. CASE Stops(m)
      BY <1>5, <3>3
    <3> QED BY <2>1, <3>1, <3>2, <3>3
  <2> QED BY <2>2 DEF D!Next
<1> QED BY <1>1, <1>2, <1>6, StepShapes

\* The loop implements the dispatcher: the same key's messages one at a time, in
\* the order of publication, at most GateLimit at once, each message once.
THEOREM LoopImplementsDispatcher == Spec => DispatchesInOrder
<1>1. Init => IInv /\ FifoInv
  BY InitIInv, InitFifo
<1>2. IInv /\ FifoInv /\ [Next]_vars => (IInv /\ FifoInv)'
  BY NextIInv, NextFifo
<1>3. IInv /\ FifoInv /\ [Next]_vars => [D!Next]_(D!vars)
  BY StepRefines
<1> QED BY <1>1, <1>2, <1>3, InitRefines, PTL DEF Spec, DispatchesInOrder, D!Spec
=============================================================================
