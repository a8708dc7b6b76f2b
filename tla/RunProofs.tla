----------------------------- MODULE RunProofs -----------------------------
(***************************************************************************)
(* Proofs about the drivers of an agent loop: no driver takes the reply to *)
(* one turn for the reply to another, and the BFCL runner reports how the  *)
(* last turn ended.                                                        *)
(***************************************************************************)
EXTENDS SessionRun, AgentLoopProofs

\* The turn of message m ends, with an outcome and an answer or with an error.
Ends(m) ==
  /\ pc[m] \in {"begin", "model", "tools"}
  /\ pc' = [pc EXCEPT ![m] = "done"]
  /\ \/ /\ \E reason \in Reasons : outcome' = [outcome EXCEPT ![OutcomeKey(m)] = reason]
        /\ outbound' = outbound \o Answer(m)
     \/ /\ outcome' = [outcome EXCEPT ![Key(m)] = "error"]
        /\ outbound' = Append(outbound, [msg |-> m, to |-> ErrorAddress(m), is |-> "error"])

\* Nothing that the drivers see, but a message of the message tool.
Unseen ==
  /\ UNCHANGED outcome
  /\ outbound' = outbound \/ \E r : outbound' = Append(outbound, r) /\ r.is = "tool"
  /\ \A m \in M : pc'[m] = "done" <=> pc[m] = "done"
  /\ \A u \in Users : pc'[u] = "new" <=> pc[u] = "new"

\* A message under way moves on.
LEMMA MoveUnseen ==
  ASSUME TypeOK, NEW m \in M, NEW v, pc' = [pc EXCEPT ![m] = v],
         pc[m] \notin {"new", "done"}, v \notin {"new", "done"}, UNCHANGED <<outcome, outbound>>
  PROVE  Unseen
BY DEF TypeOK, Unseen, M

\* The end of the runner or an exception ends the turn, or it goes on.
LEMMA ContinueShapes ==
  ASSUME TypeOK, NEW m \in M, pc[m] \in {"begin", "model", "tools"},
         \/ \E b : \E reason \in Reasons : Finish(m, b, reason)
         \/ \E c : Abort(m, c)
         \/ \E b, c : \E feedback \in BOOLEAN : Continue(m, b, feedback, c)
  PROVE  Ends(m) \/ Unseen
<1>1. ASSUME NEW b, NEW reason \in Reasons, Finish(m, b, reason) PROVE Ends(m)
  BY <1>1 DEF Finish, Release, Ends
<1>2. ASSUME NEW c, Abort(m, c) PROVE Ends(m)
  BY <1>2 DEF Abort, Release, Ends
<1>3. ASSUME NEW b, NEW c, NEW feedback \in BOOLEAN, Continue(m, b, feedback, c)
      PROVE  Ends(m) \/ Unseen
  <2>1. CASE IterationsLeft(m)
    <3>1. pc' = [pc EXCEPT ![m] = "model"] /\ UNCHANGED <<outcome, outbound>>
      BY <1>3, <2>1 DEF Continue, busVars, toolVars
    <3> QED BY <3>1, MoveUnseen
  <2>2. CASE ~IterationsLeft(m)
    <3>1. \E d : Finish(m, d, "max_iterations")
      BY <1>3, <2>2 DEF Continue
    <3> QED BY <1>1, <3>1 DEF Reasons
  <2> QED BY <2>1, <2>2
<1> QED BY <1>1, <1>2, <1>3

\* Every step of the loop is one or the other.
LEMMA LoopShapes ==
  ASSUME IInv, LoopStep
  PROVE  Unseen \/ \E m \in M : Ends(m)
<1> DEFINE Good == Unseen \/ \E m \in M : Ends(m)
<1> SUFFICES Good
  OBVIOUS
<1>0. TypeOK
  BY DEF IInv
<1>q. ASSUME UNCHANGED <<pc, outcome>>,
             outbound' = outbound \/ \E r : outbound' = Append(outbound, r) /\ r.is = "tool"
      PROVE  Good
  BY <1>q DEF Unseen
<1>m. ASSUME NEW m \in M, Ends(m) \/ Unseen PROVE Good
  BY <1>m
<1> HIDE DEF Good
<1>1. CASE Dispatch
  <2> DEFINE m == inbound[consumed + 1]
  <2>1. consumed + 1 \in 1..Len(inbound) /\ inbound \in Seq(M)
    BY <1>0, <1>1 DEF Dispatch, TypeOK
  <2>2. m \in M /\ pc[m] = "inbound"
    <3>1. ~(consumed + 1 <= consumed)
      BY <1>0 DEF TypeOK
    <3> QED BY <2>1, <3>1 DEF IInv, QueueInv
  <2>3. pc' = [pc EXCEPT ![m] = "lock"] /\ UNCHANGED <<outcome, outbound>>
    BY <1>1 DEF Dispatch, toolVars
  <2> HIDE DEF m
  <2> QED BY <1>0, <1>m, <2>2, <2>3, MoveUnseen
<1>2. CASE PollTimesOut
  BY <1>2, <1>q DEF PollTimesOut, taskVars, toolVars
<1>3. ASSUME NEW m \in M, AcquireLock(m) \/ PassGate(m) \/ Begin(m) PROVE Good
  <2>1. /\ pc[m] \in {"lock", "gate", "begin"}
        /\ \E v \in {"gate", "begin", "model"} : pc' = [pc EXCEPT ![m] = v]
        /\ UNCHANGED <<outcome, outbound>>
    BY <1>3 DEF AcquireLock, PassGate, Begin, busVars, toolVars
  <2> QED BY <1>0, <1>m, <2>1, MoveUnseen
<1>4. ASSUME NEW m \in M, ModelReplies(m) \/ ToolsDone(m) PROVE Good
  <2>1. ASSUME NEW b \in Batches, ReplyTools(m, b) PROVE Good
    <3>1. pc[m] = "model" /\ pc' = [pc EXCEPT ![m] = "tools"] /\ UNCHANGED <<outcome, outbound>>
      BY <2>1 DEF ReplyTools, busVars
    <3> QED BY <1>0, <1>m, <3>1, MoveUnseen
  <2>2. CASE ReplyMalformed(m) \/ ReplyFinal(m) \/ (\E reason \in Reasons : ReplyEnd(m, reason)) \/ ToolsDone(m)
    <3>1. pc[m] \in {"model", "tools"}
      BY <2>2 DEF ReplyMalformed, ReplyFinal, ReplyEnd, ToolsDone
    <3>2. \/ \E b : \E reason \in Reasons : Finish(m, b, reason)
          \/ \E b, c : \E feedback \in BOOLEAN : Continue(m, b, feedback, c)
      BY <2>2 DEF ReplyMalformed, ReplyFinal, ReplyEnd, ToolsDone, Reasons
    <3> QED BY <1>0, <1>m, <3>1, <3>2, ContinueShapes
  <2> QED BY <1>4, <2>1, <2>2 DEF ModelReplies
<1>5. ASSUME NEW m \in M,
             Exec(m) \/ (\E x \in Subs : Spawn(m, x)) \/ YieldPoll(m) \/ YieldTimesOut(m)
      PROVE  Good
  <2>1. UNCHANGED <<pc, outcome, outbound>>
    BY <1>5 DEF Exec, Spawn, YieldPoll, YieldTimesOut, busVars, taskVars, toolVars
  <2> QED BY <1>q, <2>1
<1>6. ASSUME NEW m \in M, SendMessage(m) PROVE Good
  <2>1. /\ UNCHANGED <<pc, outcome>>
        /\ outbound' = Append(outbound, [msg |-> m, to |-> <<"chat", toolCtx>>, is |-> "tool"])
    BY <1>6 DEF SendMessage, taskVars
  <2> QED BY <1>q, <2>1
<1>7. ASSUME NEW m \in M, Raise(m) \/ RaiseInSave(m) PROVE Good
  <2>1. pc[m] \in {"begin", "model", "tools"} /\ \E c : Abort(m, c)
    BY <1>7 DEF Raise, RaiseInSave
  <2> QED BY <1>0, <1>m, <2>1, ContinueShapes
<1>8. ASSUME NEW x \in Subs, Announce(x) PROVE Good
  <2>1. /\ pc[x] = "new" /\ pc' = [pc EXCEPT ![x] = "inbound"] /\ UNCHANGED <<outcome, outbound>>
    BY <1>8 DEF Announce, toolVars, IInv, SubInv
  <2>2. x \in M /\ x \notin Users
    BY MessageAssumption DEF M
  <2>3. Unseen
    BY <1>0, <2>1, <2>2 DEF Unseen, TypeOK, M
  <2> QED BY <2>3 DEF Good
<1>9. ASSUME NEW x \in Subs, Cleanup(x) PROVE Good
  BY <1>9, <1>q DEF Cleanup, busVars, taskVars, toolVars
<1> QED BY <1>1, <1>2, <1>3, <1>4, <1>5, <1>6, <1>7, <1>8, <1>9 DEF LoopStep, TurnStep, ToolStep

-----------------------------------------------------------------------------
(* The invariant of the loop, under a driver.                               *)

\* The driver publishes users' messages and stops the loop, nothing else.
LEMMA DriverIInv ==
  ASSUME IInv, turn \in 0..Len(Turns), [RunNext]_allVars
  PROVE  IInv'
<1>1. CASE Step
  BY <1>1, NextIInv DEF Step, Next
<1>2. CASE PublishTurn
  <2>1. Turns[turn + 1] \in Users
    BY <1>2, DriverAssumption DEF PublishTurn
  <2> QED BY <1>2, <2>1, PublishIInv DEF PublishTurn
<1>3. CASE Close
  BY <1>3, StopIInv DEF Close
<1>4. CASE Collect \/ Report \/ UNCHANGED allVars
  BY <1>4, StutterIInv DEF Collect, Report, allVars
<1> QED BY <1>1, <1>2, <1>3, <1>4 DEF RunNext

-----------------------------------------------------------------------------
(* Replies and turns.                                                       *)

\* The driver has done with turn i, or its wait for it is over.
Over(i) == i < turn \/ (i = turn /\ (event \/ driver \in {"closing", "reported"}))

\* The reply at place k of the outbound queue ends the wait for message u.
EndsWaitFor(k, u) == Signals(outbound[k]) /\ outbound[k].msg = u

\* Where the driver is.
Progress ==
  /\ turn \in 0..Len(Turns)
  /\ collected \in 0..Len(outbound)
  /\ driver = "start" => turn = 0
  /\ driver \in {"closing", "reported"} => turn = Len(Turns)

\* Only the messages of its turns are under way.
Published == \A u \in Users : pc[u] # "new" => \E i \in 1..turn : Turns[i] = u

\* What ends a wait is the reply of a user's turn that is over ...
Signalled ==
  \A k \in 1..Len(outbound) :
    Signals(outbound[k]) => outbound[k].msg \in Users /\ pc[outbound[k].msg] = "done"

\* ... and each turn has at most one such reply.
Once ==
  \A k, l \in 1..Len(outbound) :
    Signals(outbound[k]) /\ EndsWaitFor(l, outbound[k].msg) => k = l

\* A turn is over because the collector has taken its own reply.
Waited == \A i \in 1..turn : Over(i) => \E k \in 1..collected : EndsWaitFor(k, Turns[i])

RInv == Progress /\ Published /\ Signalled /\ Once /\ Waited

\* Before the first turn there is nothing.
LEMMA InitRInv == RunInit => IInv /\ RInv
<1> SUFFICES ASSUME RunInit PROVE RInv
  BY InitIInv DEF RunInit
<1>1. Len(Turns) \in Nat
  BY DriverAssumption
<1>2. outbound = <<>> /\ pc = [m \in M |-> "new"] /\ turn = 0 /\ collected = 0 /\ driver = "start"
  BY DEF RunInit, Init
<1>3. 1..Len(outbound) = {} /\ 1..turn = {}
  BY <1>2
<1> QED BY <1>1, <1>2, <1>3 DEF RInv, Progress, Published, Signalled, Once, Waited, M

\* A step of the loop that appends no reply that ends a wait.
LEMMA UnseenRInv ==
  ASSUME IInv, IInv', RInv, Unseen, UNCHANGED <<driver, turn, collected, event>>
  PROVE  RInv'
<1>1. outbound \in Seq(Reply)
  BY DEF IInv, TypeOK
<1>2. /\ Len(outbound') \in Nat /\ Len(outbound') >= Len(outbound)
      /\ \A k \in 1..Len(outbound) : outbound'[k] = outbound[k]
      /\ \A k \in 1..Len(outbound') : k \notin 1..Len(outbound) => ~Signals(outbound'[k])
  BY <1>1 DEF Unseen, Signals
<1>3. /\ \A k \in 1..Len(outbound') : Signals(outbound'[k]) => k \in 1..Len(outbound) /\ Signals(outbound[k])
      /\ \A k \in 1..Len(outbound) : Signals(outbound[k]) => Signals(outbound'[k]) /\ k \in 1..Len(outbound')
  BY <1>1, <1>2
<1>4. Progress' /\ Published'
  BY <1>1, <1>2 DEF RInv, Progress, Published, Unseen
<1>5. Signalled'
  BY <1>2, <1>3 DEF RInv, Signalled, Unseen, M
<1>6. Once'
  BY <1>2, <1>3 DEF RInv, Once, EndsWaitFor
<1>7. Waited'
  <2> SUFFICES ASSUME NEW i \in 1..turn, Over(i) PROVE \E k \in 1..collected : EndsWaitFor(k, Turns[i])'
    BY DEF Waited, Over
  <2>1. PICK k \in 1..collected : EndsWaitFor(k, Turns[i])
    BY DEF RInv, Waited
  <2>2. k \in 1..Len(outbound)
    BY <1>1 DEF RInv, Progress
  <2> QED BY <1>2, <1>3, <2>1, <2>2 DEF EndsWaitFor
<1> QED BY <1>4, <1>5, <1>6, <1>7 DEF RInv

\* The end of a turn appends at most its own reply.
LEMMA EndAppends ==
  ASSUME IInv, NEW m \in M, Ends(m)
  PROVE  /\ Len(outbound') \in Nat /\ Len(outbound') >= Len(outbound)
         /\ \A k \in 1..Len(outbound) : outbound'[k] = outbound[k]
         /\ \A k \in 1..Len(outbound') :
              k \notin 1..Len(outbound) /\ Signals(outbound'[k]) =>
                /\ k = Len(outbound) + 1 /\ k = Len(outbound')
                /\ outbound'[k].msg = m /\ m \in Users
                /\ outbound'[k].is = "answer" /\ Chat = <<"chat", SessionOf[m]>>
                /\ \E reason \in Reasons : outcome' = [outcome EXCEPT ![OutcomeKey(m)] = reason]
<1>1. outbound \in Seq(Reply)
  BY DEF IInv, TypeOK
<1>2. CASE outbound' = outbound \o Answer(m)
           /\ \E reason \in Reasons : outcome' = [outcome EXCEPT ![OutcomeKey(m)] = reason]
  <2>1. CASE m \in Subs
    <3>1. Answer(m) = <<>>
      BY <2>1, MessageAssumption DEF Answer
    <3>2. outbound' = outbound
      BY <1>1, <1>2, <3>1
    <3> QED BY <1>1, <3>2
  <2>2. CASE m \notin Subs
    <3>1. m \in Users /\ m \in Overridden /\ Session(m) = SessionOf[m]
      BY <2>2, DriverAssumption DEF M, Session
    <3> DEFINE r == [msg |-> m, to |-> <<"chat", SessionOf[m]>>, is |-> "answer"]
    <3>2. Answer(m) = <<r>>
      BY <2>2, <3>1 DEF Answer
    <3>3. /\ Len(outbound') = Len(outbound) + 1 /\ outbound'[Len(outbound) + 1] = r
          /\ \A k \in 1..Len(outbound) : outbound'[k] = outbound[k]
      BY <1>1, <1>2, <3>2
    <3>4. r.msg = m /\ r.to = <<"chat", SessionOf[m]>> /\ r.is = "answer"
      OBVIOUS
    <3> HIDE DEF r
    <3>5. ASSUME NEW k \in 1..Len(outbound'), k \notin 1..Len(outbound), Signals(outbound'[k])
          PROVE  /\ k = Len(outbound) + 1 /\ k = Len(outbound')
                 /\ outbound'[k].msg = m /\ outbound'[k].is = "answer"
                 /\ Chat = <<"chat", SessionOf[m]>>
      <4>1. k = Len(outbound) + 1
        BY <1>1, <3>3, <3>5
      <4> QED BY <3>3, <3>4, <3>5, <4>1 DEF Signals
    <3>6. Len(outbound') \in Nat /\ Len(outbound') >= Len(outbound)
      BY <1>1, <3>3
    <3> HIDE DEF r
    <3> QED BY <1>2, <3>1, <3>3, <3>5, <3>6
  <2> QED BY <2>1, <2>2
<1>3. CASE outbound' = Append(outbound, [msg |-> m, to |-> ErrorAddress(m), is |-> "error"])
  <2>1. ErrorAddress(m)[1] = "system" /\ Chat[1] = "chat"
    BY DriverAssumption DEF ErrorAddress, Chat, M
  <2> DEFINE r == [msg |-> m, to |-> ErrorAddress(m), is |-> "error"]
  <2>2. r.to # Chat
    BY <2>1
  <2>3. /\ Len(outbound') = Len(outbound) + 1 /\ outbound'[Len(outbound) + 1] = r
        /\ \A k \in 1..Len(outbound) : outbound'[k] = outbound[k]
    BY <1>1, <1>3
  <2> HIDE DEF r
  <2> QED BY <1>1, <2>2, <2>3 DEF Signals
<1> QED BY <1>2, <1>3 DEF Ends

\* A turn that is not over has no reply yet.
LEMMA NotYet ==
  ASSUME RInv, NEW m, pc[m] # "done", NEW k \in 1..Len(outbound)
  PROVE  ~EndsWaitFor(k, m)
BY DEF RInv, Signalled, EndsWaitFor

\* The end of a turn keeps replies and turns together.
LEMMA EndRInv ==
  ASSUME IInv, RInv, NEW m \in M, Ends(m), UNCHANGED <<driver, turn, collected, event>>
  PROVE  RInv'
<1>1. outbound \in Seq(Reply) /\ pc \in [M -> {"new", "inbound", "lock", "gate", "begin", "model", "tools", "done"}]
  BY DEF IInv, TypeOK
<1>2. pc[m] \in {"begin", "model", "tools"} /\ pc' = [pc EXCEPT ![m] = "done"]
  BY DEF Ends
<1>3. /\ Len(outbound') \in Nat /\ Len(outbound') >= Len(outbound)
      /\ \A k \in 1..Len(outbound) : outbound'[k] = outbound[k]
      /\ \A k \in 1..Len(outbound') :
           k \notin 1..Len(outbound) /\ Signals(outbound'[k]) =>
             k = Len(outbound) + 1 /\ outbound'[k].msg = m /\ m \in Users
  BY EndAppends
<1>4. \A k \in 1..Len(outbound) : Signals(outbound[k]) => outbound[k].msg # m
  BY <1>2, NotYet DEF EndsWaitFor
<1>5. \A k \in 1..Len(outbound) : (Signals(outbound'[k]) <=> Signals(outbound[k])) /\ k \in 1..Len(outbound')
  BY <1>1, <1>3
<1>6. Progress' /\ Published'
  BY <1>1, <1>2, <1>3 DEF RInv, Progress, Published, M
<1>7. Signalled'
  BY <1>1, <1>2, <1>3, <1>5 DEF RInv, Signalled, M
<1>8. Once'
  BY <1>3, <1>4, <1>5 DEF RInv, Once, EndsWaitFor
<1>9. Waited'
  <2> SUFFICES ASSUME NEW i \in 1..turn, Over(i)
               PROVE  \E k \in 1..collected : Signals(outbound'[k]) /\ outbound'[k].msg = Turns[i]
    BY DEF Waited, Over, EndsWaitFor
  <2>1. PICK k \in 1..collected : EndsWaitFor(k, Turns[i])
    BY DEF RInv, Waited
  <2>2. k \in 1..Len(outbound)
    BY <1>1 DEF RInv, Progress
  <2> QED BY <1>3, <2>1, <2>2 DEF EndsWaitFor
<1> QED BY <1>6, <1>7, <1>8, <1>9 DEF RInv

\* The next turn begins with a message that nothing has replied to.
LEMMA PublishRInv ==
  ASSUME IInv, RInv, PublishTurn
  PROVE  RInv'
<1>1. /\ turn' = turn + 1 /\ turn + 1 \in 1..Len(Turns) /\ turn \in Nat
      /\ driver' = "waiting" /\ event' = FALSE
      /\ UNCHANGED <<collected, outbound>>
      /\ pc' = [pc EXCEPT ![Turns[turn + 1]] = "inbound"] /\ pc[Turns[turn + 1]] = "new"
      /\ driver = "start" \/ (driver = "waiting" /\ event)
  BY DriverAssumption DEF RInv, Progress, PublishTurn, Publish, FreshEvent, sessionVars
<1>2. Turns[turn + 1] \in Users /\ pc \in [M -> {"new", "inbound", "lock", "gate", "begin", "model", "tools", "done"}]
  BY <1>1, DriverAssumption DEF IInv, TypeOK
<1>3. Progress'
  BY <1>1 DEF RInv, Progress
<1>4. Published'
  BY <1>1, <1>2 DEF RInv, Published, M
<1>5. Signalled'
  BY <1>1, <1>2 DEF RInv, Signalled, M, Signals
<1>6. Once'
  BY <1>1 DEF RInv, Once, EndsWaitFor, Signals
<1>7. \A i \in 1..turn : Over(i)
  BY <1>1 DEF RInv, Progress, Over
<1>8. Waited'
  BY <1>1, <1>7 DEF RInv, Waited, Over, EndsWaitFor, Signals
<1> QED BY <1>3, <1>4, <1>5, <1>6, <1>8 DEF RInv

\* The reply that sets the event is that of the turn waited for: an earlier turn's
\* has been taken before.
LEMMA CollectRInv ==
  ASSUME RInv, Collect
  PROVE  RInv'
<1>1. /\ collected \in Nat /\ collected + 1 \in 1..Len(outbound) /\ collected' = collected + 1
      /\ event' = (event \/ Signals(outbound[collected + 1]))
      /\ UNCHANGED <<outbound, pc, driver, turn>>
      /\ driver \in {"start", "waiting"} /\ turn \in Nat
  BY DriverAssumption DEF RInv, Progress, Collect, vars
<1>2. Progress' /\ Published' /\ Signalled' /\ Once'
  BY <1>1 DEF RInv, Progress, Published, Signalled, Once, EndsWaitFor, Signals
<1>3. ASSUME Signals(outbound[collected + 1])
      PROVE  EndsWaitFor(collected + 1, Turns[turn]) /\ turn \in 1..turn
  <2>1. PICK i \in 1..turn : Turns[i] = outbound[collected + 1].msg
    BY <1>1, <1>3 DEF RInv, Signalled, Published
  <2>2. ~Over(i)
    <3> SUFFICES ASSUME Over(i) PROVE FALSE
      OBVIOUS
    <3>1. PICK k \in 1..collected : EndsWaitFor(k, Turns[i])
      BY DEF RInv, Waited
    <3>2. k = collected + 1
      BY <1>1, <1>3, <2>1, <3>1 DEF RInv, Once
    <3> QED BY <1>1, <3>1, <3>2
  <2>3. i = turn
    BY <1>1, <2>2 DEF Over
  <2> QED BY <1>3, <2>1, <2>3 DEF EndsWaitFor
<1>4. Waited'
  <2> SUFFICES ASSUME NEW i \in 1..turn, Over(i)' PROVE \E k \in 1..(collected + 1) : EndsWaitFor(k, Turns[i])
    BY <1>1 DEF Waited, EndsWaitFor, Signals
  <2>1. CASE Over(i)
    <3>1. PICK k \in 1..collected : EndsWaitFor(k, Turns[i])
      BY <2>1 DEF RInv, Waited
    <3> QED BY <1>1, <3>1
  <2>2. CASE ~Over(i)
    <3>1. i = turn /\ Signals(outbound[collected + 1])
      BY <1>1, <2>2 DEF Over
    <3> QED BY <1>1, <1>3, <3>1
  <2> QED BY <2>1, <2>2
<1> QED BY <1>2, <1>4 DEF RInv

\* Stopping the loop and reporting end no wait that was not over.
LEMMA CloseRInv ==
  ASSUME RInv, Close \/ Report \/ UNCHANGED allVars
  PROVE  RInv'
<1>1. /\ UNCHANGED <<collected, outbound, pc, turn, event>>
      /\ \/ driver' = driver
         \/ driver' = "closing" /\ event /\ turn = Len(Turns)
         \/ driver' = "reported" /\ driver = "closing"
  BY DEF Close, Report, Stop, allVars, driverVars, vars, taskVars
<1>2. \A i \in 1..turn : Over(i)' => Over(i)
  BY <1>1 DEF Over
<1> QED BY <1>1, <1>2 DEF RInv, Progress, Published, Signalled, Once, Waited, EndsWaitFor, Signals

\* Together, the invariants are kept by every step.
LEMMA NextRInv == IInv /\ RInv /\ [RunNext]_allVars => IInv' /\ RInv'
<1> SUFFICES ASSUME IInv, RInv, [RunNext]_allVars PROVE IInv' /\ RInv'
  OBVIOUS
<1>1. IInv'
  BY DriverIInv DEF RInv, Progress
<1>2. CASE Step
  BY <1>1, <1>2, LoopShapes, UnseenRInv, EndRInv DEF Step
<1> QED BY <1>1, <1>2, PublishRInv, CollectRInv, CloseRInv DEF RunNext

\* The driver goes on only when the turn it waits for is over, whatever the
\* subagents of the task announce meanwhile and however the turn ends.
THEOREM NobodyWakesEarly == RunSpec => []NoEarlyWake
<1>1. RInv => NoEarlyWake
  <2> SUFFICES ASSUME RInv, NEW i \in 1..Len(Turns), Over(i) PROVE pc[Turns[i]] = "done"
    BY DEF NoEarlyWake, Over
  <2>1. i \in 1..turn
    BY DEF RInv, Progress, Over
  <2>2. PICK k \in 1..collected : EndsWaitFor(k, Turns[i])
    BY <2>1 DEF RInv, Waited
  <2>3. k \in 1..Len(outbound)
    BY DEF RInv, Progress
  <2> QED BY <2>2, <2>3 DEF RInv, Signalled, EndsWaitFor
<1> QED BY <1>1, InitRInv, NextRInv, PTL DEF RunSpec

-----------------------------------------------------------------------------
(* The verdict of a driver that looks the outcome up by session.            *)

Session1 == SessionOf[Turns[1]]

\* Once the turn has been replied to, the outcome recorded is its own.
Settled ==
  \A k \in 1..Len(outbound) :
    EndsWaitFor(k, Turns[turn]) =>
      /\ ended[Turns[turn]] = outcome[<<"session", Session1>>]
      /\ ended[Turns[turn]] \in Reasons

VInv == Settled /\ VerdictIsOutcome

\* While the last turn has been replied to, no turn is running.
LEMMA NoneRuns ==
  ASSUME IInv, RInv, Subs = {}, NEW m \in M, Ends(m)
  PROVE  m = Turns[turn] /\ turn \in 1..Len(Turns)
<1>1. m \in Users /\ pc[m] \in {"begin", "model", "tools"}
  BY DEF M, Ends
<1>2. PICK i \in 1..turn : Turns[i] = m
  BY <1>1 DEF RInv, Published
<1>3. CASE i < turn
  <2>1. PICK k \in 1..collected : EndsWaitFor(k, m)
    BY <1>2, <1>3 DEF RInv, Waited, Over
  <2>2. k \in 1..Len(outbound)
    BY DEF RInv, Progress
  <2> QED BY <1>1, <2>1, <2>2, NotYet
<1>4. CASE ~(i < turn)
  BY <1>2, <1>4 DEF RInv, Progress
<1> QED BY <1>3, <1>4

\* A step of the loop leaves the last turn's outcome alone, or is its end.
LEMMA StepSettles ==
  ASSUME IInv, IInv', RInv, Settled, Subs = {}, Step
  PROVE  Settled'
<1>1. outbound \in Seq(Reply) /\ UNCHANGED turn
  BY DEF IInv, TypeOK, Step
<1>2. CASE Unseen
  <2>1. /\ Len(outbound') \in Nat /\ Len(outbound') >= Len(outbound)
        /\ \A k \in 1..Len(outbound) : outbound'[k] = outbound[k]
        /\ \A k \in 1..Len(outbound') : k \notin 1..Len(outbound) => ~Signals(outbound'[k])
    BY <1>1, <1>2 DEF Unseen, Signals
  <2> SUFFICES ASSUME NEW k \in 1..Len(outbound'), EndsWaitFor(k, Turns[turn])'
               PROVE  /\ ended'[Turns[turn]] = outcome[<<"session", Session1>>]
                      /\ ended'[Turns[turn]] \in Reasons
    BY <1>1, <1>2 DEF Settled, Unseen
  <2>2. k \in 1..Len(outbound) /\ EndsWaitFor(k, Turns[turn])
    BY <1>1, <2>1 DEF EndsWaitFor, Signals
  <2>3. Turns[turn] \in Users /\ pc[Turns[turn]] = "done"
    BY <2>2 DEF RInv, Signalled, EndsWaitFor
  <2>4. ended'[Turns[turn]] = ended[Turns[turn]]
    BY <2>3 DEF Step, HowTurnsEnd, M
  <2> QED BY <2>2, <2>4 DEF Settled
<1>3. ASSUME NEW m \in M, Ends(m) PROVE Settled'
  <2>1. m = Turns[turn] /\ turn \in 1..Len(Turns) /\ pc[m] # "done"
    BY <1>3, NoneRuns DEF Ends
  <2> SUFFICES ASSUME NEW k \in 1..Len(outbound'), EndsWaitFor(k, Turns[turn])'
               PROVE  /\ ended'[m] = outcome'[<<"session", Session1>>]
                      /\ ended'[m] \in Reasons
    BY <1>1, <2>1 DEF Settled
  <2>2. /\ Len(outbound') \in Nat /\ Len(outbound') >= Len(outbound)
        /\ \A j \in 1..Len(outbound) : outbound'[j] = outbound[j]
    BY <1>3, EndAppends
  <2>3. Signals(outbound'[k]) /\ k \notin 1..Len(outbound)
    BY <1>1, <2>1, <2>2, NotYet DEF EndsWaitFor, Signals
  <2>4. /\ k = Len(outbound') /\ Len(outbound') = Len(outbound) + 1 /\ m \in Users
        /\ outbound'[k].is = "answer"
        /\ \E reason \in Reasons : outcome' = [outcome EXCEPT ![OutcomeKey(m)] = reason]
    BY <1>3, <2>3, EndAppends
  <2>5. OutcomeKey(m) = <<"session", Session1>> /\ OutcomeKey(m) \in Keys
    BY <2>1, <2>4, DriverAssumption, KeyType DEF IInv, OutcomeKey, Session1, Session, Keys, KeyKinds
  <2>6. outcome'[OutcomeKey(m)] \in Reasons
    BY <2>4, <2>5 DEF IInv, TypeOK
  <2>7. ended'[m] = outcome'[OutcomeKey(m)]
    <3>1. pc'[m] = "done"
      BY <1>3 DEF Ends, IInv, TypeOK
    <3>2. Len(outbound) \in Nat
      BY <1>1
    <3> QED BY <2>1, <2>4, <3>1, <3>2 DEF Step, HowTurnsEnd
  <2> QED BY <2>5, <2>6, <2>7
<1> QED BY <1>2, <1>3, LoopShapes DEF Step

\* The verdict is settled with the turn.
LEMMA NextVInv ==
  ASSUME Subs = {}, OutcomeKind = "session", ~ReadsTrace
  PROVE  IInv /\ RInv /\ VInv /\ [RunNext]_allVars => VInv'
<1> SUFFICES ASSUME IInv, RInv, VInv, [RunNext]_allVars PROVE VInv'
  OBVIOUS
<1>1. CASE Step
  <2>1. Settled'
    BY <1>1, NextRInv, StepSettles DEF VInv
  <2>2. VerdictIsOutcome'
    <3> SUFFICES ASSUME driver = "reported" PROVE verdict = ended'[Turns[Len(Turns)]]
      BY <1>1 DEF Step, VerdictIsOutcome
    <3>1. turn = Len(Turns) /\ turn \in 1..turn
      BY DriverAssumption DEF RInv, Progress
    <3>2. PICK k \in 1..collected : EndsWaitFor(k, Turns[turn])
      BY <3>1 DEF RInv, Waited, Over
    <3>3. Turns[turn] \in Users /\ pc[Turns[turn]] = "done"
      BY <3>2 DEF RInv, Progress, Signalled, EndsWaitFor
    <3> QED BY <1>1, <3>1, <3>3 DEF Step, HowTurnsEnd, VInv, VerdictIsOutcome, M
  <2> QED BY <2>1, <2>2 DEF VInv
<1>2. CASE PublishTurn
  <2>1. /\ UNCHANGED outbound /\ turn' = turn + 1 /\ pc[Turns[turn + 1]] = "new" /\ driver' = "waiting"
    BY <1>2 DEF PublishTurn, Publish
  <2>2. \A k \in 1..Len(outbound) : ~EndsWaitFor(k, Turns[turn + 1])
    BY <2>1, NotYet
  <2> QED BY <2>1, <2>2 DEF VInv, Settled, VerdictIsOutcome, EndsWaitFor, Signals
<1>3. CASE Report
  <2>1. driver = "closing" /\ verdict' = Resolved(outcome[<<"session", Session1>>])
        /\ UNCHANGED <<outbound, outcome, turn, ended>>
    BY <1>3 DEF Report, Session1, vars, toolVars
  <2>2. turn = Len(Turns) /\ turn \in 1..turn
    BY <2>1, DriverAssumption DEF RInv, Progress
  <2>3. PICK k \in 1..collected : EndsWaitFor(k, Turns[turn])
    BY <2>1, <2>2 DEF RInv, Waited, Over
  <2>4. outcome[<<"session", Session1>>] = ended[Turns[turn]] /\ ended[Turns[turn]] \in Reasons
    BY <2>3 DEF RInv, Progress, VInv, Settled
  <2>5. verdict' = ended[Turns[turn]]
    BY <2>1, <2>4 DEF Resolved, LlmErrorTraced, Reasons
  <2> QED BY <2>1, <2>2, <2>5 DEF VInv, Settled, VerdictIsOutcome, EndsWaitFor, Signals
<1>4. CASE Collect \/ Close
  BY <1>4 DEF Collect, Close, Stop, VInv, Settled, VerdictIsOutcome, EndsWaitFor, Signals, vars, toolVars
<1>5. CASE UNCHANGED allVars
  BY <1>5 DEF VInv, Settled, VerdictIsOutcome, EndsWaitFor, Signals, allVars, driverVars, vars, toolVars
<1> QED BY <1>1, <1>2, <1>3, <1>4, <1>5 DEF RunNext

\* A driver that looks the outcome up by session, as the BFCL runner does, and
\* whose task starts no subagents reports how its last turn ended.
THEOREM SessionVerdictIsOutcome ==
  ASSUME Subs = {}, OutcomeKind = "session", ~ReadsTrace
  PROVE  RunSpec => []VerdictIsOutcome
<1>1. RunInit => VInv
  <2> SUFFICES ASSUME RunInit PROVE VInv
    OBVIOUS
  <2>1. outbound = <<>> /\ driver = "start"
    BY DEF RunInit, Init
  <2>2. 1..Len(outbound) = {}
    BY <2>1
  <2> QED BY <2>1, <2>2 DEF VInv, Settled, VerdictIsOutcome
<1>2. VInv => VerdictIsOutcome
  BY DEF VInv
<1>3. IInv /\ RInv /\ VInv /\ [RunNext]_allVars => VInv'
  BY NextVInv
<1> QED BY <1>1, <1>2, <1>3, InitRInv, NextRInv, PTL DEF RunSpec
=============================================================================
