---------------------------- MODULE ResultProofs ----------------------------
(***************************************************************************)
(* No subagent result is lost or given twice on the direct path, the turn  *)
(* that the other path starts answers nobody, and what a user was answered *)
(* is recorded with what was asked.  A session's calls stay paired with    *)
(* their results, and where the turns of a session take the same lock,     *)
(* nothing is recorded twice, only a dead turn's calls are closed as       *)
(* interrupted, and nobody whose turn is over is left without a word.      *)
(***************************************************************************)
EXTENDS AgentLoopProofs

\* Turn m takes the results t out of the pending ones; no subagent announces.
Takes(m, t) == /\ pending' = pending \ t
               /\ seen' = [seen EXCEPT ![m] = @ \cup t]

Waits == UNCHANGED <<pending, seen>>

\* A step that hands results to at most one turn conserves them.
LEMMA TakesConserves ==
  ASSUME TypeOK, ResultsConserved, Announced' = Announced,
         \/ Waits
         \/ \E m \in M, t \in SUBSET pending : Takes(m, t)
  PROVE  ResultsConserved'
<1>1. CASE Waits
  BY <1>1 DEF Waits, ResultsConserved, Receivers
<1>2. ASSUME NEW m \in M, NEW t \in SUBSET pending, Takes(m, t)
      PROVE  ResultsConserved'
  <2>1. /\ pending' = pending \ t /\ seen'[m] = seen[m] \cup t
        /\ \A n \in M : n # m => seen'[n] = seen[n]
    BY <1>2 DEF Takes, TypeOK
  <2> SUFFICES ASSUME NEW x \in Subs
               PROVE  /\ x \in pending' => x \in Announced /\ Receivers(x)' = {}
                      /\ x \in Announced \ pending' => \E n \in M : Receivers(x)' = {n}
                      /\ x \notin Announced => Receivers(x)' = {}
    BY DEF ResultsConserved
  <2>2. CASE x \in t
    <3>1. x \in pending /\ x \in Announced /\ Receivers(x) = {}
      BY <2>2 DEF ResultsConserved
    <3>2. Receivers(x)' = {m}
      BY <2>1, <2>2, <3>1 DEF Receivers
    <3> QED BY <2>1, <2>2, <3>1, <3>2
  <2>3. CASE x \notin t
    <3>1. Receivers(x)' = Receivers(x) /\ (x \in pending' <=> x \in pending)
      BY <2>1, <2>3 DEF Receivers
    <3> QED BY <3>1 DEF ResultsConserved
  <2> QED BY <2>2, <2>3
<1> QED BY <1>1, <1>2

\* A result enters the pending ones when its subagent announces.
LEMMA AnnounceConserves ==
  ASSUME TypeOK, ResultsConserved, NEW x \in Subs, Announce(x)
  PROVE  ResultsConserved'
<1>1. sub[x] = "running" /\ sub'[x] = "announced" /\ \A y \in Subs : y # x => sub'[y] = sub[y]
  BY DEF Announce, TypeOK
<1>2. x \notin Announced /\ Announced' = Announced \cup {x}
  BY <1>1 DEF Announced
<1>3. pending' = pending \cup {x} /\ seen' = seen
  BY DEF Announce
<1>4. \A y \in Subs : Receivers(y)' = Receivers(y)
  BY <1>3 DEF Receivers
<1> QED BY <1>2, <1>3, <1>4 DEF ResultsConserved

\* Draining hands what is pending to one turn and empties it.
LEMMA DrainTakes ==
  ASSUME TypeOK, NEW m \in M, Drain(m)
  PROVE  \E t \in SUBSET pending : Takes(m, t)
<1>1. Drained(m) \in SUBSET pending /\ Takes(m, Drained(m))
  BY DEF Drain, Drained, Left, Takes
<1> QED BY <1>1

\* The other steps of a turn and of the subagents.
LEMMA StepTakes ==
  ASSUME IInv, [Next]_vars, ~ \E x \in Subs : Announce(x)
  PROVE  Announced' = Announced /\ (Waits \/ \E m \in M, t \in SUBSET pending : Takes(m, t))
<1> DEFINE Took == Waits \/ \E m \in M, t \in SUBSET pending : Takes(m, t)
           Good == Announced' = Announced /\ Took
<1> SUFFICES Good
  OBVIOUS
<1>0. TypeOK
  BY DEF IInv
<1>f. ASSUME UNCHANGED <<sub, pending, seen>> PROVE Good
  BY <1>f DEF Announced, Waits
<1>d. ASSUME NEW m \in M, UNCHANGED sub, Drain(m) PROVE Good
  BY <1>0, <1>d, DrainTakes DEF Announced
<1>r. ASSUME NEW m \in M, NEW b, NEW reason, Finish(m, b, reason) PROVE Good
  BY <1>f, <1>r DEF Finish, Release
<1>a. ASSUME NEW m \in M, NEW c, Abort(m, c) PROVE Good
  BY <1>f, <1>a DEF Abort, Release
<1>c. ASSUME NEW m \in M, NEW b, NEW feedback, NEW c, Continue(m, b, feedback, c) PROVE Good
  BY <1>c, <1>d, <1>r DEF Continue
<1>1. ASSUME NEW u \in Users, Publish(u) PROVE Good
  BY <1>1, <1>f DEF Publish, subVars
<1>2. CASE Dispatch \/ PollTimesOut \/ Stop \/ UNCHANGED vars
  BY <1>2, <1>f DEF Dispatch, PollTimesOut, Stop, subVars, vars
<1>3. ASSUME NEW m \in M, AcquireLock(m) \/ PassGate(m) PROVE Good
  BY <1>3, <1>f DEF AcquireLock, PassGate, subVars
<1>4. ASSUME NEW m \in M, Begin(m) PROVE Good
  BY <1>4, <1>d DEF Begin
<1>5. ASSUME NEW m \in M, NEW b \in Batches, ReplyTools(m, b) PROVE Good
  <2>1. \A x \in Named(b) : sub[x] = "free"
    BY <1>5 DEF ReplyTools, Startable, Named
  <2>2. sub' = [x \in Subs |-> IF x \in Named(b) THEN "called" ELSE sub[x]]
    BY <1>5 DEF ReplyTools, Called
  <2>3. Announced' = Announced
    BY <2>1, <2>2 DEF Announced
  <2> QED BY <1>5, <2>3 DEF ReplyTools, Waits
<1>6. ASSUME NEW m \in M, ReplyMalformed(m) \/ ReplyFinal(m) \/ ToolsDone(m)
                          \/ \E reason \in Reasons : ReplyEnd(m, reason)
      PROVE  Good
  <2>1. \/ \E b, reason : Finish(m, b, reason)
        \/ \E b, c : \E feedback \in BOOLEAN : Continue(m, b, feedback, c)
    BY <1>6 DEF ReplyMalformed, ReplyFinal, ToolsDone, ReplyEnd
  <2> HIDE DEF Good
  <2> QED BY <1>r, <1>c, <2>1
<1>7. ASSUME NEW m \in M, Raise(m) \/ RaiseInSave(m) PROVE Good
  BY <1>7, <1>a DEF Raise, RaiseInSave
<1>8. ASSUME NEW m \in M, Exec(m) \/ SendMessage(m) \/ YieldTimesOut(m) PROVE Good
  BY <1>8, <1>f DEF Exec, SendMessage, YieldTimesOut, subVars
<1>9. ASSUME NEW m \in M, YieldPoll(m) PROVE Good
  <2>1. sub' = sub /\ (Waits \/ Takes(m, pending))
    BY <1>9 DEF YieldPoll, Left, Takes, Waits
  <2> QED BY <2>1 DEF Announced
<1>10. ASSUME NEW m \in M, NEW x \in Subs, Spawn(m, x) PROVE Good
  <2>1. todo[m] # <<>> /\ Head(todo[m]) = x /\ sub' = [sub EXCEPT ![x] = "running"]
        /\ UNCHANGED <<pending, seen>>
    BY <1>10 DEF Spawn, Calling
  <2>2. sub[x] = "called"
    <3>1. todo[m] \in Seq(Tools \cup {"asleep"} \cup Subs)
      BY <1>0 DEF TypeOK
    <3>2. todo[m][1] = x /\ 1 \in 1..Len(todo[m])
      BY <2>1, <3>1
    <3> QED BY <3>2 DEF IInv, TodoInv
  <2>3. Announced' = Announced
    BY <1>0, <2>1, <2>2 DEF Announced, TypeOK
  <2> QED BY <2>1, <2>3 DEF Waits
<1>11. ASSUME NEW x \in Subs, Cleanup(x) PROVE Good
  BY <1>0, <1>11 DEF Cleanup, Announced, TypeOK, Waits
<1> HIDE DEF Good
<1>12. ASSUME NEW m \in M, TurnStep(m) PROVE Good
  BY <1>3, <1>4, <1>5, <1>6, <1>8, <1>9, <1>10, <1>12 DEF TurnStep, ModelReplies, ToolStep
<1>13. CASE LoopStep
  <2>1. CASE \E m \in M : TurnStep(m) \/ YieldTimesOut(m) \/ Raise(m) \/ RaiseInSave(m)
    BY <1>7, <1>8, <1>12, <2>1
  <2>2. CASE \E x \in Subs : Announce(x) \/ Cleanup(x)
    BY <1>11, <2>2
  <2> QED BY <1>2, <1>13, <2>1, <2>2 DEF LoopStep
<1> QED BY <1>1, <1>2, <1>13 DEF Next

\* A finished subagent's result is pending or was given to exactly one turn,
\* whichever draining iteration or yield took it.
THEOREM ResultsAreConserved == Spec => []ResultsConserved
<1>1. Init => ResultsConserved
  BY DEF Init, ResultsConserved, Announced, Receivers
<1>2. IInv /\ ResultsConserved /\ [Next]_vars => ResultsConserved'
  <2> SUFFICES ASSUME IInv, ResultsConserved, [Next]_vars
               PROVE  ResultsConserved'
    OBVIOUS
  <2>1. CASE \E x \in Subs : Announce(x)
    BY <2>1, AnnounceConserves DEF IInv
  <2>2. CASE ~ \E x \in Subs : Announce(x)
    BY <2>2, StepTakes, TakesConserves DEF IInv
  <2> QED BY <2>1, <2>2
<1> QED BY <1>1, <1>2, InvariantHolds, PTL DEF Spec

-----------------------------------------------------------------------------
(* Where replies go.                                                        *)

\* A reply that ends nobody's wait, or a user's.
Proper(r) == EndsWait(r) => r.msg \in Users

\* A turn's end puts at most one reply on the bus, and it is proper: for a
\* subagent's announcement there is none, or an error that goes to "system".
LEMMA EndIsProper ==
  ASSUME NEW m \in M,
         \/ outbound' = outbound \o Answer(m)
         \/ outbound' = Append(outbound, [msg |-> m, to |-> ErrorAddress(m), is |-> "error"]),
         outbound \in Seq(Reply)
  PROVE  outbound' = outbound \/ \E r : outbound' = Append(outbound, r) /\ Proper(r)
<1>1. CASE outbound' = outbound \o Answer(m)
  <2>1. Answer(m) = <<>> \/ \E r : Answer(m) = <<r>> /\ r.msg = m /\ m \in Users
    BY MessageAssumption DEF Answer, M
  <2> QED BY <1>1, <2>1 DEF Proper
<1>2. CASE outbound' = Append(outbound, [msg |-> m, to |-> ErrorAddress(m), is |-> "error"])
  <2>1. m \in Users \/ ErrorAddress(m)[1] = "system"
    BY DEF ErrorAddress, M
  <2> QED BY <1>2, <2>1 DEF Proper, EndsWait
<1> QED BY <1>1, <1>2

\* Every step puts at most one reply on the bus, a proper one.
LEMMA StepIsProper ==
  ASSUME IInv, [Next]_vars
  PROVE  outbound' = outbound \/ \E r : outbound' = Append(outbound, r) /\ Proper(r)
<1> DEFINE Fine == outbound' = outbound \/ \E r : outbound' = Append(outbound, r) /\ Proper(r)
<1> SUFFICES Fine
  OBVIOUS
<1>0. outbound \in Seq(Reply)
  BY DEF IInv, TypeOK
<1>r. ASSUME NEW m \in M, NEW b, NEW reason, Finish(m, b, reason) PROVE Fine
  BY <1>0, <1>r, EndIsProper DEF Finish
<1>a. ASSUME NEW m \in M, NEW c, Abort(m, c) PROVE Fine
  BY <1>0, <1>a, EndIsProper DEF Abort
<1>u. ASSUME outbound' = outbound PROVE Fine
  BY <1>u
<1>c. ASSUME NEW m \in M, NEW b, NEW feedback, NEW c, Continue(m, b, feedback, c) PROVE Fine
  BY <1>c, <1>r, <1>u DEF Continue, busVars
<1>1. ASSUME NEW m \in M, SendMessage(m) PROVE Fine
  <2>1. outbound' = Append(outbound, [msg |-> m, to |-> <<"chat", toolCtx>>, is |-> "tool"])
    BY <1>1 DEF SendMessage
  <2> QED BY <2>1 DEF Proper, EndsWait
<1> HIDE DEF Fine
<1>2. ASSUME NEW m \in M, ModelReplies(m) PROVE Fine
  <2>1. ASSUME NEW b \in Batches, ReplyTools(m, b) PROVE Fine
    BY <1>u, <2>1 DEF ReplyTools, busVars
  <2>2. CASE ReplyMalformed(m)
    BY <1>r, <1>c, <2>2 DEF ReplyMalformed
  <2>3. CASE ReplyFinal(m)
    BY <1>r, <2>3 DEF ReplyFinal
  <2>4. ASSUME NEW reason \in Reasons, ReplyEnd(m, reason) PROVE Fine
    BY <1>r, <2>4 DEF ReplyEnd
  <2> QED BY <1>2, <2>1, <2>2, <2>3, <2>4 DEF ModelReplies
<1>3. ASSUME NEW m \in M, ToolStep(m) PROVE Fine
  <2>1. CASE Exec(m)
    BY <1>u, <2>1 DEF Exec, busVars
  <2>2. ASSUME NEW x \in Subs, Spawn(m, x) PROVE Fine
    BY <1>u, <2>2 DEF Spawn, busVars
  <2>3. CASE YieldPoll(m)
    BY <1>u, <2>3 DEF YieldPoll, busVars
  <2>4. CASE ToolsDone(m)
    BY <1>c, <2>4 DEF ToolsDone
  <2> QED BY <1>1, <1>3, <2>1, <2>2, <2>3, <2>4 DEF ToolStep
<1>4. ASSUME NEW m \in M, TurnStep(m) PROVE Fine
  <2>1. CASE AcquireLock(m) \/ PassGate(m) \/ Begin(m)
    BY <1>u, <2>1 DEF AcquireLock, PassGate, Begin, busVars
  <2> QED BY <1>2, <1>3, <1>4, <2>1 DEF TurnStep
<1>5. ASSUME NEW m \in M, YieldTimesOut(m) \/ Raise(m) \/ RaiseInSave(m) PROVE Fine
  BY <1>a, <1>u, <1>5 DEF YieldTimesOut, Raise, RaiseInSave, busVars
<1>6. ASSUME NEW x \in Subs, Announce(x) \/ Cleanup(x) PROVE Fine
  BY <1>u, <1>6 DEF Announce, Cleanup, busVars
<1>7. CASE Dispatch \/ PollTimesOut \/ Stop \/ UNCHANGED vars
  BY <1>u, <1>7 DEF Dispatch, PollTimesOut, Stop, vars
<1>8. ASSUME NEW u \in Users, Publish(u) PROVE Fine
  BY <1>u, <1>8 DEF Publish
<1> QED BY <1>4, <1>5, <1>6, <1>7, <1>8 DEF Next, LoopStep

\* Nothing that the turn of an announcement publishes ends the wait of whoever
\* listens on its chat.
THEOREM AnnouncementsStaySilent == Spec => []OnlyUsersAnswered
<1>1. Init => OnlyUsersAnswered
  BY DEF Init, OnlyUsersAnswered
<1>2. IInv /\ OnlyUsersAnswered /\ [Next]_vars => OnlyUsersAnswered'
  <2> SUFFICES ASSUME IInv, OnlyUsersAnswered, [Next]_vars
               PROVE  OnlyUsersAnswered'
    OBVIOUS
  <2>1. outbound \in Seq(Reply)
    BY DEF IInv, TypeOK
  <2>2. CASE outbound' = outbound
    BY <2>2 DEF OnlyUsersAnswered
  <2>3. ASSUME NEW r, outbound' = Append(outbound, r), Proper(r)
        PROVE  OnlyUsersAnswered'
    <3>1. /\ Len(outbound') = Len(outbound) + 1 /\ outbound'[Len(outbound) + 1] = r
          /\ \A i \in 1..Len(outbound) : outbound'[i] = outbound[i]
      BY <2>1, <2>3
    <3> QED BY <2>1, <2>3, <3>1 DEF OnlyUsersAnswered, Proper
  <2> QED BY <2>2, <2>3, StepIsProper
<1> QED BY <1>1, <1>2, InvariantHolds, PTL DEF Spec
-----------------------------------------------------------------------------
(* What is answered is recorded.                                            *)

\* The entry of a user's message, and a history or checkpoint that does not end
\* with one (into which build_messages would merge the next message).
Asked(u) == [turn |-> u, it |-> 0, is |-> "input"]
Replied(h) == h = <<>> \/ Role(h[Len(h)]) # "user"

Recorded(u, h) ==
  \E j, k \in 1..Len(h) :
    /\ j < k
    /\ h[j].turn = u /\ h[j].is = "input"
    /\ h[k].turn = u /\ h[k].is = "final"

\* Histories and checkpoints end with what was replied, a turn's messages begin
\* with what was asked, and the answered turns are recorded.
EndInv == \A s \in Sessions : Replied(hist[s]) /\ Replied(ckpt[s])
AskedInv ==
  \A u \in Users : pc[u] \in {"model", "tools"} => buf[u] # <<>> /\ buf[u][1] = Asked(u)
AnswersRecorded ==
  \A i \in 1..Len(outbound) :
    outbound[i].is = "answer" =>
      /\ outbound[i].msg \in Users
      /\ Recorded(outbound[i].msg, hist[SessionOf[outbound[i].msg]])

RecInv == EndInv /\ AskedInv /\ AnswersRecorded

\* What a history holds it keeps when something is appended.
LEMMA RecordedStays ==
  ASSUME NEW h \in Seq(Entry), NEW t \in Seq(Entry), NEW u, Recorded(u, h)
  PROVE  Recorded(u, h \o t)
<1>1. PICK j, k \in 1..Len(h) :
        j < k /\ h[j].turn = u /\ h[j].is = "input" /\ h[k].turn = u /\ h[k].is = "final"
  BY DEF Recorded
<1>2. /\ Len(h \o t) = Len(h) + Len(t)
      /\ \A i \in 1..Len(h) : (h \o t)[i] = h[i]
  OBVIOUS
<1>3. j \in 1..Len(h \o t) /\ k \in 1..Len(h \o t)
  BY <1>2
<1> QED BY <1>1, <1>2, <1>3 DEF Recorded

\* A concatenation ends as its second part does, or its first.
LEMMA RepliedAfter ==
  ASSUME NEW h \in Seq(Entry), NEW t \in Seq(Entry), Replied(h), Replied(t)
  PROVE  Replied(h \o t)
<1>1. CASE t = <<>>
  <2>1. h \o t = h
    BY <1>1
  <2> QED BY <2>1
<1>2. CASE t # <<>>
  <2>1. /\ Len(t) \in 1..Len(t) /\ Len(h \o t) = Len(h) + Len(t)
        /\ (h \o t)[Len(h) + Len(t)] = t[Len(t)]
    BY <1>2
  <2> QED BY <1>2, <2>1 DEF Replied
<1> QED BY <1>1, <1>2

\* Histories only grow, and an answer is published for a recorded turn.
LEMMA GrowthRecords ==
  ASSUME IInv, AnswersRecorded,
         \A s \in Sessions : \E t \in Seq(Entry) : hist'[s] = hist[s] \o t,
         \/ outbound' = outbound
         \/ \E r : /\ outbound' = Append(outbound, r)
                   /\ r.is = "answer" => r.msg \in Users /\ Recorded(r.msg, hist'[SessionOf[r.msg]])
  PROVE  AnswersRecorded'
<1>1. /\ outbound \in Seq(Reply) /\ hist \in [Sessions -> Seq(Entry)]
      /\ \A u \in Users : SessionOf[u] \in Sessions
  BY MessageAssumption DEF IInv, TypeOK
<1>2. ASSUME NEW i \in 1..Len(outbound), outbound[i].is = "answer"
      PROVE  /\ outbound[i].msg \in Users
             /\ Recorded(outbound[i].msg, hist'[SessionOf[outbound[i].msg]])
  <2> DEFINE u == outbound[i].msg
  <2>1. u \in Users /\ Recorded(u, hist[SessionOf[u]])
    BY <1>2 DEF AnswersRecorded
  <2>2. SessionOf[u] \in Sessions
    BY <1>1, <2>1
  <2>3. PICK t \in Seq(Entry) : hist'[SessionOf[u]] = hist[SessionOf[u]] \o t
    BY <2>2
  <2>4. hist[SessionOf[u]] \in Seq(Entry)
    BY <1>1, <2>2
  <2> HIDE DEF u
  <2>5. Recorded(u, hist'[SessionOf[u]])
    BY <2>1, <2>3, <2>4, RecordedStays
  <2> QED BY <2>1, <2>5 DEF u
<1>3. CASE outbound' = outbound
  BY <1>2, <1>3 DEF AnswersRecorded
<1>4. ASSUME NEW r, outbound' = Append(outbound, r),
             r.is = "answer" => r.msg \in Users /\ Recorded(r.msg, hist'[SessionOf[r.msg]])
      PROVE  AnswersRecorded'
  <2>1. /\ Len(outbound') = Len(outbound) + 1 /\ outbound'[Len(outbound) + 1] = r
        /\ \A i \in 1..Len(outbound) : outbound'[i] = outbound[i]
    BY <1>1, <1>4
  <2>2. ASSUME NEW i \in 1..Len(outbound'), outbound'[i].is = "answer"
        PROVE  /\ outbound'[i].msg \in Users
               /\ Recorded(outbound'[i].msg, hist'[SessionOf[outbound'[i].msg]])
    <3>1. CASE i = Len(outbound) + 1
      BY <1>4, <2>1, <2>2, <3>1
    <3>2. CASE i # Len(outbound) + 1
      <4>1. i \in 1..Len(outbound)
        BY <1>1, <2>1, <3>2
      <4>2. outbound'[i] = outbound[i]
        BY <2>1, <4>1
      <4> QED BY <1>2, <2>2, <4>1, <4>2
    <3> QED BY <3>1, <3>2
  <2>3. \A i \in 1..Len(outbound') :
          outbound'[i].is = "answer" =>
            /\ outbound'[i].msg \in Users
            /\ Recorded(outbound'[i].msg, hist'[SessionOf[outbound'[i].msg]])
    BY <2>2
  <2> QED BY <2>3, Zenon DEF AnswersRecorded, Recorded
<1> QED BY <1>3, <1>4

\* Nobody's messages, history, checkpoint or replies change.
LEMMA QuietRecords ==
  ASSUME IInv, RecInv, UNCHANGED <<hist, ckpt, buf>>,
         \A u \in Users : pc'[u] \in {"model", "tools"} => pc[u] \in {"model", "tools"},
         outbound' = outbound \/ \E r : outbound' = Append(outbound, r) /\ r.is # "answer"
  PROVE  RecInv'
<1>1. hist \in [Sessions -> Seq(Entry)]
  BY DEF IInv, TypeOK
<1>2. \A s \in Sessions : \E t \in Seq(Entry) : hist'[s] = hist[s] \o t
  <2> TAKE s \in Sessions
  <2>1. <<>> \in Seq(Entry) /\ hist[s] \in Seq(Entry)
    BY <1>1
  <2>2. hist'[s] = hist[s] \o <<>>
    BY <2>1
  <2> QED BY <2>1, <2>2
<1>3. AnswersRecorded'
  BY <1>2, GrowthRecords DEF RecInv
<1> QED BY <1>3 DEF RecInv, EndInv, AskedInv, Replied

\* A final message is not the user's, and comes after what was asked.
LEMMA AppendFinalEnds ==
  ASSUME IInv, NEW m \in M, NEW b \in Seq(Entry), m \in Users => b # <<>> /\ b[1] = Asked(m),
         NEW c, c = AppendFinal(m, b) \/ c = Append(b, Final(m))
  PROVE  /\ c \in Seq(Entry)
         /\ c # <<>> => c[Len(c)] = Final(m)
         /\ m \in Users => Len(c) > 1 /\ c[1] = Asked(m)
<1>0. Final(m) \in Entry /\ TypeOK
  BY EntryType DEF IInv
<1>1. CASE c = Append(b, Final(m))
  BY <1>0, <1>1
<1>2. CASE c = <<>> /\ b = <<>>
  BY <1>2
<1>3. CASE c = Append(SubSeq(b, 1, Len(b) - 1), Final(m)) /\ b # <<>> /\ Replaceable(m, b)
  <2>1. /\ SubSeq(b, 1, Len(b) - 1) \in Seq(Entry) /\ Len(SubSeq(b, 1, Len(b) - 1)) = Len(b) - 1
        /\ \A i \in 1..(Len(b) - 1) : SubSeq(b, 1, Len(b) - 1)[i] = b[i]
    <3>1. Len(b) \in Nat /\ Len(b) - 1 \in Nat /\ Len(b) - 1 <= Len(b)
      BY <1>3
    <3>2. \A n \in Nat : n <= Len(b) => /\ SubSeq(b, 1, n) \in Seq(Entry)
                                        /\ Len(SubSeq(b, 1, n)) = n
                                        /\ \A i \in 1..n : SubSeq(b, 1, n)[i] = b[i]
      OBVIOUS
    <3> QED BY <3>1, <3>2
  <2>2. c \in Seq(Entry) /\ Len(c) = Len(b) /\ c[Len(c)] = Final(m)
    BY <1>0, <1>3, <2>1
  <2>3. ASSUME m \in Users PROVE Len(c) > 1 /\ c[1] = Asked(m)
    <3>1. Role(b[Len(b)]) = "assistant"
      BY <1>3 DEF Replaceable
    <3>2. Role(Asked(m)) = "user"
      BY <2>3, MessageAssumption DEF Role, Asked, InputRole
    <3>3. Len(b) > 1
      BY <1>3, <2>3, <3>1, <3>2
    <3>4. c[1] = b[1]
      BY <1>0, <1>3, <2>1, <3>3
    <3> QED BY <2>2, <2>3, <3>3, <3>4
  <2> QED BY <2>2, <2>3
<1>4. c = Append(b, Final(m)) \/ (c = <<>> /\ b = <<>>)
      \/ (c = Append(SubSeq(b, 1, Len(b) - 1), Final(m)) /\ b # <<>> /\ Replaceable(m, b))
  BY <1>0 DEF AppendFinal, TypeOK
<1> QED BY <1>1, <1>2, <1>3, <1>4

\* The end of a turn: what was asked and what is answered are recorded together.
LEMMA FinishRecords ==
  ASSUME IInv, RecInv, NEW m \in M, NEW b \in Seq(Entry), NEW reason, Finish(m, b, reason),
         b # <<>> => b[Len(b)] = Final(m),
         m \in Users => Len(b) > 1 /\ b[1] = Asked(m)
  PROVE  RecInv'
<1>0. TypeOK /\ Session(m) \in Sessions
  BY KeyType DEF IInv
<1>1. /\ hist' = [hist EXCEPT ![Session(m)] = @ \o b]
      /\ ckpt' = [ckpt EXCEPT ![Session(m)] = <<>>]
      /\ pc' = [pc EXCEPT ![m] = "done"]
      /\ buf' = [buf EXCEPT ![m] = <<>>]
      /\ outbound' = outbound \o Answer(m)
  BY DEF Finish, Release, ClearCheckpoint
<1>2. /\ hist \in [Sessions -> Seq(Entry)] /\ ckpt \in [Sessions -> Seq(Entry)]
      /\ pc \in [M -> {"new", "inbound", "lock", "gate", "begin", "model", "tools", "done"}]
      /\ buf \in [M -> Seq(Entry)] /\ outbound \in Seq(Reply)
  BY <1>0 DEF TypeOK
<1>3. hist'[Session(m)] = hist[Session(m)] \o b
  BY <1>0, <1>1, <1>2
<1>4. Replied(b)
  <2>1. Role(Final(m)) # "user"
    BY DEF Role, Final
  <2> QED BY <2>1 DEF Replied
<1>5. EndInv'
  <2> SUFFICES ASSUME NEW s \in Sessions PROVE Replied(hist'[s]) /\ Replied(ckpt'[s])
    BY DEF EndInv, Replied
  <2>1. Replied(hist[s]) /\ Replied(ckpt[s]) /\ hist[s] \in Seq(Entry)
    BY <1>2 DEF RecInv, EndInv
  <2>2. CASE s = Session(m)
    <3>1. ckpt'[s] = <<>>
      BY <1>0, <1>1, <1>2, <2>2
    <3>2. Replied(hist'[s])
      BY <1>3, <1>4, <2>1, <2>2, RepliedAfter
    <3> QED BY <3>1, <3>2 DEF Replied
  <2>3. CASE s # Session(m)
    <3>1. hist'[s] = hist[s] /\ ckpt'[s] = ckpt[s]
      BY <1>1, <1>2, <2>3
    <3> QED BY <2>1, <3>1
  <2> QED BY <2>2, <2>3
<1>6. AskedInv'
  <2> SUFFICES ASSUME NEW u \in Users, pc'[u] \in {"model", "tools"}
               PROVE  buf'[u] # <<>> /\ buf'[u][1] = Asked(u)
    BY DEF AskedInv, Asked
  <2>1. u \in M /\ u # m
    BY <1>1, <1>2 DEF M
  <2>2. pc'[u] = pc[u] /\ buf'[u] = buf[u]
    BY <1>1, <1>2, <2>1
  <2> QED BY <2>2 DEF RecInv, AskedInv
<1>7. \A s \in Sessions : \E t \in Seq(Entry) : hist'[s] = hist[s] \o t
  <2> TAKE s \in Sessions
  <2>1. CASE s = Session(m)
    BY <1>3, <2>1
  <2>2. CASE s # Session(m)
    <3>1. hist'[s] = hist[s] /\ hist[s] \in Seq(Entry) /\ <<>> \in Seq(Entry)
      BY <1>1, <1>2, <2>2
    <3>2. hist'[s] = hist[s] \o <<>>
      BY <3>1
    <3> QED BY <3>1, <3>2
  <2> QED BY <2>1, <2>2
<1>8. ASSUME m \in Users PROVE Recorded(m, hist'[SessionOf[m]])
  <2>1. Session(m) = SessionOf[m]
    BY <1>8, MessageAssumption DEF Session
  <2> DEFINE h == hist[Session(m)]
  <2>2. h \in Seq(Entry) /\ Len(b) \in Nat /\ Len(b) > 1
    BY <1>0, <1>2, <1>8
  <2> HIDE DEF h
  <2>3. /\ Len(h \o b) = Len(h) + Len(b)
        /\ (h \o b)[Len(h) + 1] = b[1] /\ (h \o b)[Len(h) + Len(b)] = b[Len(b)]
    BY <2>2
  <2>4. b[1] = Asked(m) /\ b[Len(b)] = Final(m)
    BY <1>8, <2>2
  <2>5. /\ Len(h) + 1 \in 1..Len(h \o b) /\ Len(h) + Len(b) \in 1..Len(h \o b)
        /\ Len(h) + 1 < Len(h) + Len(b)
    BY <2>2, <2>3
  <2>6. Recorded(m, h \o b)
    BY <2>3, <2>4, <2>5 DEF Recorded, Asked, Final
  <2> QED BY <1>3, <2>1, <2>6 DEF h
<1>9. \/ outbound' = outbound
      \/ \E r : outbound' = Append(outbound, r) /\ (r.is = "answer" => r.msg = m /\ m \in Users)
  <2>1. Answer(m) = <<>> \/ \E r : Answer(m) = <<r>> /\ (r.is = "answer" => r.msg = m /\ m \in Users)
    BY MessageAssumption DEF Answer, M
  <2>2. CASE Answer(m) = <<>>
    BY <1>1, <1>2, <2>2
  <2>3. ASSUME NEW r, Answer(m) = <<r>>, r.is = "answer" => r.msg = m /\ m \in Users
        PROVE  outbound' = Append(outbound, r)
    BY <1>1, <1>2, <2>3
  <2> QED BY <2>1, <2>2, <2>3
<1>10. AnswersRecorded'
  BY <1>7, <1>8, <1>9, GrowthRecords DEF RecInv
<1> QED BY <1>5, <1>6, <1>10 DEF RecInv

\* An exception leaves a checkpoint that nobody asked.
LEMMA AbortRecords ==
  ASSUME IInv, RecInv, NEW m \in M, NEW c, Abort(m, c), Replied(c)
  PROVE  RecInv'
<1>0. TypeOK
  BY DEF IInv
<1>1. /\ hist' = hist
      /\ ckpt' = [ckpt EXCEPT ![Session(m)] = c]
      /\ pc' = [pc EXCEPT ![m] = "done"]
      /\ buf' = [buf EXCEPT ![m] = <<>>]
      /\ outbound' = Append(outbound, [msg |-> m, to |-> ErrorAddress(m), is |-> "error"])
  BY DEF Abort, Release
<1>2. EndInv'
  <2>1. \A s \in Sessions : ckpt'[s] = c \/ ckpt'[s] = ckpt[s]
    BY <1>0, <1>1 DEF TypeOK
  <2> QED BY <1>1, <2>1 DEF RecInv, EndInv, Replied
<1>3. AskedInv'
  <2>1. \A n \in M : n # m => pc'[n] = pc[n] /\ buf'[n] = buf[n]
    BY <1>0, <1>1 DEF TypeOK
  <2>2. pc'[m] = "done"
    BY <1>0, <1>1 DEF TypeOK
  <2> QED BY <2>1, <2>2 DEF RecInv, AskedInv, M, Asked
<1>4. \A s \in Sessions : \E t \in Seq(Entry) : hist'[s] = hist[s] \o t
  <2> TAKE s \in Sessions
  <2>1. <<>> \in Seq(Entry) /\ hist[s] \in Seq(Entry)
    BY <1>0 DEF TypeOK
  <2>2. hist'[s] = hist[s] \o <<>>
    BY <1>1, <2>1
  <2> QED BY <2>1, <2>2
<1>5. AnswersRecorded'
  BY <1>1, <1>4, GrowthRecords DEF RecInv
<1> QED BY <1>2, <1>3, <1>5 DEF RecInv

\* Turn m goes on with messages b; its checkpoint becomes c.
LEMMA GoOnRecords ==
  ASSUME IInv, RecInv, NEW m \in M, NEW b \in Seq(Entry), NEW c, Replied(c),
         m \in Users => b # <<>> /\ b[1] = Asked(m),
         \A n \in M : n # m => pc'[n] = pc[n] /\ buf'[n] = buf[n],
         buf'[m] = b, UNCHANGED <<hist, outbound>>,
         ckpt' = ckpt \/ ckpt' = [ckpt EXCEPT ![Session(m)] = c]
  PROVE  RecInv'
<1>0. TypeOK
  BY DEF IInv
<1>1. EndInv'
  <2>1. \A s \in Sessions : ckpt'[s] = c \/ ckpt'[s] = ckpt[s]
    BY <1>0 DEF TypeOK
  <2> QED BY <2>1 DEF RecInv, EndInv, Replied
<1>2. AskedInv'
  BY DEF RecInv, AskedInv, M, Asked
<1>3. AnswersRecorded'
  BY DEF RecInv, AnswersRecorded, Recorded
<1> QED BY <1>1, <1>2, <1>3 DEF RecInv

\* The next iteration, or the end at max_iterations.
LEMMA ContinueRecords ==
  ASSUME IInv, RecInv, NEW m \in M, NEW b \in Seq(Entry), NEW feedback \in BOOLEAN, NEW c,
         Continue(m, b, feedback, c), Replied(c),
         m \in Users => b # <<>> /\ b[1] = Asked(m)
  PROVE  RecInv'
<1>0. TypeOK /\ iter[m] \in Nat
  BY DEF IInv, TypeOK
<1>1. CASE IterationsLeft(m)
  <2> DEFINE d == b \o Injected(m, iter[m] + 1)
  <2>1. Injected(m, iter[m] + 1) \in Seq(Entry)
    <3>1. iter[m] + 1 \in Nat
      BY <1>0
    <3>2. \A n \in M, it \in Nat : Injected(n, it) \in Seq(Entry)
      BY InputType
    <3> QED BY <3>1, <3>2
  <2>2. d \in Seq(Entry) /\ (b # <<>> => d # <<>> /\ d[1] = b[1])
    BY <2>1
  <2>3. /\ pc' = [pc EXCEPT ![m] = "model"] /\ buf' = [buf EXCEPT ![m] = d]
        /\ ckpt' = [ckpt EXCEPT ![Session(m)] = c] /\ UNCHANGED <<hist, outbound>>
    BY <1>1 DEF Continue, busVars
  <2>4. /\ \A n \in M : n # m => pc'[n] = pc[n] /\ buf'[n] = buf[n]
        /\ buf'[m] = d
    BY <1>0, <2>3 DEF TypeOK
  <2> HIDE DEF d
  <2> QED BY <2>2, <2>3, <2>4, GoOnRecords
<1>2. CASE ~IterationsLeft(m)
  <2> DEFINE d == IF feedback THEN Append(b, Final(m)) ELSE AppendFinal(m, b)
  <2>1. Finish(m, d, "max_iterations")
    BY <1>2 DEF Continue
  <2>2. d = AppendFinal(m, b) \/ d = Append(b, Final(m))
    OBVIOUS
  <2> HIDE DEF d
  <2>3. /\ d \in Seq(Entry)
        /\ d # <<>> => d[Len(d)] = Final(m)
        /\ m \in Users => Len(d) > 1 /\ d[1] = Asked(m)
    BY <2>2, AppendFinalEnds
  <2> QED BY <2>1, <2>3, FinishRecords
<1> QED BY <1>1, <1>2

\* What a checkpoint holds of a batch ends with the tools.
LEMMA BatchReplied ==
  ASSUME NEW m \in M
  PROVE  /\ Replied(AwaitingTools(m)) /\ Replied(ToolsCompleted(m))
         /\ Replied(<<Final(m)>>) /\ Replied(<<>>)
<1>1. AwaitingTools(m)[Len(AwaitingTools(m))] = Interrupted(m)
  BY DEF AwaitingTools
<1>2. ToolsCompleted(m)[Len(ToolsCompleted(m))] = Results(m)
  BY DEF ToolsCompleted
<1>3. Role(Interrupted(m)) # "user" /\ Role(Results(m)) # "user" /\ Role(Final(m)) # "user"
  BY DEF Role, Interrupted, Results, Final
<1> QED BY <1>1, <1>2, <1>3 DEF Replied

\* A dead turn's checkpoint is materialised.
LEMMA PassGateRecords ==
  ASSUME IInv, RecInv, NEW m \in M, PassGate(m)
  PROVE  RecInv'
<1>0. TypeOK /\ Session(m) \in Sessions
  BY KeyType DEF IInv
<1> DEFINE s0 == Session(m)
           h == hist[s0]
           r == ckpt[s0]
           t == SubSeq(r, Overlap(h, r) + 1, Len(r))
<1>1. h \in Seq(Entry) /\ r \in Seq(Entry) /\ Replied(h) /\ Replied(r)
  BY <1>0 DEF TypeOK, RecInv, EndInv
<1>2. Overlap(h, r) \in 0..Len(r)
  BY <1>1, OverlapType
<1>3. t \in Seq(Entry) /\ Replied(t)
  <2> DEFINE k == Overlap(h, r)
  <2>1. k \in 0..Len(r) /\ t = SubSeq(r, k + 1, Len(r))
    BY <1>2
  <2> HIDE DEF k, t, r
  <2>2. t \in Seq(Entry) /\ Len(t) = Len(r) - k /\ (t # <<>> => t[Len(t)] = r[Len(r)] /\ r # <<>>)
    <3>1. Len(r) \in Nat /\ k \in Nat /\ k <= Len(r)
      BY <1>1, <2>1
    <3>2. CASE k = Len(r)
      <4>1. t = <<>>
        BY <1>1, <2>1, <3>2
      <4> QED BY <3>1, <3>2, <4>1
    <3>3. CASE k < Len(r)
      <4>1. /\ t \in Seq(Entry) /\ Len(t) = Len(r) - k
            /\ \A i \in 1..(Len(r) - k) : t[i] = r[k + i]
        BY <1>1, <2>1, <3>1, <3>3
      <4>2. Len(r) - k \in 1..(Len(r) - k) /\ k + (Len(r) - k) = Len(r)
        BY <3>1, <3>3
      <4>3. r # <<>>
        BY <3>1, <3>3
      <4> QED BY <4>1, <4>2, <4>3
    <3> QED BY <3>1, <3>2, <3>3
  <2> QED BY <1>1, <2>2 DEF Replied
<1>4. /\ hist' = [hist EXCEPT ![s0] = h \o t]
      /\ ckpt' = [ckpt EXCEPT ![s0] = <<>>]
      /\ pc' = [pc EXCEPT ![m] = "begin"] /\ UNCHANGED <<buf, outbound>>
  BY DEF PassGate, Restored, turnVars, busVars
<1>5. hist \in [Sessions -> Seq(Entry)] /\ ckpt \in [Sessions -> Seq(Entry)]
  BY <1>0 DEF TypeOK
<1>6. hist'[s0] = h \o t /\ ckpt'[s0] = <<>>
  BY <1>0, <1>4, <1>5
<1>7. \A s \in Sessions : s # s0 => hist'[s] = hist[s] /\ ckpt'[s] = ckpt[s]
  BY <1>4, <1>5
<1> HIDE DEF t
<1>8. Replied(h \o t)
  BY <1>1, <1>3, RepliedAfter
<1>9. EndInv'
  <2> SUFFICES ASSUME NEW s \in Sessions PROVE Replied(hist'[s]) /\ Replied(ckpt'[s])
    BY DEF EndInv, Replied
  <2>1. CASE s = s0
    <3>1. Replied(<<>>)
      BY DEF Replied
    <3> QED BY <1>6, <1>8, <2>1, <3>1
  <2>2. CASE s # s0
    BY <1>7, <2>2 DEF RecInv, EndInv
  <2> QED BY <2>1, <2>2
<1>10. AskedInv'
  <2>1. \A n \in M : n # m => pc'[n] = pc[n]
    BY <1>0, <1>4 DEF TypeOK
  <2>2. pc'[m] = "begin"
    BY <1>0, <1>4 DEF TypeOK
  <2> QED BY <1>4, <2>1, <2>2 DEF RecInv, AskedInv, M, Asked
<1>11. \A s \in Sessions : \E x \in Seq(Entry) : hist'[s] = hist[s] \o x
  <2> TAKE s \in Sessions
  <2>1. CASE s = s0
    BY <1>3, <1>6, <2>1
  <2>2. CASE s # s0
    <3>1. hist'[s] = hist[s] /\ hist[s] \in Seq(Entry) /\ <<>> \in Seq(Entry)
      BY <1>5, <1>7, <2>2
    <3>2. hist'[s] = hist[s] \o <<>>
      BY <3>1
    <3> QED BY <3>1, <3>2
  <2> QED BY <2>1, <2>2
<1>12. AnswersRecorded'
  BY <1>4, <1>11, GrowthRecords DEF RecInv
<1> QED BY <1>9, <1>10, <1>12 DEF RecInv

\* A turn begins with what was asked: no history ends with a user's message, so
\* nothing is merged.
LEMMA BeginRecords ==
  ASSUME IInv, RecInv, NEW m \in M, Begin(m)
  PROVE  RecInv'
<1>0. TypeOK /\ Session(m) \in Sessions
  BY KeyType DEF IInv
<1> DEFINE d == Input(m, hist[Session(m)]) \o Injected(m, 0)
<1>1. Input(m, hist[Session(m)]) \in Seq(Entry) /\ Injected(m, 0) \in Seq(Entry)
  BY InputType
<1>2. m \in Users => Input(m, hist[Session(m)]) = <<Asked(m)>>
  <2> SUFFICES ASSUME m \in Users PROVE Input(m, hist[Session(m)]) = <<Asked(m)>>
    OBVIOUS
  <2>1. InputRole(m) = "user"
    BY MessageAssumption DEF InputRole
  <2>2. Replied(hist[Session(m)])
    BY <1>0 DEF RecInv, EndInv
  <2> QED BY <2>1, <2>2 DEF Input, Asked, Replied
<1>3. d \in Seq(Entry) /\ (m \in Users => d # <<>> /\ d[1] = Asked(m))
  <2>1. d \in Seq(Entry)
    BY <1>1
  <2>2. ASSUME m \in Users PROVE d # <<>> /\ d[1] = Asked(m)
    <3>1. d = <<Asked(m)>> \o Injected(m, 0)
      BY <1>2, <2>2
    <3> HIDE DEF d
    <3> QED BY <1>1, <3>1
  <2> QED BY <2>1, <2>2
<1>4. /\ buf' = [buf EXCEPT ![m] = d] /\ pc' = [pc EXCEPT ![m] = "model"]
      /\ UNCHANGED <<hist, ckpt, outbound>>
  BY DEF Begin, busVars, sessionVars
<1>5. /\ \A n \in M : n # m => pc'[n] = pc[n] /\ buf'[n] = buf[n]
      /\ buf'[m] = d
  BY <1>0, <1>4 DEF TypeOK
<1>6. Replied(<<>>)
  BY DEF Replied
<1> HIDE DEF d
<1> QED BY <1>3, <1>4, <1>5, <1>6, GoOnRecords

\* What the model replies, and the end of a batch.
LEMMA RepliesRecord ==
  ASSUME IInv, RecInv, NEW m \in M, ModelReplies(m) \/ ToolsDone(m)
  PROVE  RecInv'
<1>0. TypeOK /\ Session(m) \in Sessions
  BY KeyType DEF IInv
<1>1. pc[m] \in {"model", "tools"} /\ buf[m] \in Seq(Entry)
  BY <1>0 DEF ModelReplies, ReplyTools, ReplyMalformed, ReplyFinal, ReplyEnd, ToolsDone, TypeOK
<1>2. m \in Users => buf[m] # <<>> /\ buf[m][1] = Asked(m)
  BY <1>1 DEF RecInv, AskedInv
<1>3. Calls(m) \in Entry /\ Results(m) \in Entry /\ Final(m) \in Entry
  BY <1>0, EntryType
<1>4. \A e \in Entry : /\ Append(buf[m], e) \in Seq(Entry)
                       /\ m \in Users => Append(buf[m], e) # <<>> /\ Append(buf[m], e)[1] = Asked(m)
  BY <1>1, <1>2
<1>5. ASSUME NEW b \in Batches, ReplyTools(m, b) PROVE RecInv'
  <2>1. /\ pc' = [pc EXCEPT ![m] = "tools"] /\ buf' = [buf EXCEPT ![m] = Append(@, Calls(m))]
        /\ ckpt' = [ckpt EXCEPT ![Session(m)] = AwaitingTools(m)] /\ UNCHANGED <<hist, outbound>>
    BY <1>5 DEF ReplyTools, busVars
  <2>2. /\ \A n \in M : n # m => pc'[n] = pc[n] /\ buf'[n] = buf[n]
        /\ buf'[m] = Append(buf[m], Calls(m))
    BY <1>0, <2>1 DEF TypeOK
  <2> QED BY <1>3, <1>4, <2>1, <2>2, BatchReplied, GoOnRecords
<1>6. ASSUME NEW c, c = AppendFinal(m, buf[m]) \/ c = Append(buf[m], Final(m)),
             NEW reason, Finish(m, c, reason)
      PROVE  RecInv'
  <2>1. /\ c \in Seq(Entry)
        /\ c # <<>> => c[Len(c)] = Final(m)
        /\ m \in Users => Len(c) > 1 /\ c[1] = Asked(m)
    BY <1>1, <1>2, <1>6, AppendFinalEnds
  <2> QED BY <1>6, <2>1, FinishRecords
<1>7. CASE ReplyMalformed(m)
  <2>1. Replied(ckpt[Session(m)])
    BY <1>0 DEF RecInv, EndInv
  <2> QED BY <1>1, <1>2, <1>6, <1>7, <2>1, ContinueRecords DEF ReplyMalformed
<1>8. CASE ReplyFinal(m)
  BY <1>6, <1>8 DEF ReplyFinal
<1>9. ASSUME NEW reason \in Reasons, ReplyEnd(m, reason) PROVE RecInv'
  BY <1>6, <1>9 DEF ReplyEnd
<1>10. CASE ToolsDone(m)
  BY <1>3, <1>4, <1>10, BatchReplied, ContinueRecords DEF ToolsDone
<1> QED BY <1>5, <1>7, <1>8, <1>9, <1>10 DEF ModelReplies

\* Every step keeps the records.
LEMMA NextRecords == IInv /\ RecInv /\ [Next]_vars => RecInv'
<1> SUFFICES ASSUME IInv, RecInv, [Next]_vars PROVE RecInv'
  OBVIOUS
<1>0. TypeOK
  BY DEF IInv
<1>1. ASSUME NEW m \in M, TurnStep(m) PROVE RecInv'
  <2>1. CASE AcquireLock(m)
    <3>1. pc' = [pc EXCEPT ![m] = "gate"] /\ UNCHANGED <<hist, ckpt, buf, outbound>>
      BY <2>1 DEF AcquireLock, busVars, sessionVars, turnVars
    <3> QED BY <1>0, <3>1, QuietRecords DEF TypeOK, M
  <2>2. CASE Exec(m) \/ (\E x \in Subs : Spawn(m, x)) \/ YieldPoll(m)
    <3>1. UNCHANGED <<pc, hist, ckpt, buf, outbound>>
      BY <2>2 DEF Exec, Spawn, YieldPoll, busVars, taskVars, sessionVars
    <3> QED BY <3>1, QuietRecords
  <2>3. CASE SendMessage(m)
    <3>1. /\ UNCHANGED <<pc, hist, ckpt, buf>>
          /\ outbound' = Append(outbound, [msg |-> m, to |-> <<"chat", toolCtx>>, is |-> "tool"])
      BY <2>3 DEF SendMessage, taskVars, sessionVars
    <3> QED BY <3>1, QuietRecords
  <2> QED BY <1>1, <2>1, <2>2, <2>3, PassGateRecords, BeginRecords, RepliesRecord DEF TurnStep, ToolStep
<1>2. ASSUME NEW m \in M, YieldTimesOut(m) \/ Raise(m) \/ RaiseInSave(m) PROVE RecInv'
  <2>1. CASE YieldTimesOut(m)
    <3>1. UNCHANGED <<pc, hist, ckpt, buf, outbound>>
      BY <2>1 DEF YieldTimesOut, busVars, taskVars, sessionVars
    <3> QED BY <3>1, QuietRecords
  <2>2. CASE Raise(m) \/ RaiseInSave(m)
    <3>1. Session(m) \in Sessions
      BY <1>0, KeyType
    <3>2. Replied(ckpt[Session(m)])
      BY <3>1 DEF RecInv, EndInv
    <3> QED BY <2>2, <3>2, BatchReplied, AbortRecords DEF Raise, RaiseInSave
  <2> QED BY <1>2, <2>1, <2>2
<1>3. CASE \/ \E x \in Subs : Announce(x) \/ Cleanup(x)
           \/ \E u \in Users : Publish(u)
           \/ Dispatch \/ PollTimesOut \/ Stop \/ UNCHANGED vars
  <2>1. UNCHANGED <<hist, ckpt, buf, outbound>>
    BY <1>3 DEF Announce, Cleanup, Publish, Dispatch, PollTimesOut, Stop, vars, busVars,
                sessionVars, turnVars
  <2>2. pc' = pc \/ \E m : \E v \in {"inbound", "lock"} : pc' = [pc EXCEPT ![m] = v]
    BY <1>3 DEF Announce, Cleanup, Publish, Dispatch, PollTimesOut, Stop, vars, busVars, taskVars
  <2>3. \A u \in Users : pc'[u] \in {"model", "tools"} => pc[u] \in {"model", "tools"}
    BY <1>0, <2>2 DEF TypeOK, M
  <2> QED BY <2>1, <2>3, QuietRecords
<1> QED BY <1>1, <1>2, <1>3 DEF Next, LoopStep

\* What a user was answered, however the turn ended, is in the history of the
\* session, after what was asked (_save_turn, _append_final_message).
THEOREM AnswersAreRecorded == Spec => []AnsweredTurnRecorded
<1>1. Init => RecInv
  BY DEF Init, RecInv, EndInv, AskedInv, AnswersRecorded, Replied, M
<1>2. RecInv => AnsweredTurnRecorded
  BY DEF RecInv, AnswersRecorded, Recorded, AnsweredTurnRecorded
<1> QED BY <1>1, <1>2, NextRecords, InvariantHolds, PTL DEF Spec
-----------------------------------------------------------------------------
(* Calls and their results.                                                 *)

\* The entry f tells how the calls of entry e came out.
Follows(e, f) == f.is \in {"results", "interrupted"} /\ f.turn = e.turn /\ f.it = e.it
Paired(h) ==
  \A i \in 1..Len(h) : h[i].is = "calls" => i < Len(h) /\ Follows(h[i], h[i + 1])

\* Histories and checkpoints are paired, and so are a turn's messages but for
\* the calls that are being executed.
PairInv ==
  /\ \A s \in Sessions : Paired(hist[s]) /\ Paired(ckpt[s])
  /\ \A m \in M :
       /\ pc[m] # "tools" => Paired(buf[m])
       /\ pc[m] = "tools" => \E b \in Seq(Entry) : Paired(b) /\ buf[m] = Append(b, Calls(m))

\* What is paired can be put together.
LEMMA PairedConcat ==
  ASSUME NEW h \in Seq(Entry), NEW t \in Seq(Entry), Paired(h), Paired(t)
  PROVE  Paired(h \o t) /\ h \o t \in Seq(Entry)
<1>1. /\ Len(h \o t) = Len(h) + Len(t) /\ Len(h) \in Nat /\ Len(t) \in Nat
      /\ \A i \in 1..Len(h) : (h \o t)[i] = h[i]
      /\ \A i \in 1..Len(t) : (h \o t)[Len(h) + i] = t[i]
      /\ h \o t \in Seq(Entry)
  OBVIOUS
<1> DEFINE c == h \o t
<1>2. ASSUME NEW i \in 1..Len(c), c[i].is = "calls" PROVE i < Len(c) /\ Follows(c[i], c[i + 1])
  <2>1. CASE i \in 1..Len(h)
    <3>1. i < Len(h) /\ Follows(h[i], h[i + 1]) /\ i + 1 \in 1..Len(h)
      BY <1>1, <1>2, <2>1 DEF Paired
    <3> QED BY <1>1, <2>1, <3>1
  <2>2. CASE i \notin 1..Len(h)
    <3>1. i - Len(h) \in 1..Len(t) /\ Len(h) + (i - Len(h)) = i
      BY <1>1, <2>2
    <3>2. t[i - Len(h)] = c[i]
      BY <1>1, <3>1
    <3>3. i - Len(h) < Len(t) /\ Follows(t[i - Len(h)], t[(i - Len(h)) + 1])
      BY <1>2, <3>1, <3>2 DEF Paired
    <3>4. (i - Len(h)) + 1 \in 1..Len(t) /\ Len(h) + ((i - Len(h)) + 1) = i + 1
      BY <1>1, <3>1, <3>3
    <3>5. t[(i - Len(h)) + 1] = c[i + 1]
      BY <1>1, <3>4
    <3> QED BY <1>1, <3>1, <3>2, <3>3, <3>5
  <2> QED BY <2>1, <2>2
<1> HIDE DEF c
<1>3. Paired(c)
  BY <1>2 DEF Paired
<1> QED BY <1>1, <1>3 DEF c

\* The end of what is paired is paired.
LEMMA PairedSuffix ==
  ASSUME NEW r \in Seq(Entry), NEW k \in 0..Len(r), Paired(r)
  PROVE  Paired(SubSeq(r, k + 1, Len(r))) /\ SubSeq(r, k + 1, Len(r)) \in Seq(Entry)
<1> DEFINE t == SubSeq(r, k + 1, Len(r))
<1>1. /\ t \in Seq(Entry) /\ Len(r) \in Nat /\ k \in Nat /\ k <= Len(r) /\ Len(t) = Len(r) - k
      /\ \A i \in 1..(Len(r) - k) : t[i] = r[k + i]
  <2>1. Len(r) \in Nat /\ k \in Nat /\ k <= Len(r)
    OBVIOUS
  <2>2. CASE k = Len(r)
    <3>1. t = <<>>
      BY <2>1, <2>2
    <3> QED BY <2>1, <2>2, <3>1
  <2>3. CASE k < Len(r)
    BY <2>1, <2>3
  <2> QED BY <2>1, <2>2, <2>3
<1> HIDE DEF t
<1>2. ASSUME NEW i \in 1..Len(t), t[i].is = "calls" PROVE i < Len(t) /\ Follows(t[i], t[i + 1])
  <2>1. k + i \in 1..Len(r) /\ t[i] = r[k + i]
    BY <1>1
  <2>2. k + i < Len(r) /\ Follows(r[k + i], r[(k + i) + 1])
    BY <1>2, <2>1 DEF Paired
  <2>3. i + 1 \in 1..(Len(r) - k) /\ k + (i + 1) = (k + i) + 1
    BY <1>1, <2>1, <2>2
  <2>4. t[i + 1] = r[(k + i) + 1]
    BY <1>1, <2>3
  <2> QED BY <1>1, <2>1, <2>2, <2>4
<1> QED BY <1>1, <1>2 DEF Paired, t

\* What a turn adds is paired.
LEMMA PairedParts ==
  ASSUME TypeOK, NEW m \in M
  PROVE  /\ Paired(<<>>) /\ <<>> \in Seq(Entry)
         /\ Paired(AwaitingTools(m)) /\ Paired(ToolsCompleted(m)) /\ Paired(<<Final(m)>>)
         /\ AwaitingTools(m) \in Seq(Entry) /\ ToolsCompleted(m) \in Seq(Entry)
         /\ <<Final(m)>> \in Seq(Entry)
         /\ \A h : Paired(Input(m, h)) /\ Input(m, h) \in Seq(Entry)
         /\ \A it \in Nat : Paired(Injected(m, it)) /\ Injected(m, it) \in Seq(Entry)
<1>1. Paired(<<>>) /\ <<>> \in Seq(Entry)
  BY DEF Paired
<1>2. \A e : e.is # "calls" => Paired(<<e>>)
  BY DEF Paired
<1>3. Paired(<<Final(m)>>)
  BY <1>2 DEF Final
<1>4. \A f : Follows(Calls(m), f) => Paired(<<Calls(m), f>>)
  <2> SUFFICES ASSUME NEW f, Follows(Calls(m), f),
                      NEW i \in 1..2, <<Calls(m), f>>[i].is = "calls"
               PROVE  i < 2 /\ Follows(<<Calls(m), f>>[i], <<Calls(m), f>>[i + 1])
    BY DEF Paired
  <2>1. i = 1
    BY DEF Follows
  <2> QED BY <2>1
<1>5. Follows(Calls(m), Results(m)) /\ Follows(Calls(m), Interrupted(m))
  BY DEF Follows, Calls, Results, Interrupted
<1>6. Paired(AwaitingTools(m)) /\ Paired(ToolsCompleted(m))
  BY <1>4, <1>5 DEF AwaitingTools, ToolsCompleted
<1>7. \A h : Paired(Input(m, h))
  BY <1>1, <1>2 DEF Input
<1>8. \A it \in Nat : Paired(Injected(m, it))
  BY <1>1, <1>2 DEF Injected
<1>9. /\ \A h : Input(m, h) \in Seq(Entry)
      /\ \A it \in Nat : Injected(m, it) \in Seq(Entry)
  <2>1. 0 \in Nat
    OBVIOUS
  <2> QED BY <2>1, InputType
<1>10. /\ AwaitingTools(m) \in Seq(Entry) /\ ToolsCompleted(m) \in Seq(Entry)
       /\ <<Final(m)>> \in Seq(Entry)
  BY EntryType
<1> QED BY <1>1, <1>3, <1>6, <1>7, <1>8, <1>9, <1>10

\* A final message is added, or takes the place of one that is no tool's result.
LEMMA PairedFinal ==
  ASSUME TypeOK, NEW m \in M, NEW b \in Seq(Entry), Paired(b),
         NEW c, c = AppendFinal(m, b) \/ c = Append(b, Final(m))
  PROVE  Paired(c) /\ c \in Seq(Entry)
<1>1. /\ Final(m) \in Entry /\ Paired(<<Final(m)>>) /\ <<Final(m)>> \in Seq(Entry)
      /\ Paired(<<>>) /\ <<>> \in Seq(Entry)
  BY EntryType, PairedParts
<1>2. CASE c = Append(b, Final(m))
  <2>1. c = b \o <<Final(m)>>
    BY <1>1, <1>2
  <2> QED BY <1>1, <2>1, PairedConcat
<1>3. CASE c = <<>>
  BY <1>1, <1>3
<1>4. CASE c = Append(SubSeq(b, 1, Len(b) - 1), Final(m)) /\ b # <<>> /\ Replaceable(m, b)
  <2> DEFINE n == Len(b) - 1
             d == SubSeq(b, 1, n)
  <2>1. n \in Nat /\ n < Len(b) /\ Len(b) = n + 1 /\ Len(b) \in 1..Len(b)
    BY <1>4
  <2>2. d \in Seq(Entry) /\ Len(d) = n /\ \A i \in 1..n : d[i] = b[i]
    <3>1. \A k \in Nat : k <= Len(b) => /\ SubSeq(b, 1, k) \in Seq(Entry)
                                        /\ Len(SubSeq(b, 1, k)) = k
                                        /\ \A i \in 1..k : SubSeq(b, 1, k)[i] = b[i]
      OBVIOUS
    <3> QED BY <2>1, <3>1
  <2>3. b[n + 1].is \notin {"results", "interrupted"}
    BY <1>4, <2>1 DEF Replaceable, Role
  <2>4. ASSUME NEW i \in 1..n, d[i].is = "calls" PROVE i < n /\ Follows(d[i], d[i + 1])
    <3>1. Follows(b[i], b[i + 1]) /\ d[i] = b[i]
      BY <2>1, <2>2, <2>4 DEF Paired
    <3>2. i # n
      BY <2>3, <3>1 DEF Follows
    <3>3. i < n /\ i + 1 \in 1..n
      <4>1. \A k \in Nat : \A j \in 1..k : j # k => j < k /\ j + 1 \in 1..k
        OBVIOUS
      <4> HIDE DEF n, d
      <4> QED BY <2>1, <3>2, <4>1
    <3> QED BY <2>2, <3>1, <3>3
  <2>5. Paired(d)
    BY <2>2, <2>4 DEF Paired
  <2>6. c = d \o <<Final(m)>>
    BY <1>1, <1>4, <2>2
  <2> HIDE DEF d
  <2> QED BY <1>1, <2>2, <2>5, <2>6, PairedConcat
<1>5. \/ c = Append(b, Final(m)) \/ c = <<>>
      \/ (c = Append(SubSeq(b, 1, Len(b) - 1), Final(m)) /\ b # <<>> /\ Replaceable(m, b))
  BY DEF AppendFinal, TypeOK
<1> QED BY <1>2, <1>3, <1>4, <1>5

\* Turn m adds t to the history, has c as checkpoint and b as messages after it.
LEMMA TurnPairs ==
  ASSUME IInv, PairInv, NEW m \in M, NEW v, v # "tools",
         NEW t \in Seq(Entry), Paired(t), NEW c, Paired(c), NEW b, Paired(b),
         pc' = [pc EXCEPT ![m] = v],
         buf' = [buf EXCEPT ![m] = b],
         hist' = hist \/ hist' = [hist EXCEPT ![Session(m)] = @ \o t],
         ckpt' = ckpt \/ ckpt' = [ckpt EXCEPT ![Session(m)] = c],
         \A n \in M : n # m /\ pc[n] = "tools" => Calls(n)' = Calls(n)
  PROVE  PairInv'
<1>0. TypeOK
  BY DEF IInv
<1>1. ASSUME NEW s \in Sessions PROVE Paired(hist'[s]) /\ Paired(ckpt'[s])
  <2>1. Paired(hist[s]) /\ Paired(ckpt[s]) /\ hist[s] \in Seq(Entry)
    BY <1>0 DEF PairInv, TypeOK
  <2>2. Paired(hist[s] \o t)
    BY <2>1, PairedConcat
  <2>0. hist \in [Sessions -> Seq(Entry)] /\ ckpt \in [Sessions -> Seq(Entry)]
    BY <1>0 DEF TypeOK
  <2>3. hist'[s] = hist[s] \/ hist'[s] = hist[s] \o t
    BY <2>0
  <2>4. ckpt'[s] = ckpt[s] \/ ckpt'[s] = c
    BY <1>0 DEF TypeOK
  <2> QED BY <2>1, <2>2, <2>3, <2>4
<1>2. /\ pc'[m] = v /\ buf'[m] = b
      /\ \A n \in M : n # m => pc'[n] = pc[n] /\ buf'[n] = buf[n]
  BY <1>0 DEF TypeOK
<1>3. ASSUME NEW n \in M
      PROVE  /\ pc'[n] # "tools" => Paired(buf'[n])
             /\ pc'[n] = "tools" => \E d \in Seq(Entry) : Paired(d) /\ buf'[n] = Append(d, Calls(n)')
  BY <1>2 DEF PairInv
<1> QED BY <1>1, <1>3 DEF PairInv, Paired, Follows

\* The calls of a turn are those of its iteration.
LEMMA CallsStay ==
  ASSUME TypeOK, NEW m \in M, NEW v, iter' = [iter EXCEPT ![m] = v]
  PROVE  \A n \in M : n # m => Calls(n)' = Calls(n)
BY DEF TypeOK, Calls

\* A turn ends, or an iteration does.
LEMMA FinishPairs ==
  ASSUME IInv, PairInv, NEW m \in M, NEW b \in Seq(Entry), Paired(b), NEW reason, Finish(m, b, reason)
  PROVE  PairInv'
<1>1. /\ pc' = [pc EXCEPT ![m] = "done"] /\ buf' = [buf EXCEPT ![m] = <<>>]
      /\ hist' = [hist EXCEPT ![Session(m)] = @ \o b]
      /\ ckpt' = [ckpt EXCEPT ![Session(m)] = <<>>]
      /\ iter' = [iter EXCEPT ![m] = 0]
  BY DEF Finish, Release, ClearCheckpoint
<1>2. Paired(<<>>)
  BY DEF Paired
<1>3. \A n \in M : n # m => Calls(n)' = Calls(n)
  BY <1>1, CallsStay DEF IInv
<1> QED BY <1>1, <1>2, <1>3, TurnPairs

\* An exception leaves the history alone.
LEMMA AbortPairs ==
  ASSUME IInv, PairInv, NEW m \in M, NEW c, Paired(c), Abort(m, c)
  PROVE  PairInv'
<1>1. /\ pc' = [pc EXCEPT ![m] = "done"] /\ buf' = [buf EXCEPT ![m] = <<>>]
      /\ hist' = hist /\ ckpt' = [ckpt EXCEPT ![Session(m)] = c]
      /\ iter' = [iter EXCEPT ![m] = 0]
  BY DEF Abort, Release
<1>2. Paired(<<>>) /\ <<>> \in Seq(Entry)
  BY DEF Paired
<1>3. \A n \in M : n # m => Calls(n)' = Calls(n)
  BY <1>1, CallsStay DEF IInv
<1> QED BY <1>1, <1>2, <1>3, TurnPairs

\* The next iteration begins with what is paired, or the turn ends with it.
LEMMA ContinuePairs ==
  ASSUME IInv, PairInv, NEW m \in M, NEW b \in Seq(Entry), Paired(b),
         NEW c, Paired(c), NEW feedback \in BOOLEAN, Continue(m, b, feedback, c)
  PROVE  PairInv'
<1>0. TypeOK /\ iter[m] + 1 \in Nat
  BY DEF IInv, TypeOK
<1>1. CASE IterationsLeft(m)
  <2> DEFINE d == b \o Injected(m, iter[m] + 1)
  <2>1. Paired(d)
    BY <1>0, PairedParts, PairedConcat
  <2>2. /\ pc' = [pc EXCEPT ![m] = "model"] /\ buf' = [buf EXCEPT ![m] = d]
        /\ hist' = hist /\ ckpt' = [ckpt EXCEPT ![Session(m)] = c]
        /\ iter' = [iter EXCEPT ![m] = @ + 1]
    BY <1>1 DEF Continue
  <2>3. \A n \in M : n # m => Calls(n)' = Calls(n)
    BY <1>0, <2>2, CallsStay
  <2>4. Paired(<<>>) /\ <<>> \in Seq(Entry)
    BY DEF Paired
  <2> HIDE DEF d
  <2> QED BY <2>1, <2>2, <2>3, <2>4, TurnPairs
<1>2. CASE ~IterationsLeft(m)
  <2> DEFINE d == IF feedback THEN Append(b, Final(m)) ELSE AppendFinal(m, b)
  <2>1. Finish(m, d, "max_iterations")
    BY <1>2 DEF Continue
  <2>2. d = AppendFinal(m, b) \/ d = Append(b, Final(m))
    OBVIOUS
  <2> HIDE DEF d
  <2>3. Paired(d) /\ d \in Seq(Entry)
    BY <1>0, <2>2, PairedFinal
  <2> QED BY <2>1, <2>3, FinishPairs
<1> QED BY <1>1, <1>2

\* A dead turn's checkpoint is paired, and so is what the history lacks of it.
LEMMA PassGatePairs ==
  ASSUME IInv, PairInv, NEW m \in M, PassGate(m)
  PROVE  PairInv'
<1>0. TypeOK /\ Session(m) \in Sessions
  BY KeyType DEF IInv
<1> DEFINE h == hist[Session(m)]
           r == ckpt[Session(m)]
           t == SubSeq(r, Overlap(h, r) + 1, Len(r))
<1>1. h \in Seq(Entry) /\ r \in Seq(Entry) /\ Paired(r)
  BY <1>0 DEF PairInv, TypeOK
<1>2. Paired(t) /\ t \in Seq(Entry)
  BY <1>1, OverlapType, PairedSuffix
<1>3. /\ pc' = [pc EXCEPT ![m] = "begin"] /\ pc[m] = "gate"
      /\ hist' = [hist EXCEPT ![Session(m)] = @ \o t]
      /\ ckpt' = [ckpt EXCEPT ![Session(m)] = <<>>]
      /\ UNCHANGED <<buf, iter>>
  BY <1>0 DEF PassGate, Restored, turnVars
<1>4. Paired(buf[m]) /\ buf' = [buf EXCEPT ![m] = buf[m]]
  BY <1>0, <1>3 DEF PairInv, TypeOK
<1>5. Paired(<<>>)
  BY DEF Paired
<1>6. \A n \in M : Calls(n)' = Calls(n)
  BY <1>3 DEF Calls
<1> HIDE DEF t
<1> QED BY <1>2, <1>3, <1>4, <1>5, <1>6, TurnPairs

\* A turn begins with its input and what has been announced.
LEMMA BeginPairs ==
  ASSUME IInv, PairInv, NEW m \in M, Begin(m)
  PROVE  PairInv'
<1>0. TypeOK
  BY DEF IInv
<1> DEFINE d == Input(m, hist[Session(m)]) \o Injected(m, 0)
<1>1. Paired(d)
  BY <1>0, PairedParts, PairedConcat
<1>2. /\ pc' = [pc EXCEPT ![m] = "model"] /\ buf' = [buf EXCEPT ![m] = d]
      /\ UNCHANGED <<hist, ckpt, iter>>
  BY DEF Begin, sessionVars
<1>3. \A n \in M : Calls(n)' = Calls(n)
  BY <1>2 DEF Calls
<1>4. Paired(<<>>) /\ <<>> \in Seq(Entry)
  BY DEF Paired
<1> HIDE DEF d
<1> QED BY <1>1, <1>2, <1>3, <1>4, TurnPairs

\* The model replies; a batch of calls comes back.
LEMMA RepliesPair ==
  ASSUME IInv, PairInv, NEW m \in M, ModelReplies(m) \/ ToolsDone(m) \/ Raise(m) \/ RaiseInSave(m)
  PROVE  PairInv'
<1>0. TypeOK /\ Session(m) \in Sessions
  BY KeyType DEF IInv
<1>1. Paired(ckpt[Session(m)]) /\ buf[m] \in Seq(Entry)
  BY <1>0 DEF PairInv, TypeOK
<1>2. pc[m] = "model" => Paired(buf[m])
  BY DEF PairInv
<1>3. ASSUME NEW b \in Batches, ReplyTools(m, b) PROVE PairInv'
  <2>1. /\ pc' = [pc EXCEPT ![m] = "tools"] /\ buf' = [buf EXCEPT ![m] = Append(@, Calls(m))]
        /\ hist' = hist /\ ckpt' = [ckpt EXCEPT ![Session(m)] = AwaitingTools(m)]
        /\ iter' = iter /\ pc[m] = "model"
    BY <1>3 DEF ReplyTools
  <2>2. \A n \in M : Calls(n)' = Calls(n)
    BY <2>1 DEF Calls
  <2>3. \A s \in Sessions : Paired(hist'[s]) /\ Paired(ckpt'[s])
    <3>1. Paired(AwaitingTools(m))
      BY <1>0, PairedParts
    <3>2. \A s \in Sessions : ckpt'[s] = ckpt[s] \/ ckpt'[s] = AwaitingTools(m)
      BY <1>0, <2>1 DEF TypeOK
    <3> QED BY <2>1, <3>1, <3>2 DEF PairInv
  <2>4. /\ pc'[m] = "tools" /\ buf'[m] = Append(buf[m], Calls(m))
        /\ \A n \in M : n # m => pc'[n] = pc[n] /\ buf'[n] = buf[n]
    BY <1>0, <2>1 DEF TypeOK
  <2>5. ASSUME NEW n \in M
        PROVE  /\ pc'[n] # "tools" => Paired(buf'[n])
               /\ pc'[n] = "tools" => \E d \in Seq(Entry) : Paired(d) /\ buf'[n] = Append(d, Calls(n)')
    BY <1>1, <1>2, <2>1, <2>2, <2>4 DEF PairInv
  <2> QED BY <2>3, <2>5 DEF PairInv, Paired, Follows
<1>4. ASSUME pc[m] = "model", NEW c, c = AppendFinal(m, buf[m]) \/ c = Append(buf[m], Final(m)),
             NEW reason, Finish(m, c, reason)
      PROVE  PairInv'
  BY <1>0, <1>1, <1>2, <1>4, PairedFinal, FinishPairs
<1>5. CASE ReplyMalformed(m)
  BY <1>1, <1>2, <1>4, <1>5, ContinuePairs DEF ReplyMalformed
<1>6. CASE ReplyFinal(m) \/ \E reason \in Reasons : ReplyEnd(m, reason)
  BY <1>4, <1>6 DEF ReplyFinal, ReplyEnd
<1>7. CASE ToolsDone(m)
  <2>1. PICK b \in Seq(Entry) : Paired(b) /\ buf[m] = Append(b, Calls(m))
    BY <1>7 DEF ToolsDone, PairInv
  <2>2. Append(buf[m], Results(m)) = b \o ToolsCompleted(m)
    <3>1. Calls(m) \in Entry /\ Results(m) \in Entry
      BY <1>0, EntryType
    <3>2. \A e, f \in Entry : Append(Append(b, e), f) = b \o <<e, f>>
      OBVIOUS
    <3> QED BY <2>1, <3>1, <3>2 DEF ToolsCompleted
  <2>3. Paired(ToolsCompleted(m)) /\ ToolsCompleted(m) \in Seq(Entry)
    BY <1>0, PairedParts
  <2>4. Paired(b \o ToolsCompleted(m)) /\ b \o ToolsCompleted(m) \in Seq(Entry)
    BY <2>1, <2>3, PairedConcat
  <2>5. Continue(m, b \o ToolsCompleted(m), FALSE, ToolsCompleted(m))
    BY <1>7, <2>2 DEF ToolsDone
  <2> QED BY <2>3, <2>4, <2>5, ContinuePairs
<1>8. CASE Raise(m) \/ RaiseInSave(m)
  BY <1>0, <1>1, <1>8, PairedParts, AbortPairs DEF Raise, RaiseInSave
<1> QED BY <1>3, <1>5, <1>6, <1>7, <1>8 DEF ModelReplies

\* Nobody's messages, history or checkpoint change.
LEMMA QuietPairs ==
  ASSUME IInv, PairInv, UNCHANGED <<hist, ckpt, buf, iter>>,
         \A m \in M : pc'[m] = "tools" <=> pc[m] = "tools"
  PROVE  PairInv'
BY DEF PairInv, Paired, Follows, Calls

\* The steps that concern neither history nor checkpoint nor a turn's messages.
LEMMA QuietSteps ==
  ASSUME TypeOK,
         \/ \E m \in M : \/ AcquireLock(m) \/ Exec(m) \/ SendMessage(m) \/ (\E x \in Subs : Spawn(m, x))
                         \/ YieldPoll(m) \/ YieldTimesOut(m)
         \/ \E x \in Subs : sub[x] = "running" /\ pc[x] = "new" /\ Announce(x)
         \/ \E x \in Subs : Cleanup(x)
         \/ \E u \in Users : Publish(u)
         \/ Dispatch /\ pc[inbound[consumed + 1]] = "inbound"
         \/ PollTimesOut \/ Stop \/ UNCHANGED vars
  PROVE  /\ UNCHANGED <<hist, ckpt, buf, iter>>
         /\ \/ UNCHANGED pc
            \/ \E m : \E v \in {"inbound", "lock", "gate"} :
                 /\ pc[m] \in {"new", "inbound", "lock"} /\ pc' = [pc EXCEPT ![m] = v]
<1>1. CASE \E m \in M : \/ AcquireLock(m) \/ Exec(m) \/ SendMessage(m) \/ (\E x \in Subs : Spawn(m, x))
                        \/ YieldPoll(m) \/ YieldTimesOut(m)
  BY <1>1 DEF AcquireLock, Exec, SendMessage, Spawn, YieldPoll, YieldTimesOut, taskVars, sessionVars, turnVars
<1>2. CASE \E x \in Subs : sub[x] = "running" /\ pc[x] = "new" /\ Announce(x)
  BY <1>2 DEF Announce, sessionVars, turnVars
<1>3. CASE \/ \E x \in Subs : Cleanup(x)
           \/ \E u \in Users : Publish(u)
           \/ PollTimesOut \/ Stop \/ UNCHANGED vars
  BY <1>3 DEF Cleanup, Publish, PollTimesOut, Stop, taskVars, sessionVars, turnVars, vars
<1>4. CASE Dispatch /\ pc[inbound[consumed + 1]] = "inbound"
  BY <1>4 DEF Dispatch, sessionVars, turnVars
<1> QED BY <1>1, <1>2, <1>3, <1>4

\* Who is announced or dispatched is where those steps expect it.
LEMMA StepsInPlace ==
  ASSUME IInv
  PROVE  /\ \A x \in Subs : Announce(x) => sub[x] = "running" /\ pc[x] = "new"
         /\ Dispatch => pc[inbound[consumed + 1]] = "inbound"
<1>1. \A x \in Subs : Announce(x) => sub[x] = "running" /\ pc[x] = "new"
  BY DEF Announce, IInv, SubInv
<1>2. ASSUME Dispatch PROVE pc[inbound[consumed + 1]] = "inbound"
  <2>1. consumed + 1 \in 1..Len(inbound) /\ ~(consumed + 1 <= consumed)
    BY <1>2 DEF Dispatch, IInv, TypeOK
  <2> QED BY <2>1 DEF IInv, QueueInv
<1> QED BY <1>1, <1>2

\* Every step keeps the pairs.
LEMMA NextPairs == IInv /\ PairInv /\ [Next]_vars => PairInv'
<1> SUFFICES ASSUME IInv, PairInv, [Next]_vars PROVE PairInv'
  OBVIOUS
<1>0. TypeOK
  BY DEF IInv
<1> DEFINE Rest ==
      \/ \E m \in M : \/ AcquireLock(m) \/ Exec(m) \/ SendMessage(m) \/ (\E x \in Subs : Spawn(m, x))
                      \/ YieldPoll(m) \/ YieldTimesOut(m)
      \/ \E x \in Subs : Announce(x) \/ Cleanup(x)
      \/ \E u \in Users : Publish(u)
      \/ Dispatch \/ PollTimesOut \/ Stop \/ UNCHANGED vars
<1>1. CASE Rest
  <2>1. /\ UNCHANGED <<hist, ckpt, buf, iter>>
        /\ \/ UNCHANGED pc
           \/ \E m : \E v \in {"inbound", "lock", "gate"} :
                /\ pc[m] \in {"new", "inbound", "lock"} /\ pc' = [pc EXCEPT ![m] = v]
    BY <1>0, <1>1, StepsInPlace, QuietSteps
  <2>2. \A m \in M : pc'[m] = "tools" <=> pc[m] = "tools"
    BY <1>0, <2>1 DEF TypeOK
  <2> QED BY <2>1, <2>2, QuietPairs
<1>2. CASE \E m \in M : \/ PassGate(m) \/ Begin(m) \/ ModelReplies(m) \/ ToolsDone(m)
                        \/ Raise(m) \/ RaiseInSave(m)
  BY <1>2, PassGatePairs, BeginPairs, RepliesPair
<1> QED BY <1>1, <1>2 DEF Next, LoopStep, TurnStep, ToolStep

\* Whatever turns of a session do at the same time and wherever they raise, the
\* history stays one that a provider accepts: calls are followed by their results.
THEOREM CallsStayPaired == Spec => []CallsPaired
<1>1. Init => PairInv
  BY DEF Init, PairInv, Paired
<1>2. PairInv => CallsPaired
  BY DEF PairInv, Paired, Follows, CallsPaired
<1> QED BY <1>1, <1>2, NextPairs, InvariantHolds, PTL DEF Spec

-----------------------------------------------------------------------------
(* Turns that share a lock.                                                 *)

\* No message is a subagent's, and those of a session are dispatched under one key.
SharedLocks ==
  /\ Subs = {}
  /\ \A u, v \in Users : SessionOf[u] = SessionOf[v] => (u \in Overridden <=> v \in Overridden)

Distinct(h) == \A i, j \in 1..Len(h) : h[i] = h[j] => i = j
OfTurn(m, h) == \A i \in 1..Len(h) : h[i].turn = m

\* What turn m has added up to iteration n, of which it has not got the results.
UpTo(m, b, n, p) ==
  \A i \in 1..Len(b) :
    /\ b[i].it <= n
    /\ b[i].it = n => b[i].is \in {"input", "injected"} \/ (p = "tools" /\ b[i].is = "calls")

\* Histories hold what dead turns have left, once; checkpoints are of turns that
\* the history does not hold yet; and so it is with a turn's own messages.
DeadInHistory == \A s \in Sessions : \A i \in 1..Len(hist[s]) : pc[hist[s][i].turn] = "done"
NewInCheckpoint ==
  \A s \in Sessions : \A i \in 1..Len(ckpt[s]) :
    /\ SessionOf[ckpt[s][i].turn] = s
    /\ pc[ckpt[s][i].turn] \in {"begin", "model", "tools", "done"}
    /\ \A j \in 1..Len(hist[s]) : hist[s][j].turn # ckpt[s][i].turn
AllDistinct == \A s \in Sessions : Distinct(hist[s]) /\ Distinct(ckpt[s])
OwnMessages ==
  \A m \in M : OfTurn(m, buf[m]) /\ Distinct(buf[m]) /\ UpTo(m, buf[m], iter[m], pc[m])

OnceInv == DeadInHistory /\ NewInCheckpoint /\ AllDistinct /\ OwnMessages

\* Without subagents, sessions do not change.
LEMMA SessionStays ==
  ASSUME SharedLocks, NEW m \in M
  PROVE  m \in Users /\ Session(m) = SessionOf[m]
BY DEF SharedLocks, M, Session

\* Distinct entries stay distinct when other ones are appended.
LEMMA DistinctConcat ==
  ASSUME NEW h \in Seq(Entry), NEW t \in Seq(Entry), Distinct(h), Distinct(t),
         \A i \in 1..Len(h), j \in 1..Len(t) : h[i] # t[j]
  PROVE  Distinct(h \o t)
<1>1. /\ Len(h \o t) = Len(h) + Len(t) /\ Len(h) \in Nat /\ Len(t) \in Nat
      /\ \A i \in 1..Len(h) : (h \o t)[i] = h[i]
      /\ \A i \in 1..Len(t) : (h \o t)[Len(h) + i] = t[i]
  OBVIOUS
<1> DEFINE c == h \o t
<1>2. \A i \in 1..Len(c) : i \notin 1..Len(h) => i - Len(h) \in 1..Len(t) /\ c[i] = t[i - Len(h)]
  <2> SUFFICES ASSUME NEW i \in 1..Len(c), i \notin 1..Len(h)
               PROVE  i - Len(h) \in 1..Len(t) /\ c[i] = t[i - Len(h)]
    OBVIOUS
  <2>1. i - Len(h) \in 1..Len(t) /\ Len(h) + (i - Len(h)) = i
    BY <1>1
  <2> QED BY <1>1, <2>1
<1> SUFFICES ASSUME NEW i \in 1..Len(c), NEW j \in 1..Len(c), c[i] = c[j] PROVE i = j
  BY DEF Distinct
<1> HIDE DEF c
<1>3. CASE i \in 1..Len(h) /\ j \in 1..Len(h)
  <2>1. h[i] = h[j]
    BY <1>1, <1>3 DEF c
  <2> QED BY <1>3, <2>1 DEF Distinct
<1>4. CASE i \in 1..Len(h) /\ j \notin 1..Len(h)
  BY <1>1, <1>2, <1>4 DEF c
<1>5. CASE i \notin 1..Len(h) /\ j \in 1..Len(h)
  BY <1>1, <1>2, <1>5 DEF c
<1>6. CASE i \notin 1..Len(h) /\ j \notin 1..Len(h)
  <2>1. t[i - Len(h)] = t[j - Len(h)] /\ i - Len(h) \in 1..Len(t) /\ j - Len(h) \in 1..Len(t)
    BY <1>2, <1>6
  <2>2. i - Len(h) = j - Len(h)
    BY <2>1 DEF Distinct
  <2>3. i \in Int /\ j \in Int
    BY <1>1 DEF c
  <2> QED BY <1>1, <2>2, <2>3
<1> QED BY <1>3, <1>4, <1>5, <1>6

\* A part of distinct entries has distinct entries, and no others.
LEMMA DistinctPart ==
  ASSUME NEW r \in Seq(Entry), NEW a \in 1..(Len(r) + 1), NEW z \in 0..Len(r), Distinct(r)
  PROVE  /\ SubSeq(r, a, z) \in Seq(Entry) /\ Distinct(SubSeq(r, a, z))
         /\ \A i \in 1..Len(SubSeq(r, a, z)) : \E j \in 1..Len(r) : SubSeq(r, a, z)[i] = r[j]
<1> DEFINE t == SubSeq(r, a, z)
<1>1. /\ t \in Seq(Entry) /\ Len(t) \in Nat
      /\ \A i \in 1..Len(t) : t[i] = r[a + i - 1] /\ a + i - 1 \in 1..Len(r)
  <2>1. Len(r) \in Nat /\ a \in Nat /\ z \in Nat /\ a >= 1 /\ a <= Len(r) + 1 /\ z <= Len(r)
    OBVIOUS
  <2>2. CASE z < a
    <3>1. t = <<>>
      BY <2>1, <2>2
    <3> QED BY <3>1
  <2>3. CASE a <= z
    BY <2>1, <2>3
  <2> QED BY <2>1, <2>2, <2>3
<1> HIDE DEF t
<1>2. ASSUME NEW i \in 1..Len(t), NEW j \in 1..Len(t), t[i] = t[j] PROVE i = j
  <2>1. a + i - 1 = a + j - 1
    BY <1>1, <1>2 DEF Distinct
  <2> QED BY <1>1, <2>1
<1> QED BY <1>1, <1>2 DEF Distinct, t

\* A turn's messages and one more.
LEMMA OneMore ==
  ASSUME NEW m \in M, NEW b \in Seq(Entry), OfTurn(m, b), Distinct(b),
         NEW e \in Entry, e.turn = m, \A i \in 1..Len(b) : b[i] # e
  PROVE  /\ Append(b, e) \in Seq(Entry) /\ OfTurn(m, Append(b, e)) /\ Distinct(Append(b, e))
         /\ Append(b, e) = b \o <<e>>
<1>1. /\ Len(Append(b, e)) = Len(b) + 1 /\ Append(b, e)[Len(b) + 1] = e
      /\ \A i \in 1..Len(b) : Append(b, e)[i] = b[i]
      /\ Append(b, e) \in Seq(Entry) /\ Len(b) \in Nat /\ Append(b, e) = b \o <<e>>
  OBVIOUS
<1>2. \A i \in 1..(Len(b) + 1) : i # Len(b) + 1 => i \in 1..Len(b)
  BY <1>1
<1> DEFINE c == Append(b, e)
<1> HIDE DEF c
<1> QED BY <1>1, <1>2 DEF OfTurn, Distinct

\* A final message is new to the turn, whether it is added or put in place of the last.
LEMMA FinalOnce ==
  ASSUME TypeOK, NEW m \in M, NEW b \in Seq(Entry), OfTurn(m, b), Distinct(b),
         \A i \in 1..Len(b) : b[i] # Final(m),
         NEW c, c = AppendFinal(m, b) \/ c = Append(b, Final(m))
  PROVE  c \in Seq(Entry) /\ OfTurn(m, c) /\ Distinct(c)
<1>1. Final(m) \in Entry /\ Final(m).turn = m
  BY EntryType DEF Final
<1>2. CASE c = Append(b, Final(m))
  BY <1>1, <1>2, OneMore
<1>3. CASE c = <<>>
  BY <1>3 DEF OfTurn, Distinct
<1>4. CASE c = Append(SubSeq(b, 1, Len(b) - 1), Final(m)) /\ b # <<>>
  <2> DEFINE d == SubSeq(b, 1, Len(b) - 1)
  <2>1. 1 \in 1..(Len(b) + 1) /\ Len(b) - 1 \in 0..Len(b)
    BY <1>4
  <2>2. d \in Seq(Entry) /\ Distinct(d) /\ \A i \in 1..Len(d) : \E j \in 1..Len(b) : d[i] = b[j]
    BY <2>1, DistinctPart
  <2> HIDE DEF d
  <2>3. OfTurn(m, d) /\ \A i \in 1..Len(d) : d[i] # Final(m)
    BY <2>2 DEF OfTurn
  <2>4. c = Append(d, Final(m))
    BY <1>4 DEF d
  <2> QED BY <1>1, <2>2, <2>3, <2>4, OneMore
<1> QED BY <1>2, <1>3, <1>4 DEF AppendFinal, TypeOK

\* Turn m goes on, or is given up, with messages b and checkpoint c.
LEMMA GoOnOnce ==
  ASSUME SharedLocks, IInv, OnceInv, NEW m \in M, pc[m] \in {"begin", "model", "tools"},
         NEW v, v \in {"model", "tools", "done"}, NEW n, NEW b, NEW c,
         OfTurn(m, b), Distinct(b), UpTo(m, b, n, v), OfTurn(m, c), Distinct(c),
         pc' = [pc EXCEPT ![m] = v], buf' = [buf EXCEPT ![m] = b], iter' = [iter EXCEPT ![m] = n],
         hist' = hist, ckpt' = ckpt \/ ckpt' = [ckpt EXCEPT ![Session(m)] = c]
  PROVE  OnceInv'
<1>0. TypeOK
  BY DEF IInv
<1>1. /\ pc'[m] = v /\ buf'[m] = b /\ iter'[m] = n
      /\ \A k \in M : k # m => pc'[k] = pc[k] /\ buf'[k] = buf[k] /\ iter'[k] = iter[k]
  BY <1>0 DEF TypeOK
<1>2. \A s \in Sessions : \A i \in 1..Len(hist[s]) : hist[s][i].turn \in M /\ hist[s][i].turn # m
  <2> SUFFICES ASSUME NEW s \in Sessions, NEW i \in 1..Len(hist[s])
               PROVE  hist[s][i].turn \in M /\ hist[s][i].turn # m
    OBVIOUS
  <2>1. hist[s][i] \in Entry
    BY <1>0 DEF TypeOK
  <2> QED BY <2>1 DEF Entry, OnceInv, DeadInHistory
<1>3. DeadInHistory'
  BY <1>1, <1>2 DEF OnceInv, DeadInHistory
<1>4. OwnMessages'
  BY <1>1 DEF OnceInv, OwnMessages, OfTurn, Distinct, UpTo
<1>5. ASSUME NEW s \in Sessions
      PROVE  /\ Distinct(ckpt'[s])
             /\ \A i \in 1..Len(ckpt'[s]) :
                  /\ SessionOf[ckpt'[s][i].turn] = s
                  /\ pc'[ckpt'[s][i].turn] \in {"begin", "model", "tools", "done"}
                  /\ \A j \in 1..Len(hist[s]) : hist[s][j].turn # ckpt'[s][i].turn
  <2>1. CASE ckpt'[s] = ckpt[s]
    <3>1. Distinct(ckpt'[s])
      BY <2>1 DEF OnceInv, AllDistinct
    <3>2. ASSUME NEW i \in 1..Len(ckpt[s])
          PROVE  /\ SessionOf[ckpt[s][i].turn] = s
                 /\ pc'[ckpt[s][i].turn] \in {"begin", "model", "tools", "done"}
                 /\ \A j \in 1..Len(hist[s]) : hist[s][j].turn # ckpt[s][i].turn
      <4>1. ckpt[s][i].turn \in M
        <5>1. ckpt[s][i] \in Entry
          BY <1>0 DEF TypeOK
        <5> QED BY <5>1 DEF Entry
      <4> QED BY <1>1, <4>1 DEF OnceInv, NewInCheckpoint
    <3> QED BY <2>1, <3>1, <3>2
  <2>2. CASE ckpt'[s] = c /\ s = Session(m)
    <3>1. SessionOf[m] = s
      BY <2>2, SessionStays
    <3> QED BY <1>1, <1>2, <2>2, <3>1 DEF OfTurn
  <2>3. ckpt'[s] = ckpt[s] \/ (ckpt'[s] = c /\ s = Session(m))
    BY <1>0 DEF TypeOK
  <2> QED BY <2>1, <2>2, <2>3
<1>6. NewInCheckpoint'
  <2> SUFFICES ASSUME NEW s \in Sessions, NEW i \in 1..Len(ckpt'[s])
               PROVE  /\ SessionOf[ckpt'[s][i].turn] = s
                      /\ pc'[ckpt'[s][i].turn] \in {"begin", "model", "tools", "done"}
                      /\ \A j \in 1..Len(hist[s]) : hist[s][j].turn # ckpt'[s][i].turn
    BY DEF NewInCheckpoint
  <2> QED BY <1>5
<1>7. \A s \in Sessions : Distinct(hist'[s])
  BY DEF OnceInv, AllDistinct
<1>8. AllDistinct'
  BY <1>5, <1>7 DEF AllDistinct
<1> QED BY <1>3, <1>4, <1>6, <1>8 DEF OnceInv

\* Dead turns' entries t are appended to the history of a session, whose
\* checkpoint is cleared.
LEMMA RecordOnce ==
  ASSUME SharedLocks, IInv, OnceInv, NEW s0 \in Sessions,
         NEW t \in Seq(Entry), Distinct(t),
         \A i \in 1..Len(hist[s0]), j \in 1..Len(t) : hist[s0][i].turn # t[j].turn,
         \A j \in 1..Len(t) : pc'[t[j].turn] = "done",
         \A n \in M : pc[n] \in {"begin", "model", "tools", "done"} => pc'[n] \in {"begin", "model", "tools", "done"},
         \A n \in M : pc[n] = "done" => pc'[n] = "done",
         hist' = [hist EXCEPT ![s0] = @ \o t],
         ckpt' = [ckpt EXCEPT ![s0] = <<>>],
         OwnMessages'
  PROVE  OnceInv'
<1>0. TypeOK
  BY DEF IInv
<1>1. /\ hist[s0] \in Seq(Entry) /\ hist'[s0] = hist[s0] \o t /\ ckpt'[s0] = <<>>
      /\ \A s \in Sessions : s # s0 => hist'[s] = hist[s] /\ ckpt'[s] = ckpt[s]
      /\ \A s \in Sessions : \A i \in 1..Len(hist[s]) : hist[s][i].turn \in M
      /\ \A s \in Sessions : \A i \in 1..Len(ckpt[s]) : ckpt[s][i].turn \in M
  <2>1. \A s \in Sessions : hist[s] \in Seq(Entry) /\ ckpt[s] \in Seq(Entry)
    BY <1>0 DEF TypeOK
  <2>2. ASSUME NEW q \in Seq(Entry), NEW i \in 1..Len(q) PROVE q[i].turn \in M
    <3>1. q[i] \in Entry
      OBVIOUS
    <3> QED BY <3>1 DEF Entry
  <2> QED BY <1>0, <2>1, <2>2 DEF TypeOK
<1>2. Distinct(hist'[s0])
  <2>1. Distinct(hist[s0])
    BY DEF OnceInv, AllDistinct
  <2>2. \A i \in 1..Len(hist[s0]), j \in 1..Len(t) : hist[s0][i] # t[j]
    OBVIOUS
  <2> QED BY <1>1, <2>1, <2>2, DistinctConcat
<1>3. \A i \in 1..Len(hist'[s0]) : pc'[hist'[s0][i].turn] = "done"
  <2>1. ASSUME NEW i \in 1..Len(hist[s0] \o t)
        PROVE  \/ \E j \in 1..Len(hist[s0]) : (hist[s0] \o t)[i] = hist[s0][j]
               \/ \E j \in 1..Len(t) : (hist[s0] \o t)[i] = t[j]
    <3>1. /\ Len(hist[s0] \o t) = Len(hist[s0]) + Len(t) /\ Len(hist[s0]) \in Nat /\ Len(t) \in Nat
          /\ \A k \in 1..Len(hist[s0]) : (hist[s0] \o t)[k] = hist[s0][k]
          /\ \A k \in 1..Len(t) : (hist[s0] \o t)[Len(hist[s0]) + k] = t[k]
      BY <1>1
    <3>2. CASE i \in 1..Len(hist[s0])
      BY <3>1, <3>2
    <3>3. CASE i \notin 1..Len(hist[s0])
      <4>1. i - Len(hist[s0]) \in 1..Len(t) /\ Len(hist[s0]) + (i - Len(hist[s0])) = i
        BY <3>1, <3>3
      <4> QED BY <3>1, <4>1
    <3> QED BY <3>2, <3>3
  <2>2. \A j \in 1..Len(hist[s0]) : pc'[hist[s0][j].turn] = "done"
    BY <1>1 DEF OnceInv, DeadInHistory
  <2> QED BY <1>1, <2>1, <2>2
<1>4. DeadInHistory'
  BY <1>1, <1>3 DEF OnceInv, DeadInHistory
<1>5. AllDistinct'
  <2>1. Distinct(<<>>)
    BY DEF Distinct
  <2>2. \A s \in Sessions : Distinct(hist'[s]) /\ Distinct(ckpt'[s])
    BY <1>1, <1>2, <2>1 DEF OnceInv, AllDistinct
  <2> QED BY <2>2 DEF AllDistinct, Distinct
<1>6. NewInCheckpoint'
  <2> SUFFICES ASSUME NEW s \in Sessions, NEW i \in 1..Len(ckpt'[s])
               PROVE  /\ SessionOf[ckpt'[s][i].turn] = s
                      /\ pc'[ckpt'[s][i].turn] \in {"begin", "model", "tools", "done"}
                      /\ \A j \in 1..Len(hist'[s]) : hist'[s][j].turn # ckpt'[s][i].turn
    BY DEF NewInCheckpoint
  <2>1. s # s0
    BY <1>1
  <2>2. ckpt'[s] = ckpt[s] /\ hist'[s] = hist[s] /\ ckpt[s][i].turn \in M
    BY <1>1, <2>1
  <2>3. /\ SessionOf[ckpt[s][i].turn] = s
        /\ pc[ckpt[s][i].turn] \in {"begin", "model", "tools", "done"}
        /\ \A j \in 1..Len(hist[s]) : hist[s][j].turn # ckpt[s][i].turn
    BY <2>2 DEF OnceInv, NewInCheckpoint
  <2>4. pc'[ckpt[s][i].turn] \in {"begin", "model", "tools", "done"}
    BY <2>2, <2>3
  <2> QED BY <2>2, <2>3, <2>4
<1> QED BY <1>4, <1>5, <1>6 DEF OnceInv

\* The end of a turn records it, once.
LEMMA FinishOnce ==
  ASSUME SharedLocks, IInv, OnceInv, NEW m \in M, pc[m] \in {"begin", "model", "tools"},
         NEW b \in Seq(Entry), OfTurn(m, b), Distinct(b), NEW reason, Finish(m, b, reason)
  PROVE  OnceInv'
<1>0. TypeOK /\ Session(m) \in Sessions
  BY KeyType DEF IInv
<1>1. /\ pc' = [pc EXCEPT ![m] = "done"] /\ buf' = [buf EXCEPT ![m] = <<>>]
      /\ iter' = [iter EXCEPT ![m] = 0]
      /\ hist' = [hist EXCEPT ![Session(m)] = @ \o b]
      /\ ckpt' = [ckpt EXCEPT ![Session(m)] = <<>>]
  BY DEF Finish, Release, ClearCheckpoint
<1>2. /\ pc'[m] = "done" /\ buf'[m] = <<>>
      /\ \A k \in M : k # m => pc'[k] = pc[k] /\ buf'[k] = buf[k] /\ iter'[k] = iter[k]
  BY <1>0, <1>1 DEF TypeOK
<1>3. OwnMessages'
  BY <1>2 DEF OnceInv, OwnMessages, OfTurn, Distinct, UpTo
<1>4. \A i \in 1..Len(hist[Session(m)]) : hist[Session(m)][i].turn # m
  BY <1>0 DEF OnceInv, DeadInHistory
<1>5. /\ \A i \in 1..Len(hist[Session(m)]), j \in 1..Len(b) : hist[Session(m)][i].turn # b[j].turn
      /\ \A j \in 1..Len(b) : pc'[b[j].turn] = "done"
  BY <1>2, <1>4 DEF OfTurn
<1>6. /\ \A n \in M : pc[n] \in {"begin", "model", "tools", "done"} => pc'[n] \in {"begin", "model", "tools", "done"}
      /\ \A n \in M : pc[n] = "done" => pc'[n] = "done"
  BY <1>2
<1> DEFINE s0 == Session(m)
<1>7. /\ s0 \in Sessions
      /\ hist' = [hist EXCEPT ![s0] = @ \o b] /\ ckpt' = [ckpt EXCEPT ![s0] = <<>>]
      /\ \A i \in 1..Len(hist[s0]), j \in 1..Len(b) : hist[s0][i].turn # b[j].turn
  BY <1>0, <1>1, <1>5
<1> HIDE DEF s0
<1> QED BY <1>3, <1>5, <1>6, <1>7, RecordOnce

\* A turn that holds the lock of its session finds what a dead turn has left there.
LEMMA PassGateOnce ==
  ASSUME SharedLocks, IInv, OnceInv, NEW m \in M, PassGate(m)
  PROVE  OnceInv'
<1>0. TypeOK /\ Session(m) \in Sessions
  BY KeyType DEF IInv
<1> DEFINE s0 == Session(m)
           h == hist[s0]
           r == ckpt[s0]
           k == Overlap(h, r)
           t == SubSeq(r, k + 1, Len(r))
<1>1. h \in Seq(Entry) /\ r \in Seq(Entry) /\ Distinct(r) /\ Len(r) \in 0..Len(r)
  BY <1>0 DEF OnceInv, AllDistinct, TypeOK
<1>2. k + 1 \in 1..(Len(r) + 1)
  <2>1. k \in 0..Len(r)
    BY <1>1, OverlapType
  <2> HIDE DEF k
  <2> QED BY <1>1, <2>1
<1>3. t \in Seq(Entry) /\ Distinct(t) /\ \A i \in 1..Len(t) : \E j \in 1..Len(r) : t[i] = r[j]
  <2> HIDE DEF k, r
  <2> QED BY <1>1, <1>2, DistinctPart
<1>4. /\ pc' = [pc EXCEPT ![m] = "begin"] /\ pc[m] = "gate"
      /\ hist' = [hist EXCEPT ![s0] = @ \o t]
      /\ ckpt' = [ckpt EXCEPT ![s0] = <<>>]
      /\ UNCHANGED <<buf, iter>>
  BY <1>0 DEF PassGate, Restored, turnVars
<1> HIDE DEF t
<1>5. ASSUME NEW j \in 1..Len(r) PROVE pc[r[j].turn] = "done" /\ r[j].turn \in M
  <2> DEFINE n == r[j].turn
  <2>1. n \in M
    <3>1. r[j] \in Entry
      BY <1>1
    <3> QED BY <3>1 DEF Entry
  <2>2. SessionOf[n] = s0 /\ pc[n] \in {"begin", "model", "tools", "done"}
    BY <1>0 DEF OnceInv, NewInCheckpoint
  <2> HIDE DEF n
  <2>3. Session(n) = SessionOf[n] /\ Session(m) = SessionOf[m] /\ n \in Users /\ m \in Users
    BY <2>1, SessionStays
  <2>4. Key(n) = Key(m)
    BY <2>2, <2>3 DEF SharedLocks, Key
  <2>5. Holding(n) => Head(lockQ[Key(n)]) = n
    BY <2>1 DEF IInv, LockInv
  <2>6. Head(lockQ[Key(m)]) = m
    BY <1>4 DEF IInv, LockInv, Holding
  <2>7. pc[n] = "done"
    BY <1>4, <2>2, <2>4, <2>5, <2>6 DEF Holding
  <2> QED BY <2>1, <2>7 DEF n
<1>6. \A j \in 1..Len(t) : pc[t[j].turn] = "done" /\ t[j].turn \in M
  BY <1>3, <1>5
<1>7. \A n \in M : n # m => pc'[n] = pc[n]
  BY <1>0, <1>4 DEF TypeOK
<1>8. \A j \in 1..Len(t) : pc'[t[j].turn] = "done"
  BY <1>4, <1>6, <1>7
<1>9. \A i \in 1..Len(h), j \in 1..Len(t) : h[i].turn # t[j].turn
  <2>1. \A i \in 1..Len(h), j \in 1..Len(r) : h[i].turn # r[j].turn
    BY <1>0 DEF OnceInv, NewInCheckpoint
  <2> HIDE DEF h, r
  <2> QED BY <1>3, <2>1
<1>10. /\ \A n \in M : pc[n] \in {"begin", "model", "tools", "done"} => pc'[n] \in {"begin", "model", "tools", "done"}
       /\ \A n \in M : pc[n] = "done" => pc'[n] = "done"
  BY <1>4, <1>7
<1>11. OwnMessages'
  <2>1. \A n \in M : pc'[n] = "tools" <=> pc[n] = "tools"
    BY <1>0, <1>4 DEF TypeOK
  <2> QED BY <1>4, <2>1 DEF OnceInv, OwnMessages, OfTurn, Distinct, UpTo
<1> QED BY <1>0, <1>3, <1>4, <1>8, <1>9, <1>10, <1>11, RecordOnce

\* What is injected is of the turn, of its iteration, and one entry at most.
LEMMA InjectedOnce ==
  ASSUME NEW m \in M, NEW it \in Nat
  PROVE  /\ Injected(m, it) \in Seq(Entry) /\ OfTurn(m, Injected(m, it)) /\ Distinct(Injected(m, it))
         /\ \A i \in 1..Len(Injected(m, it)) : Injected(m, it)[i].it = it /\ Injected(m, it)[i].is = "injected"
<1>1. Injected(m, it) \in Seq(Entry)
  BY InputType
<1> QED BY <1>1 DEF Injected, OfTurn, Distinct

\* Two parts of a turn's messages.
LEMMA TwoParts ==
  ASSUME NEW m \in M, NEW h \in Seq(Entry), NEW t \in Seq(Entry),
         OfTurn(m, h), OfTurn(m, t), NEW n, NEW p, UpTo(m, h, n, p), UpTo(m, t, n, p)
  PROVE  OfTurn(m, h \o t) /\ UpTo(m, h \o t, n, p)
<1>1. /\ Len(h \o t) = Len(h) + Len(t) /\ Len(h) \in Nat /\ Len(t) \in Nat
      /\ \A i \in 1..Len(h) : (h \o t)[i] = h[i]
      /\ \A i \in 1..Len(t) : (h \o t)[Len(h) + i] = t[i]
  OBVIOUS
<1>2. ASSUME NEW i \in 1..Len(h \o t)
      PROVE  \/ \E j \in 1..Len(h) : (h \o t)[i] = h[j]
             \/ \E j \in 1..Len(t) : (h \o t)[i] = t[j]
  <2>1. CASE i \in 1..Len(h)
    BY <1>1, <2>1
  <2>2. CASE i \notin 1..Len(h)
    <3>1. i - Len(h) \in 1..Len(t) /\ Len(h) + (i - Len(h)) = i
      BY <1>1, <2>2
    <3> QED BY <1>1, <3>1
  <2> QED BY <2>1, <2>2
<1> QED BY <1>2 DEF OfTurn, UpTo

\* The next iteration begins with messages of this one that are no final message.
LEMMA ContinueOnce ==
  ASSUME SharedLocks, IInv, OnceInv, NEW m \in M, pc[m] \in {"begin", "model", "tools"},
         NEW b \in Seq(Entry), OfTurn(m, b), Distinct(b),
         \A i \in 1..Len(b) : b[i].it <= iter[m] /\ b[i] # Final(m),
         NEW c, (OfTurn(m, c) /\ Distinct(c)) \/ c = ckpt[Session(m)],
         NEW feedback \in BOOLEAN, Continue(m, b, feedback, c)
  PROVE  OnceInv'
<1>0. TypeOK /\ iter[m] \in Nat /\ iter[m] + 1 \in Nat /\ Session(m) \in Sessions
  <2>1. TypeOK /\ Session(m) \in Sessions
    BY KeyType DEF IInv
  <2>2. iter \in [M -> 0..(MaxIter - 1)] /\ MaxIter \in Nat
    BY <2>1, BoundAssumption DEF TypeOK
  <2>3. iter[m] \in Nat
    BY <2>2
  <2> QED BY <2>1, <2>3
<1>1. CASE IterationsLeft(m)
  <2> DEFINE n == iter[m] + 1
             j == Injected(m, n)
             d == b \o j
  <2>1. /\ j \in Seq(Entry) /\ OfTurn(m, j) /\ Distinct(j)
        /\ \A i \in 1..Len(j) : j[i].it = n /\ j[i].is = "injected"
    BY <1>0, InjectedOnce
  <2>2. UpTo(m, b, n, "model")
    <3>1. ASSUME NEW i \in 1..Len(b) PROVE b[i].it <= n /\ b[i].it # n
      <4>1. b[i].it \in Nat
        <5>1. b[i] \in Entry
          OBVIOUS
        <5> QED BY <5>1 DEF Entry
      <4> QED BY <1>0, <4>1
    <3> QED BY <3>1 DEF UpTo
  <2>3. UpTo(m, j, n, "model")
    <3> HIDE DEF j
    <3> QED BY <1>0, <2>1 DEF UpTo
  <2>4. \A i \in 1..Len(b), k \in 1..Len(j) : b[i] # j[k]
    <3> HIDE DEF j
    <3> QED BY <1>0, <2>1
  <2>5. OfTurn(m, d) /\ UpTo(m, d, n, "model") /\ Distinct(d)
    <3> HIDE DEF j, n
    <3> QED BY <2>1, <2>2, <2>3, <2>4, TwoParts, DistinctConcat
  <2>6. /\ pc' = [pc EXCEPT ![m] = "model"] /\ buf' = [buf EXCEPT ![m] = d]
        /\ iter' = [iter EXCEPT ![m] = n] /\ hist' = hist
        /\ ckpt' = [ckpt EXCEPT ![Session(m)] = c]
    BY <1>1 DEF Continue
  <2>7. \E e : OfTurn(m, e) /\ Distinct(e) /\ (ckpt' = ckpt \/ ckpt' = [ckpt EXCEPT ![Session(m)] = e])
    <3>1. CASE OfTurn(m, c) /\ Distinct(c)
      BY <2>6, <3>1
    <3>2. CASE c = ckpt[Session(m)]
      <4>1. ckpt' = ckpt
        BY <1>0, <2>6, <3>2 DEF TypeOK
      <4>2. OfTurn(m, <<>>) /\ Distinct(<<>>)
        BY DEF OfTurn, Distinct
      <4> QED BY <4>1, <4>2
    <3> QED BY <3>1, <3>2
  <2> HIDE DEF d, n
  <2> QED BY <2>5, <2>6, <2>7, GoOnOnce
<1>2. CASE ~IterationsLeft(m)
  <2> DEFINE d == IF feedback THEN Append(b, Final(m)) ELSE AppendFinal(m, b)
  <2>1. Finish(m, d, "max_iterations")
    BY <1>2 DEF Continue
  <2>2. d = AppendFinal(m, b) \/ d = Append(b, Final(m))
    OBVIOUS
  <2> HIDE DEF d
  <2>3. d \in Seq(Entry) /\ OfTurn(m, d) /\ Distinct(d)
    BY <1>0, <2>2, FinalOnce
  <2> QED BY <2>1, <2>3, FinishOnce
<1> QED BY <1>1, <1>2

\* A turn begins with nothing of its own in history or checkpoint.
LEMMA BeginOnce ==
  ASSUME SharedLocks, IInv, OnceInv, NEW m \in M, Begin(m)
  PROVE  OnceInv'
<1>0. TypeOK /\ iter[m] \in Nat
  BY DEF IInv, TypeOK
<1> DEFINE a == Input(m, hist[Session(m)])
           j == Injected(m, 0)
           d == a \o j
<1>1. /\ j \in Seq(Entry) /\ OfTurn(m, j) /\ Distinct(j)
      /\ \A i \in 1..Len(j) : j[i].it = 0 /\ j[i].is = "injected"
  <2>1. 0 \in Nat
    OBVIOUS
  <2> QED BY <2>1, InjectedOnce
<1>2. /\ a \in Seq(Entry) /\ OfTurn(m, a) /\ Distinct(a)
      /\ \A i \in 1..Len(a) : a[i].it = 0 /\ a[i].is = "input"
  <2>1. a \in Seq(Entry)
    <3>1. 0 \in Nat
      OBVIOUS
    <3> QED BY <3>1, InputType
  <2> QED BY <2>1 DEF Input, OfTurn, Distinct
<1>3. /\ pc' = [pc EXCEPT ![m] = "model"] /\ buf' = [buf EXCEPT ![m] = d] /\ pc[m] = "begin"
      /\ UNCHANGED <<hist, ckpt, iter>>
  BY DEF Begin, sessionVars
<1>4. OfTurn(m, d) /\ UpTo(m, d, iter[m], "model") /\ Distinct(d)
  <2> HIDE DEF a, j
  <2>1. UpTo(m, a, iter[m], "model") /\ UpTo(m, j, iter[m], "model")
    BY <1>0, <1>1, <1>2 DEF UpTo
  <2> QED BY <1>1, <1>2, <2>1, TwoParts, DistinctConcat
<1>5. iter' = [iter EXCEPT ![m] = iter[m]]
  BY <1>0, <1>3 DEF TypeOK
<1>6. OfTurn(m, <<>>) /\ Distinct(<<>>)
  BY DEF OfTurn, Distinct
<1> HIDE DEF d
<1> QED BY <1>3, <1>4, <1>5, <1>6, GoOnOnce

\* What a checkpoint holds of a turn.
LEMMA BatchOnce ==
  ASSUME NEW m \in M
  PROVE  /\ OfTurn(m, AwaitingTools(m)) /\ Distinct(AwaitingTools(m))
         /\ OfTurn(m, ToolsCompleted(m)) /\ Distinct(ToolsCompleted(m))
         /\ OfTurn(m, <<Final(m)>>) /\ Distinct(<<Final(m)>>)
         /\ OfTurn(m, <<>>) /\ Distinct(<<>>)
<1>1. \A e, f : e.turn = m /\ f.turn = m /\ e # f => OfTurn(m, <<e, f>>) /\ Distinct(<<e, f>>)
  <2> SUFFICES ASSUME NEW e, NEW f, e.turn = m, f.turn = m, e # f
               PROVE  OfTurn(m, <<e, f>>) /\ Distinct(<<e, f>>)
    OBVIOUS
  <2>1. \A i \in 1..2 : i = 1 \/ i = 2
    OBVIOUS
  <2> QED BY <2>1 DEF OfTurn, Distinct
<1>2. \A e : e.turn = m => OfTurn(m, <<e>>) /\ Distinct(<<e>>)
  BY DEF OfTurn, Distinct
<1>3. /\ Calls(m).turn = m /\ Results(m).turn = m /\ Interrupted(m).turn = m /\ Final(m).turn = m
      /\ Calls(m) # Results(m) /\ Calls(m) # Interrupted(m)
  BY DEF Calls, Results, Interrupted, Final
<1> QED BY <1>1, <1>2, <1>3 DEF AwaitingTools, ToolsCompleted, OfTurn, Distinct

\* What the model replies, the end of a batch, and exceptions.
LEMMA RepliesOnce ==
  ASSUME SharedLocks, IInv, OnceInv, NEW m \in M,
         ModelReplies(m) \/ ToolsDone(m) \/ Raise(m) \/ RaiseInSave(m)
  PROVE  OnceInv'
<1>0. TypeOK /\ Session(m) \in Sessions
  BY KeyType DEF IInv
<1>1. /\ pc[m] \in {"begin", "model", "tools"}
  BY DEF ModelReplies, ReplyTools, ReplyMalformed, ReplyFinal, ReplyEnd, ToolsDone, Raise, RaiseInSave
<1>2. /\ buf[m] \in Seq(Entry) /\ OfTurn(m, buf[m]) /\ Distinct(buf[m])
      /\ UpTo(m, buf[m], iter[m], pc[m]) /\ iter[m] \in Nat
  BY <1>0 DEF OnceInv, OwnMessages, TypeOK
<1>3. \A i \in 1..Len(buf[m]) : /\ buf[m][i] # Final(m) /\ buf[m][i] # Results(m)
                                /\ pc[m] = "model" => buf[m][i] # Calls(m)
  BY <1>2 DEF UpTo, Final, Results, Calls
<1>4. \A i \in 1..Len(buf[m]) : buf[m][i].it <= iter[m]
  BY <1>2 DEF UpTo
<1>e. /\ Calls(m) \in Entry /\ Results(m) \in Entry
      /\ Calls(m).turn = m /\ Calls(m).it = iter[m] /\ Calls(m).is = "calls"
      /\ Results(m).turn = m /\ Results(m).it = iter[m] /\ Results(m).is = "results"
  BY <1>0, EntryType DEF Calls, Results
<1>5. ASSUME NEW b \in Batches, ReplyTools(m, b) PROVE OnceInv'
  <2> DEFINE d == Append(buf[m], Calls(m))
  <2>1. /\ pc' = [pc EXCEPT ![m] = "tools"] /\ buf' = [buf EXCEPT ![m] = d]
        /\ hist' = hist /\ ckpt' = [ckpt EXCEPT ![Session(m)] = AwaitingTools(m)]
        /\ iter' = iter /\ pc[m] = "model"
    BY <1>5 DEF ReplyTools
  <2>2. iter' = [iter EXCEPT ![m] = iter[m]]
    BY <1>0, <2>1 DEF TypeOK
  <2>3. OfTurn(m, d) /\ Distinct(d)
    BY <1>2, <1>3, <1>e, <2>1, OneMore
  <2>4. UpTo(m, d, iter[m], "tools")
    <3>1. /\ Len(d) = Len(buf[m]) + 1 /\ d[Len(buf[m]) + 1] = Calls(m) /\ Len(buf[m]) \in Nat
          /\ \A i \in 1..Len(buf[m]) : d[i] = buf[m][i]
      BY <1>2
    <3>2. \A i \in 1..(Len(buf[m]) + 1) : i # Len(buf[m]) + 1 => i \in 1..Len(buf[m])
      BY <3>1
    <3> HIDE DEF d
    <3> QED BY <1>2, <1>e, <2>1, <3>1, <3>2 DEF UpTo
  <2> HIDE DEF d
  <2> QED BY <1>1, <2>1, <2>2, <2>3, <2>4, BatchOnce, GoOnOnce
<1>6. ASSUME NEW c, c = AppendFinal(m, buf[m]) \/ c = Append(buf[m], Final(m)),
             NEW reason, Finish(m, c, reason)
      PROVE  OnceInv'
  BY <1>0, <1>1, <1>2, <1>3, <1>6, FinalOnce, FinishOnce
<1>7. CASE ReplyMalformed(m)
  <2>1. Continue(m, buf[m], TRUE, ckpt[Session(m)]) => OnceInv'
    BY <1>1, <1>2, <1>3, <1>4, ContinueOnce
  <2> QED BY <1>6, <1>7, <2>1 DEF ReplyMalformed
<1>8. CASE ReplyFinal(m)
  BY <1>6, <1>8 DEF ReplyFinal
<1>9. ASSUME NEW reason \in Reasons, ReplyEnd(m, reason) PROVE OnceInv'
  BY <1>6, <1>9 DEF ReplyEnd
<1>10. CASE ToolsDone(m)
  <2> DEFINE d == Append(buf[m], Results(m))
  <2>1. d \in Seq(Entry) /\ OfTurn(m, d) /\ Distinct(d)
    BY <1>2, <1>3, <1>e, OneMore
  <2>2. \A i \in 1..Len(d) : d[i].it <= iter[m] /\ d[i] # Final(m)
    <3>1. /\ Len(d) = Len(buf[m]) + 1 /\ d[Len(buf[m]) + 1] = Results(m) /\ Len(buf[m]) \in Nat
          /\ \A i \in 1..Len(buf[m]) : d[i] = buf[m][i]
      BY <1>2
    <3>2. \A i \in 1..(Len(buf[m]) + 1) : i # Len(buf[m]) + 1 => i \in 1..Len(buf[m])
      BY <3>1
    <3>3. Results(m) # Final(m)
      BY DEF Results, Final
    <3> HIDE DEF d
    <3> QED BY <1>2, <1>3, <1>4, <1>e, <3>1, <3>2, <3>3
  <2>3. Continue(m, d, FALSE, ToolsCompleted(m))
    BY <1>10 DEF ToolsDone
  <2> HIDE DEF d
  <2> QED BY <1>1, <2>1, <2>2, <2>3, BatchOnce, ContinueOnce
<1>11. CASE Raise(m) \/ RaiseInSave(m)
  <2>1. PICK c : Abort(m, c) /\ ((OfTurn(m, c) /\ Distinct(c)) \/ c = ckpt[Session(m)])
    BY <1>11, BatchOnce DEF Raise, RaiseInSave
  <2>2. /\ pc' = [pc EXCEPT ![m] = "done"] /\ buf' = [buf EXCEPT ![m] = <<>>]
        /\ iter' = [iter EXCEPT ![m] = 0] /\ hist' = hist
        /\ ckpt' = [ckpt EXCEPT ![Session(m)] = c]
    BY <2>1 DEF Abort, Release
  <2>3. \E e : OfTurn(m, e) /\ Distinct(e) /\ (ckpt' = ckpt \/ ckpt' = [ckpt EXCEPT ![Session(m)] = e])
    <3>1. CASE OfTurn(m, c) /\ Distinct(c)
      BY <2>2, <3>1
    <3>2. CASE c = ckpt[Session(m)]
      <4>1. ckpt' = ckpt
        BY <1>0, <2>2, <3>2 DEF TypeOK
      <4> QED BY <4>1, BatchOnce
    <3> QED BY <2>1, <3>1, <3>2
  <2>4. UpTo(m, <<>>, 0, "done")
    BY DEF UpTo
  <2> QED BY <1>1, <2>2, <2>3, <2>4, BatchOnce, GoOnOnce
<1> QED BY <1>5, <1>7, <1>8, <1>9, <1>10, <1>11 DEF ModelReplies

\* Nobody's messages, history or checkpoint change.
LEMMA QuietOnce ==
  ASSUME SharedLocks, IInv, OnceInv, UNCHANGED <<hist, ckpt, buf, iter>>,
         \/ UNCHANGED pc
         \/ \E m : \E v \in {"inbound", "lock", "gate"} :
              /\ pc[m] \in {"new", "inbound", "lock"} /\ pc' = [pc EXCEPT ![m] = v]
  PROVE  OnceInv'
<1>1. \A m \in M : /\ pc'[m] = "done" <=> pc[m] = "done"
                   /\ pc'[m] = "tools" <=> pc[m] = "tools"
                   /\ pc'[m] \in {"begin", "model"} <=> pc[m] \in {"begin", "model"}
  BY DEF IInv, TypeOK
<1>2. ASSUME NEW q \in Seq(Entry), NEW i \in 1..Len(q) PROVE q[i].turn \in M
  <2>1. q[i] \in Entry
    OBVIOUS
  <2> QED BY <2>1 DEF Entry
<1>3. \A s \in Sessions : hist[s] \in Seq(Entry) /\ ckpt[s] \in Seq(Entry)
  BY DEF IInv, TypeOK
<1>4. DeadInHistory'
  BY <1>1, <1>2, <1>3 DEF OnceInv, DeadInHistory
<1>5. NewInCheckpoint'
  BY <1>1, <1>2, <1>3 DEF OnceInv, NewInCheckpoint
<1>6. AllDistinct'
  BY DEF OnceInv, AllDistinct, Distinct
<1>7. OwnMessages'
  BY <1>1 DEF OnceInv, OwnMessages, OfTurn, Distinct, UpTo
<1> QED BY <1>4, <1>5, <1>6, <1>7 DEF OnceInv

\* Every step of turns that share locks.
LEMMA NextOnce ==
  ASSUME SharedLocks
  PROVE  IInv /\ OnceInv /\ [Next]_vars => OnceInv'
<1> SUFFICES ASSUME IInv, OnceInv, [Next]_vars PROVE OnceInv'
  OBVIOUS
<1>0. TypeOK
  BY DEF IInv
<1> DEFINE Rest ==
      \/ \E m \in M : \/ AcquireLock(m) \/ Exec(m) \/ SendMessage(m) \/ (\E x \in Subs : Spawn(m, x))
                      \/ YieldPoll(m) \/ YieldTimesOut(m)
      \/ \E x \in Subs : Announce(x) \/ Cleanup(x)
      \/ \E u \in Users : Publish(u)
      \/ Dispatch \/ PollTimesOut \/ Stop \/ UNCHANGED vars
<1>1. CASE Rest
  <2>1. /\ UNCHANGED <<hist, ckpt, buf, iter>>
        /\ \/ UNCHANGED pc
           \/ \E m : \E v \in {"inbound", "lock", "gate"} :
                /\ pc[m] \in {"new", "inbound", "lock"} /\ pc' = [pc EXCEPT ![m] = v]
    BY <1>0, <1>1, StepsInPlace, QuietSteps
  <2> QED BY <2>1, QuietOnce
<1>2. CASE \E m \in M : \/ PassGate(m) \/ Begin(m) \/ ModelReplies(m) \/ ToolsDone(m)
                        \/ Raise(m) \/ RaiseInSave(m)
  BY <1>2, PassGateOnce, BeginOnce, RepliesOnce
<1> QED BY <1>1, <1>2 DEF Next, LoopStep, TurnStep, ToolStep

\* At first there is nothing.
LEMMA InitOnce == Init => OnceInv
BY DEF Init, OnceInv, DeadInHistory, NewInCheckpoint, AllDistinct, OwnMessages,
       OfTurn, Distinct, UpTo

\* Turns that share the lock of their session record no part of a turn twice, be
\* it saved at its end or restored after its death, wherever it died.
THEOREM NothingTwice ==
  ASSUME SharedLocks
  PROVE  Spec => []NoDuplicates
<1>1. OnceInv => NoDuplicates
  BY DEF OnceInv, AllDistinct, Distinct, NoDuplicates
<1>2. IInv /\ OnceInv /\ [Next]_vars => OnceInv'
  BY NextOnce
<1> QED BY <1>1, <1>2, InitOnce, InvariantHolds, PTL DEF Spec

\* ... and what they take for interrupted is.
THEOREM OnlyTheDeadInterrupted ==
  ASSUME SharedLocks
  PROVE  Spec => []OnlyDeadTurnsInterrupted
<1>1. OnceInv => OnlyDeadTurnsInterrupted
  BY DEF OnceInv, DeadInHistory, OnlyDeadTurnsInterrupted
<1>2. IInv /\ OnceInv /\ [Next]_vars => OnceInv'
  BY NextOnce
<1> QED BY <1>1, <1>2, InitOnce, InvariantHolds, PTL DEF Spec

-----------------------------------------------------------------------------
(* No turn is left without a word.                                          *)

\* All messages are dispatched under one key, so turns do not overlap.
OneLock ==
  /\ Subs = {}
  /\ \A u, v \in Users : SessionOf[u] = SessionOf[v] /\ (u \in Overridden <=> v \in Overridden)

Told(u) == \E i \in 1..Len(outbound) : outbound[i].msg = u /\ outbound[i].is # "empty"

\* The message tool's flag speaks of the turn under way, and who is done was told.
SentInv ==
  \A u \in Users :
    /\ pc[u] \in {"model", "tools"} /\ sentInTurn /\ u \notin Overridden => Told(u)
    /\ pc[u] = "done" => Told(u)

\* One turn holds the lock.
LEMMA SoleTurn ==
  ASSUME OneLock, IInv, NEW m \in M, NEW n \in M, Holding(m), Holding(n)
  PROVE  m = n
<1>1. m \in Users /\ n \in Users /\ Session(m) = SessionOf[m] /\ Session(n) = SessionOf[n]
  BY DEF OneLock, M, Session
<1>2. Key(m) = Key(n)
  BY <1>1 DEF OneLock, Key
<1> QED BY <1>2 DEF IInv, LockInv

\* What has been sent stays sent.
LEMMA ToldStays ==
  ASSUME TypeOK, outbound' = outbound \/ \E r : outbound' = Append(outbound, r)
  PROVE  \A u : Told(u) => Told(u)'
<1>1. outbound \in Seq(Reply)
  BY DEF TypeOK
<1>2. /\ Len(outbound') \in Nat /\ Len(outbound') >= Len(outbound)
      /\ \A i \in 1..Len(outbound) : outbound'[i] = outbound[i] /\ i \in 1..Len(outbound')
  BY <1>1
<1> QED BY <1>2 DEF Told

\* What is appended is sent.
LEMMA AppendTells ==
  ASSUME TypeOK, NEW r, outbound' = Append(outbound, r), r.is # "empty"
  PROVE  Told(r.msg)'
<1>1. outbound \in Seq(Reply)
  BY DEF TypeOK
<1>2. /\ Len(outbound') = Len(outbound) + 1 /\ Len(outbound) \in Nat
      /\ outbound'[Len(outbound) + 1] = r
  BY <1>1
<1>3. Len(outbound) + 1 \in 1..Len(outbound')
  BY <1>2
<1> QED BY <1>2, <1>3 DEF Told

\* Nobody begins, ends or sends.
SentQuiet ==
  /\ UNCHANGED <<outbound, sentInTurn>>
  /\ \A u \in M : /\ pc'[u] \in {"model", "tools"} => pc[u] \in {"model", "tools"}
                  /\ pc'[u] = "done" => pc[u] = "done"
SentShapes ==
  \/ SentQuiet
  \/ \E m \in M : Begin(m) \/ SendMessage(m)
  \/ \E m \in M : \E b, reason : pc[m] \in {"model", "tools"} /\ Finish(m, b, reason)
  \/ \E m \in M : \E c : Abort(m, c)

\* These are all the steps there are.
LEMMA StepSentShapes ==
  ASSUME IInv, [Next]_vars
  PROVE  SentShapes
<1>0. TypeOK
  BY DEF IInv
<1>1. ASSUME NEW m \in M, NEW b, NEW feedback, NEW c, pc[m] \in {"model", "tools"},
             Continue(m, b, feedback, c)
      PROVE  SentShapes
  <2>1. CASE IterationsLeft(m)
    <3>1. pc' = [pc EXCEPT ![m] = "model"] /\ UNCHANGED <<outbound, sentInTurn>>
      BY <1>1, <2>1 DEF Continue, busVars, toolVars
    <3> QED BY <1>0, <1>1, <3>1 DEF SentShapes, SentQuiet, TypeOK
  <2>2. CASE ~IterationsLeft(m)
    <3>1. \E d : Finish(m, d, "max_iterations")
      BY <1>1, <2>2 DEF Continue
    <3> QED BY <1>1, <3>1 DEF SentShapes
  <2> QED BY <2>1, <2>2
<1>2. ASSUME NEW m \in M, ModelReplies(m) \/ ToolsDone(m) PROVE SentShapes
  <2>1. ASSUME NEW b \in Batches, ReplyTools(m, b) PROVE SentShapes
    <3>1. pc[m] = "model" /\ pc' = [pc EXCEPT ![m] = "tools"] /\ UNCHANGED <<outbound, sentInTurn>>
      BY <2>1 DEF ReplyTools, busVars
    <3> QED BY <1>0, <3>1 DEF SentShapes, SentQuiet, TypeOK
  <2>2. CASE ReplyFinal(m) \/ \E reason \in Reasons : ReplyEnd(m, reason)
    BY <2>2 DEF ReplyFinal, ReplyEnd, SentShapes
  <2>3. CASE ReplyMalformed(m)
    <3>1. pc[m] = "model"
      BY <2>3 DEF ReplyMalformed
    <3>2. (\E d, reason : Finish(m, d, reason)) \/ (\E b, f, c : Continue(m, b, f, c))
      BY <2>3 DEF ReplyMalformed
    <3> QED BY <1>1, <3>1, <3>2 DEF SentShapes
  <2>4. CASE ToolsDone(m)
    <3>1. pc[m] \in {"model", "tools"} /\ Continue(m, Append(buf[m], Results(m)), FALSE, ToolsCompleted(m))
      BY <2>4 DEF ToolsDone
    <3>2. \E d, f, c : Continue(m, d, f, c)
      BY <3>1
    <3> QED BY <1>1, <3>1, <3>2 DEF SentShapes
  <2> QED BY <1>2, <2>1, <2>2, <2>3, <2>4 DEF ModelReplies
<1>3. ASSUME NEW m \in M, Raise(m) \/ RaiseInSave(m) PROVE SentShapes
  BY <1>3 DEF Raise, RaiseInSave, SentShapes
<1>4. ASSUME NEW m \in M, PassGate(m) \/ AcquireLock(m) PROVE SentShapes
  <2>1. /\ UNCHANGED <<outbound, sentInTurn>>
        /\ \E v \in {"gate", "begin"} : pc' = [pc EXCEPT ![m] = v]
    BY <1>4 DEF PassGate, AcquireLock, busVars, toolVars
  <2> QED BY <1>0, <2>1 DEF SentShapes, SentQuiet, TypeOK
<1>5. ASSUME NEW m \in M, Exec(m) \/ (\E x \in Subs : Spawn(m, x)) \/ YieldPoll(m) \/ YieldTimesOut(m)
      PROVE  SentShapes
  <2>1. UNCHANGED <<outbound, sentInTurn, pc>>
    BY <1>5 DEF Exec, Spawn, YieldPoll, YieldTimesOut, busVars, taskVars, toolVars
  <2> QED BY <2>1 DEF SentShapes, SentQuiet
<1>6. CASE \/ \E x \in Subs : Announce(x) \/ Cleanup(x)
           \/ \E u \in Users : Publish(u)
           \/ Dispatch \/ PollTimesOut \/ Stop \/ UNCHANGED vars
  <2>1. UNCHANGED <<outbound, sentInTurn>>
    BY <1>6 DEF Announce, Cleanup, Publish, Dispatch, PollTimesOut, Stop, vars, busVars, toolVars
  <2>2. pc' = pc \/ \E m : \E v \in {"inbound", "lock"} : pc' = [pc EXCEPT ![m] = v]
    BY <1>6 DEF Announce, Cleanup, Publish, Dispatch, PollTimesOut, Stop, vars, taskVars
  <2>3. SentQuiet
    BY <1>0, <2>1, <2>2 DEF SentQuiet, TypeOK
  <2> QED BY <2>3 DEF SentShapes
<1>7. ASSUME NEW m \in M, Begin(m) \/ SendMessage(m) PROVE SentShapes
  BY <1>7 DEF SentShapes
<1> HIDE DEF SentShapes
<1> QED BY <1>2, <1>3, <1>4, <1>5, <1>6, <1>7 DEF Next, LoopStep, TurnStep, ToolStep

\* Each of them keeps the flag true to the turn.
LEMMA NextSent ==
  ASSUME OneLock
  PROVE  IInv /\ SentInv /\ [Next]_vars => SentInv'
<1> SUFFICES ASSUME IInv, SentInv, [Next]_vars PROVE SentInv'
  OBVIOUS
<1>0. TypeOK /\ \A u \in Users : u \in M
  BY DEF IInv, M
<1>1. CASE SentQuiet
  BY <1>0, <1>1 DEF SentQuiet, SentInv, Told
<1>2. ASSUME NEW m \in M, Begin(m) PROVE SentInv'
  <2>1. /\ pc[m] = "begin" /\ pc' = [pc EXCEPT ![m] = "model"]
        /\ outbound' = outbound /\ sentInTurn' = StartTurn(m)
    BY <1>2 DEF Begin, busVars
  <2>2. m \in Users /\ (m \notin Overridden => ~sentInTurn')
    BY <2>1 DEF OneLock, M, StartTurn
  <2>3. \A u \in Users : u # m => pc'[u] = pc[u] /\ pc[u] \notin {"model", "tools"}
    BY <1>0, <2>1, SoleTurn DEF Holding, TypeOK
  <2>4. pc'[m] = "model"
    BY <1>0, <2>1 DEF TypeOK
  <2> QED BY <2>1, <2>2, <2>3, <2>4 DEF SentInv, Told
<1>3. ASSUME NEW m \in M, SendMessage(m) PROVE SentInv'
  <2> DEFINE r == [msg |-> m, to |-> <<"chat", toolCtx>>, is |-> "tool"]
  <2>1. pc[m] = "tools" /\ UNCHANGED pc /\ outbound' = Append(outbound, r)
    BY <1>3 DEF SendMessage, Calling, taskVars
  <2>2. r.msg = m /\ r.is # "empty"
    OBVIOUS
  <2> HIDE DEF r
  <2>3. Told(m)' /\ \A u : Told(u) => Told(u)'
    BY <1>0, <2>1, <2>2, AppendTells, ToldStays
  <2>4. \A u \in Users : u # m => pc[u] \notin {"model", "tools"}
    BY <1>0, <2>1, SoleTurn DEF Holding
  <2> QED BY <2>1, <2>3, <2>4 DEF SentInv
<1>4. ASSUME NEW m \in M, Told(m)', \A u : Told(u) => Told(u)',
             pc[m] \in {"begin", "model", "tools"}, pc' = [pc EXCEPT ![m] = "done"], UNCHANGED sentInTurn
      PROVE  SentInv'
  <2>1. pc'[m] = "done" /\ \A u \in Users : u # m => pc'[u] = pc[u]
    BY <1>0, <1>4 DEF TypeOK
  <2> QED BY <1>4, <2>1 DEF SentInv
<1>5. ASSUME NEW m \in M, NEW b, NEW reason, pc[m] \in {"model", "tools"}, Finish(m, b, reason)
      PROVE  SentInv'
  <2>1. /\ pc' = [pc EXCEPT ![m] = "done"] /\ UNCHANGED sentInTurn /\ outbound' = outbound \o Answer(m)
    BY <1>5 DEF Finish, Release
  <2>2. m \in Users /\ m \notin Subs /\ outbound \in Seq(Reply)
    BY <1>0 DEF OneLock, M, TypeOK
  <2>3. Answer(m) = <<>> \/ \E r : Answer(m) = <<r>>
    BY <2>2 DEF Answer
  <2>4. outbound' = outbound \/ \E r : outbound' = Append(outbound, r)
    <3>1. CASE Answer(m) = <<>>
      BY <2>1, <2>2, <3>1
    <3>2. ASSUME NEW r, Answer(m) = <<r>> PROVE outbound' = Append(outbound, r)
      BY <2>1, <2>2, <3>2
    <3> QED BY <2>3, <3>1, <3>2
  <2>5. \A u : Told(u) => Told(u)'
    BY <1>0, <2>4, ToldStays
  <2>6. Told(m)'
    <3>1. CASE m \in Overridden \/ ~sentInTurn
      <4> DEFINE r == [msg |-> m, to |-> <<"chat", Session(m)>>, is |-> "answer"]
      <4>1. Answer(m) = <<r>>
        BY <2>2, <3>1 DEF Answer
      <4>2. r.msg = m /\ r.is # "empty"
        OBVIOUS
      <4> HIDE DEF r
      <4>3. outbound' = Append(outbound, r)
        BY <2>1, <2>2, <4>1
      <4> QED BY <1>0, <4>2, <4>3, AppendTells
    <3>2. CASE m \notin Overridden /\ sentInTurn
      BY <1>5, <2>2, <2>5, <3>2 DEF SentInv
    <3> QED BY <1>0, <3>1, <3>2 DEF TypeOK
  <2> QED BY <1>4, <1>5, <2>1, <2>5, <2>6
<1>6. ASSUME NEW m \in M, NEW c, Abort(m, c) PROVE SentInv'
  <2> DEFINE r == [msg |-> m, to |-> ErrorAddress(m), is |-> "error"]
  <2>1. /\ pc' = [pc EXCEPT ![m] = "done"] /\ UNCHANGED sentInTurn /\ outbound' = Append(outbound, r)
    BY <1>6 DEF Abort, Release
  <2>2. r.msg = m /\ r.is # "empty"
    OBVIOUS
  <2> HIDE DEF r
  <2>3. Told(m)' /\ \A u : Told(u) => Told(u)'
    BY <1>0, <2>1, <2>2, AppendTells, ToldStays
  <2>4. pc'[m] = "done" /\ \A u \in Users : u # m => pc'[u] = pc[u]
    BY <1>0, <2>1 DEF TypeOK
  <2> QED BY <2>1, <2>3, <2>4 DEF SentInv
<1> QED BY <1>1, <1>2, <1>3, <1>5, <1>6, StepSentShapes DEF SentShapes

\* Where turns do not overlap, the message tool's flag suppresses no answer but
\* that of a turn which has sent a message itself.
THEOREM NobodyIsLeftOut ==
  ASSUME OneLock
  PROVE  Spec => []SuppressedOnlyIfSent
<1>1. Init => SentInv
  BY DEF Init, SentInv, M
<1>2. SentInv => SuppressedOnlyIfSent
  BY DEF SentInv, Told, SuppressedOnlyIfSent
<1>3. IInv /\ SentInv /\ [Next]_vars => SentInv'
  BY NextSent
<1> QED BY <1>1, <1>2, <1>3, InvariantHolds, PTL DEF Spec
=============================================================================
