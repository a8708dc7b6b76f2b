---------------------------- MODULE Dispatcher ----------------------------
(***************************************************************************)
(* What AgentLoop.run and _dispatch (src/src/agents/openclaw/_loop.py)     *)
(* promise to those who publish messages: messages with the same key are   *)
(* processed one at a time, in the order they were published, no more than *)
(* Limit messages are processed at once, and each is processed once.       *)
(***************************************************************************)
EXTENDS Naturals, Sequences, FiniteSets

CONSTANTS Msgs, Keys, NoKey, Limit

VARIABLES
  order,   \* the messages published, in order
  key,     \* the key each was published with
  phase    \* how far each has come

vars == <<order, key, phase>>

Active == {m \in Msgs : phase[m] = "processing"}

\* Every message published before m with the same key is finished.
FirstOfKey(m) ==
  \A i, j \in 1..Len(order) :
    (i < j /\ order[j] = m /\ key[order[i]] = key[m]) => phase[order[i]] = "finished"

Init == /\ order = <<>>
        /\ key = [m \in Msgs |-> NoKey]
        /\ phase = [m \in Msgs |-> "new"]

Publish(m, k) == /\ phase[m] = "new"
                 /\ phase' = [phase EXCEPT ![m] = "waiting"]
                 /\ key' = [key EXCEPT ![m] = k]
                 /\ order' = Append(order, m)

Start(m) == /\ phase[m] = "waiting"
            /\ FirstOfKey(m)
            /\ Cardinality(Active) < Limit
            /\ phase' = [phase EXCEPT ![m] = "processing"]
            /\ UNCHANGED <<order, key>>

End(m) == /\ phase[m] = "processing"
          /\ phase' = [phase EXCEPT ![m] = "finished"]
          /\ UNCHANGED <<order, key>>

Next == \E m \in Msgs : (\E k \in Keys : Publish(m, k)) \/ Start(m) \/ End(m)

Spec == Init /\ [][Next]_vars
=============================================================================
