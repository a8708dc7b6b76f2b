------------------------- MODULE MCAgentLoop -------------------------
(* Instances of AgentLoop for TLC. *)
EXTENDS AgentLoop, TLC

CONSTANTS u1, u2, x1, x2, s1

\* Every message in one session.
OneSession == [u \in Users |-> DirectSession]
\* What the model may call in turns without subagents.
PlainBatches == {<<"exec">>, <<"message">>, <<"exec", "message">>}
\* Two subagents started one after the other, by whichever turn, waited for or not.
SubBatches == {<<x1>>, <<x2, "yield">>, <<"yield">>}
OneSubBatches == {<<"exec">>, <<x1>>, <<x1, "yield">>, <<"yield">>}
=============================================================================
