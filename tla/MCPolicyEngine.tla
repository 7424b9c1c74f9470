--------------------------- MODULE MCPolicyEngine ---------------------------
(***************************************************************************)
(* Messages for model checking PolicyEngine, chosen so that each lies      *)
(* strictly between the thresholds of the code, on a side of its own.      *)
(***************************************************************************)
EXTENDS PolicyEngine

Msg(h, c, slow, attempt, dar, proc, done) ==
  [hedging |-> h, confusion |-> c, slow |-> slow, short |-> FALSE,
   attempt |-> attempt, dar |-> dar, proc |-> proc, done |-> done]

calm       == Msg(0,   0,   0,   TRUE,  FALSE, FALSE, FALSE)
stuck      == Msg(100, 40,  100, TRUE,  FALSE, FALSE, FALSE) \* struggle .65, affect .64
lost       == Msg(50,  100, 0,   FALSE, FALSE, FALSE, FALSE) \* struggle .425, affect .8
desperate  == Msg(100, 100, 100, TRUE,  FALSE, FALSE, FALSE) \* struggle .8, affect 1
howTo      == Msg(0,   0,   0,   FALSE, TRUE,  TRUE,  FALSE) \* "como se hace?"
demand     == Msg(0,   0,   0,   FALSE, TRUE,  FALSE, FALSE) \* "dame la respuesta"
forgot     == Msg(0,   0,   0,   TRUE,  FALSE, TRUE,  FALSE) \* "... pero no me acuerdo"
finished   == Msg(0,   0,   0,   TRUE,  FALSE, FALSE, TRUE)  \* "ya lo hicimos ..."

TurnSignals    == {howTo, stuck, desperate}
UnblockSignals == {calm, howTo, demand, forgot, finished}
AbandonSignals == {calm, stuck}
=============================================================================
