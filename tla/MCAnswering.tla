------------------------------ MODULE MCAnswering -----------------------------
(* The agent with two quotas: one where a single round is left to each of  *)
(* the two runs of a question, and one where the guards against repetition *)
(* and errors can end a run before its three rounds are used.  Prompts     *)
(* whose components hold nothing, two units that are priced right, or two  *)
(* whose prices are wrong in both directions.                              *)
EXTENDS Answering

MCQuotas == {<<1, 1, 1>>, <<3, 1, 0>>}

Unit(price, weight) == [price |-> price, weight |-> weight]
MCPiles == {<<>>, <<Unit(2, 2), Unit(1, 1)>>, <<Unit(1, 0), Unit(2, 3)>>}
=============================================================================
