----------------------------- MODULE MCExchange -----------------------------
(* Two of four requests, in any order, and their answers, for TLC: one of    *)
(* four frames in two blocks with a long and a negative answer, one of three *)
(* frames, which end a block, one in a single frame that asks for no answer  *)
(* and gets a negative one, and one that is too long for the node.           *)
EXTENDS ExchangeInvariant

MCIds == {"tester", "ecu"}
MCMsgs == {"q1", "q2", "q3", "q4", "p1", "p2", "n1", "n3"}
Answer(name, length) == [length |-> length, id |-> "ecu", msg |-> name]
MCAnswers == [m \in MCMsgs |->
    CASE m = "q1" -> {Answer("p1", 13), Answer("n1", 3)}
      [] m = "q2" -> {Answer("p2", 27)}
      [] m = "q3" -> {Answer("n3", 3)}
      [] OTHER -> {}]
MCPositive == [m \in MCMsgs |->
    CASE m = "q1" -> {"p1"} [] m = "q2" -> {"p2"} [] OTHER -> {}]
MCMessages == UNION {MCAnswers[m] : m \in MCMsgs}
MCScript == {[length |-> 27, msg |-> "q1"], [length |-> 14, msg |-> "q2"],
             [length |-> 2, msg |-> "q3"], [length |-> 42, msg |-> "q4"]}
MCQuiet == {"q3"}
NoBytes == {0}
Nothing == {}
FromTester == {"tester"}
=============================================================================
