----------------------------- MODULE MCNetwork ------------------------------
(***************************************************************************)
(* Tests whose failure sends the code back and that wait for approval,     *)
(* beside documentation that is written if the code is good.               *)
(***************************************************************************)
EXTENDS NetworkProperties

FloorNodes == {"code", "test", "docs"}

FloorEdges == {<<"code", "test">>, <<"code", "docs">>}

FloorFeedback == [n \in FloorNodes |-> IF n = "test" THEN "code" ELSE "no node"]

FloorHolds ==
  [e \in FloorEdges |-> IF e[2] = "docs" THEN {"good"} ELSE {"good", "bad"}]

FloorFires == [n \in FloorNodes |-> {"bad"}]

FloorPosition ==
  [n \in FloorNodes |-> CASE n = "code" -> 0 [] n = "test" -> 1 [] n = "docs" -> 2]

OutsideLetters == {<<"context_request", TRUE, 1>>}
=============================================================================
