---------------------------- MODULE MCCodeReview ----------------------------
(***************************************************************************)
(* A plan in the shape app/orchestration/planner.py builds: a security     *)
(* audit, a fix that runs only if it found something and needs approval,   *)
(* tests whose failure sends the fix back, and documentation that is       *)
(* written from whichever of the others answered.                          *)
(***************************************************************************)
EXTENDS WorkflowProperties

ReviewNodes == {"audit", "code", "test", "docs"}

ReviewEdges ==
  {<<"audit", "code">>, <<"code", "test">>, <<"audit", "docs">>, <<"test", "docs">>}

ReviewFeedback ==
  [n \in ReviewNodes |-> IF n = "test" THEN "code" ELSE "no node"]

(* "bad": the audit found something, the tests failed.                     *)
ReviewHolds ==
  [e \in ReviewEdges |-> IF e = <<"audit", "code">> THEN {"bad"} ELSE {"good", "bad"}]

ReviewFires == [n \in ReviewNodes |-> {"bad"}]

ReviewPosition ==
  [n \in ReviewNodes |-> CASE n = "audit" -> 0 [] n = "code" -> 1
                           [] n = "test"  -> 2 [] n = "docs" -> 3]
=============================================================================
