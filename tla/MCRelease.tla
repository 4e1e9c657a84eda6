----------------------------- MODULE MCRelease ------------------------------
(***************************************************************************)
(* Two steps side by side after the first: tests whose failure sends the   *)
(* code back, and a deployment that waits for approval.                    *)
(***************************************************************************)
EXTENDS WorkflowProperties

ReleaseNodes == {"code", "test", "deploy"}

ReleaseEdges == {<<"code", "test">>, <<"code", "deploy">>}

ReleaseFeedback ==
  [n \in ReleaseNodes |-> IF n = "test" THEN "code" ELSE "no node"]

ReleaseHolds == [e \in ReleaseEdges |-> {"good", "bad"}]

ReleaseFires == [n \in ReleaseNodes |-> {"bad"}]

ReleasePosition ==
  [n \in ReleaseNodes |-> CASE n = "code" -> 0 [] n = "test" -> 1 [] n = "deploy" -> 2]
=============================================================================
