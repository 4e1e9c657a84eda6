---------------------------- MODULE MCExecution ----------------------------
(***************************************************************************)
(* Two agents and three models of two vendors.  The writer's ranking has   *)
(* two models of one vendor before one of the other, and the second is     *)
(* dearer than the writer's limit.  A call may cost more than estimated.    *)
(***************************************************************************)
EXTENDS ExecutionProperties

MCSteps      == {"draft", "check"}
MCModels     == {"small", "large", "other"}
MCProviderOf == [m \in MCModels |-> IF m = "other" THEN "zenith" ELSE "acme"]
MCEstimate   == [m \in MCModels |-> IF m = "large" THEN 2 ELSE 1]
MCBills      == [m \in MCModels |-> {0, MCEstimate[m] + 1}]
MCRanked     == [s \in MCSteps |-> IF s = "draft" THEN <<"small", "large", "other">>
                                                   ELSE <<"other">>]
MCLimit      == [s \in MCSteps |-> 1]
MCMaxAttempts == [s \in MCSteps |-> IF s = "draft" THEN 2 ELSE 1]

(* Three members for two permits, one without any model; the draft can       *)
(* afford every model of its ranking.                                        *)
FewSteps       == {"draft", "check", "publish"}
FewRanked      == [s \in FewSteps |-> CASE s = "draft" -> <<"small", "large", "other">>
                                        [] s = "check" -> <<"other">>
                                        [] OTHER -> <<>>]
FewLimit       == [s \in FewSteps |-> 2]
FewMaxAttempts == [s \in FewSteps |-> IF s = "draft" THEN 2 ELSE 1]
=============================================================================
