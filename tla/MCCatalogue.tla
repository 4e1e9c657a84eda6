---------------------------- MODULE MCCatalogue -----------------------------
(***************************************************************************)
(* Two built-in agents and one that may be enrolled, under a name a        *)
(* built-in agent gives up when it is renamed; two calls at a time.        *)
(***************************************************************************)
EXTENDS AgentCatalogue, TLC

CONSTANTS research, writer, e1, Scout, scout, Writer, Helper, find, write,
          text, number, claude, summary, score, c1, c2

MCBuiltin == research :> 1 @@ writer :> 2
MCFresh   == {e1}
MCNames   == {Scout, scout, Writer, Helper}
MCLower   == Scout :> scout @@ scout :> scout @@ Writer :> Writer @@ Helper :> Helper
MCProps   == {summary, score}
MCPlain   == summary :> text @@ score :> NoType
MCScored  == summary :> text @@ score :> number
MCSpelt   == summary :> text @@ score :> text
MCShipped == research :> [name |-> Scout, caps |-> {find}, schema |-> MCScored]
          @@ writer :> [name |-> Writer, caps |-> {write}, schema |-> MCPlain]
MCEnrollments == {[name |-> scout, caps |-> {find}, schema |-> MCPlain],
                  [name |-> Helper, caps |-> {find}, schema |-> MCSpelt]}
MCPatches ==
  {[NoPatch EXCEPT !.name = Helper],
   [NoPatch EXCEPT !.caps = {write}],
   [NoPatch EXCEPT !.caps = {find, write}, !.enabled = FALSE],
   [NoPatch EXCEPT !.schema = MCScored],
   [NoPatch EXCEPT !.schema = MCSpelt, !.enabled = TRUE]}
MCCalls   == {c1, c2}
Symmetric == Permutations(MCCalls)
=============================================================================
