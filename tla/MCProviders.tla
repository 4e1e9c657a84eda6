---------------------------- MODULE MCProviders ----------------------------
(***************************************************************************)
(* Two delivered vendors, OpenAI with a key in the environment and         *)
(* DeepSeek without, and two delivered agents: the security agent needs a  *)
(* reasoning model, the documentation agent takes any.  A vendor's list    *)
(* may lack the catalogue's reasoning models.  Two settings calls run at a *)
(* time, three in all.                                                     *)
(***************************************************************************)
EXTENDS ProviderSettings, BuiltinAgents, VendorModels

CONSTANTS key1, key2, c1, c2

MCProviders == {"openai", "deepseek"}
MCCatalogue == [v \in MCProviders \cup {"fake"} |-> DOMAIN VENDORS[v]]
MCModels    == UNION {MCCatalogue[v] : v \in DOMAIN MCCatalogue}
MCSpec      == [m \in MCModels |->
  VENDORS[CHOOSE v \in DOMAIN MCCatalogue : m \in MCCatalogue[v]][m]
    @@ [order |-> CHOOSE i \in DOMAIN ModelOrder : ModelOrder[i] = m]]
MCEnvKeyed  == {"openai"}
MCKeys      == {key1, key2}
MCCalls     == {c1, c2}
Symmetric   == Permutations(MCKeys) \cup Permutations(MCCalls)
MCListings  == {{}, {"openai:gpt-4o-mini"}, {"deepseek:deepseek-chat"}}
MCAgents    == {"security-agent", "documentation-agent"}
MCPlain     == [rank |-> [v \in DOMAIN MCCatalogue |-> 1], blocked |-> {}]
DeepSeekFirst == [v \in DOMAIN MCCatalogue |-> IF v = "deepseek" THEN 0 ELSE 2]
MCPolicies  == {[rank |-> DeepSeekFirst, blocked |-> {}],
                [rank |-> DeepSeekFirst, blocked |-> {"openai:gpt-4o"}]}
=============================================================================
