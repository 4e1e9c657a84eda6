---------------------------- MODULE VendorModels ----------------------------
(***************************************************************************)
(* The models the delivered adapters offer (providers/openai_compatible.py, *)
(* anthropic.py, fake.py): of each what routing reads, its traits, its     *)
(* context in thousands of tokens, the price of a million output tokens in *)
(* cents and its typical latency in milliseconds.                          *)
(***************************************************************************)
EXTENDS Naturals, Sequences, TLC

Model(traits, context, cost, latency) ==
  [traits |-> traits, context |-> context, cost |-> cost, latency |-> latency]

OpenAI ==
     "openai:gpt-4o" :> Model({"reasoning", "coding", "long_context", "structured_output"},
                       128, 1000, 4000)
  @@ "openai:gpt-4o-mini" :> Model({"fast", "cheap", "coding", "structured_output"}, 128, 60, 1500)
Anthropic ==
     "anthropic:claude-3-5-sonnet-latest" :>
       Model({"reasoning", "coding", "long_context", "structured_output"}, 200, 1500, 4000)
  @@ "anthropic:claude-3-5-haiku-latest" :>
       Model({"fast", "cheap", "coding", "structured_output"}, 200, 400, 1500)
DeepSeek ==
     "deepseek:deepseek-chat" :> Model({"cheap", "coding", "long_context", "structured_output", "fast"},
                              128, 110, 3000)
  @@ "deepseek:deepseek-reasoner" :> Model({"reasoning", "coding"}, 128, 219, 8000)
XAI ==
  "xai:grok-2" :> Model({"reasoning", "coding", "long_context", "structured_output"}, 131, 1000, 4000)
Mistral ==
     "mistral:mistral-large-latest" :> Model({"reasoning", "coding", "structured_output"}, 128, 600, 3500)
  @@ "mistral:mistral-small-latest" :> Model({"fast", "cheap", "structured_output"}, 128, 30, 1200)
Gemini ==
     "google:gemini-pro-latest" :> Model({"reasoning", "long_context", "structured_output", "coding"},
                                  1000, 1000, 3500)
  @@ "google:gemini-flash-latest" :>
       Model({"cheap", "reasoning", "long_context", "structured_output", "coding"}, 1000, 60, 8000)
OpenRouter ==
  "openrouter:openai/gpt-4o-mini" :> Model({"fast", "cheap", "structured_output"}, 128, 60, 2000)
Groq ==
     "groq:openai/gpt-oss-120b" :>
       Model({"fast", "cheap", "coding", "reasoning", "structured_output", "long_context"}, 131, 60, 500)
  @@ "groq:openai/gpt-oss-20b" :>
       Model({"fast", "cheap", "structured_output", "long_context"}, 131, 30, 300)
Moonshot ==
     "moonshot:kimi-k2.6" :>
       Model({"reasoning", "coding", "long_context", "structured_output"}, 256, 250, 3000)
  @@ "moonshot:moonshot-v1-128k" :>
       Model({"long_context", "cheap", "structured_output"}, 128, 200, 2500)
Cohere ==
     "cohere:command-r-plus" :>
       Model({"reasoning", "long_context", "structured_output"}, 128, 1000, 3000)
  @@ "cohere:command-r" :>
       Model({"fast", "cheap", "structured_output"}, 128, 60, 1500)
Perplexity ==
     "perplexity:sonar-pro" :>
       Model({"reasoning", "long_context"}, 200, 1500, 4000)
  @@ "perplexity:sonar" :>
       Model({"fast", "cheap"}, 127, 100, 2500)
Together ==
     "together:meta-llama/Llama-3.3-70B-Instruct-Turbo" :>
       Model({"fast", "cheap", "coding", "reasoning", "structured_output"}, 131, 88, 1200)
Qwen ==
     "qwen:qwen-plus" :>
       Model({"reasoning", "coding", "long_context", "structured_output"}, 131, 120, 2500)
  @@ "qwen:qwen-turbo" :>
       Model({"fast", "cheap", "structured_output"}, 131, 20, 1000)
HuggingFace ==
     "huggingface:meta-llama/Llama-3.1-8B-Instruct" :>
       Model({"fast", "cheap", "coding", "structured_output"}, 128, 6, 800)
  @@ "huggingface:Qwen/Qwen2.5-72B-Instruct" :>
       Model({"reasoning", "coding", "long_context", "structured_output"}, 131, 40, 2000)
  @@ "huggingface:deepseek-ai/DeepSeek-V3-0324" :>
       Model({"reasoning", "coding", "cheap", "structured_output"}, 128, 110, 2500)
(* FAKE_MODELS, the demo vendor's. *)
Fake ==
     "fake:reasoner" :>
       Model({"reasoning", "coding", "structured_output"}, 128, 300, 800)
  @@ "fake:cheap" :>
       Model({"fast", "cheap", "structured_output"}, 32, 15, 200)

(* Vendors by the id their row is stored under, the demo vendor among them. *)
VENDORS ==
  [openai |-> OpenAI, anthropic |-> Anthropic, google |-> Gemini, moonshot |-> Moonshot,
   groq |-> Groq, deepseek |-> DeepSeek, xai |-> XAI, mistral |-> Mistral,
   cohere |-> Cohere, perplexity |-> Perplexity, together |-> Together, qwen |-> Qwen,
   openrouter |-> OpenRouter, huggingface |-> HuggingFace, fake |-> Fake]

(* Model ids as strings compare: the last thing routing looks at.           *)
ModelOrder ==
  <<"anthropic:claude-3-5-haiku-latest",
    "anthropic:claude-3-5-sonnet-latest",
    "cohere:command-r",
    "cohere:command-r-plus",
    "deepseek:deepseek-chat",
    "deepseek:deepseek-reasoner",
    "fake:cheap",
    "fake:reasoner",
    "google:gemini-flash-latest",
    "google:gemini-pro-latest",
    "groq:openai/gpt-oss-120b",
    "groq:openai/gpt-oss-20b",
    "huggingface:Qwen/Qwen2.5-72B-Instruct",
    "huggingface:deepseek-ai/DeepSeek-V3-0324",
    "huggingface:meta-llama/Llama-3.1-8B-Instruct",
    "mistral:mistral-large-latest",
    "mistral:mistral-small-latest",
    "moonshot:kimi-k2.6",
    "moonshot:moonshot-v1-128k",
    "openai:gpt-4o",
    "openai:gpt-4o-mini",
    "openrouter:openai/gpt-4o-mini",
    "perplexity:sonar",
    "perplexity:sonar-pro",
    "qwen:qwen-plus",
    "qwen:qwen-turbo",
    "together:meta-llama/Llama-3.3-70B-Instruct-Turbo",
    "xai:grok-2">>
=============================================================================
