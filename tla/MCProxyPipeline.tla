--------------------------- MODULE MCProxyPipeline --------------------------
(***************************************************************************)
(* Values for ProxyPipeline's constants: a model and its dated alias, and  *)
(* the configurations that providers may have.                             *)
(***************************************************************************)
EXTENDS ProxyPipeline

MCModels == {"opus", "opus-20250101"}

MCStripSuffix == [m \in MCModels |-> IF m = "opus-20250101" THEN "opus" ELSE NoModel]

MCConfigs == [protocol : {"anthropic", "openai"}, serves : {{"opus"}}]

OpenAiOnly == [protocol : {"openai"}, serves : {{"opus"}}]
=============================================================================
