----------------------- MODULE MCPromptPublishCommand ------------------------
(* Instances of PromptPublishCommand for TLC: see MCPromptServer.  *)
EXTENDS PromptPublishCommand, MCPromptServer
=============================================================================
