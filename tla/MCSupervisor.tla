---------------------------- MODULE MCSupervisor ----------------------------
(* Supervisor with every engine in use, and a repo that deploys by itself. *)
EXTENDS Supervisor

OneKindEach == {"deep_review", "triage", "analyze", "patch_multi"}

\* The defaults of the schema.
SomeDefaults ==
  [kind \in OneKindEach |-> CASE kind = "patch_multi" -> "multi_agent"
                              [] kind = "deep_review" -> "claude_code"
                              [] OTHER -> "mimo"]

SomeOverrides == [kind \in OneKindEach |-> IF kind = "analyze" THEN "anthropic" ELSE None]

SelfDeploy ==
  [mode |-> "local", host |-> FALSE, commands |-> TRUE, trigger_branch |-> "main",
   require_bot_push |-> TRUE, bot_login |-> "bot"]

\* As it is, switched off, and while the host of ssh is not filled in yet.
SomeConfigs ==
  {SelfDeploy, [SelfDeploy EXCEPT !.mode = "disabled"], [SelfDeploy EXCEPT !.mode = "ssh"]}

SomePushes == [ref : {"main", "topic"}, sender : {"bot", "someone"}, deletion : BOOLEAN]
=============================================================================
