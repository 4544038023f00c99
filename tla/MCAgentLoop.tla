----------------------------- MODULE MCAgentLoop -----------------------------
(* Runs of the agent that between them meet every guard of the loop.         *)
EXTENDS AgentLoop

Base == [planner |-> "rule", probe |-> FALSE, config |-> FALSE, needs |-> <<>>,
         targets |-> <<>>, plan |-> << <<"pod", "plain">>, <<"events", "plain">>, <<"logs", "plain">> >>]

\* The rule planner on an unready pod with probes, and on a broken configuration.
RuleProbe  == [Base EXCEPT !.probe = TRUE, !.needs = <<"events", "logs">>, !.targets = <<"events">>]
RuleConfig == [Base EXCEPT !.config = TRUE, !.targets = <<"logs", "events">>,
                           !.plan = << <<"pod", "plain">>, <<"runbook", "hint">>, <<"logs", "plain">> >>]

\* The LLM planner on the same pods, with a shorter plan.
LLMProbe  == [RuleProbe EXCEPT !.planner = "llm", !.targets = <<>>, !.plan = << <<"pod", "plain">> >>]
LLMConfig == [RuleConfig EXCEPT !.planner = "llm", !.plan = << <<"pod", "plain">> >>]

MCScenes     == {RuleProbe, RuleConfig, LLMProbe, LLMConfig}
MCGapTools   == <<"metrics">>
MCLLMCalls   == << <<"logs", "app">> >>
=============================================================================
