---------------------------- MODULE MCAgentHooks ----------------------------
(***************************************************************************)
(* Small instances of AgentHooks: one file of the application, one rule    *)
(* file that /sync-guidelines rewrites; three prompts and three commands.  *)
(***************************************************************************)
EXTENDS AgentHooks

MCPaths == {"service.py", "project-status.md"}
MCPy == {"service.py"}
MCRules == {"project-status.md"}
MCLogPr == [p \in {} |-> 0]
MCOneHarness == [s \in Sessions |-> "antigravity"]

MCPrompts == {[text |-> "p", token |-> "hotfix", danger |-> FALSE, notice |-> FALSE],
              [text |-> "p", token |-> "exploration", danger |-> FALSE, notice |-> TRUE],
              [text |-> "p", token |-> "trivial", danger |-> TRUE, notice |-> FALSE]}
MCCommands == {[program |-> "pytest", verb |-> "", composite |-> FALSE, inspects |-> FALSE, danger |-> FALSE],
               [program |-> "pytest", verb |-> "", composite |-> TRUE, inspects |-> FALSE, danger |-> FALSE],
               [program |-> "make", verb |-> "test", composite |-> FALSE, inspects |-> FALSE, danger |-> TRUE]}
MCSkills == {[kind |-> "goal", arg |-> "g"],
             [kind |-> "workflow", arg |-> [stage |-> "planned", plan |-> "adr"]],
             [kind |-> "workflow", arg |-> [stage |-> "complete", review |-> "complete"]]}
MCFiles == {Garbage, Written([DefaultLedger EXCEPT !.version = 1, !.workflow = None, !.goal = "g"])}
=============================================================================
