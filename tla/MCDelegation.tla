---------------------------- MODULE MCDelegation ----------------------------
EXTENDS Delegation, Tools
CONSTANTS search, fetch

\* A run starts with the tools that build_subagent gave its agent.
RunsStartSound == phase = "thinking" /\ steps = 0 => ToolsAreSound
=============================================================================
