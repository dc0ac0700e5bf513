----------------------------- MODULE MCPlanMode -----------------------------
(* PlanMode for TLC, under DEFAULT_PLAN_POLICY.                             *)
EXTENDS PlanMode

Default == [bash |-> "verify", mcp |-> FALSE, delegate |-> TRUE]
=============================================================================
