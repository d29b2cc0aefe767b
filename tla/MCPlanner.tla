----------------------------- MODULE MCPlanner -----------------------------
(* The planner on two or three tickets, the constants as the configurations *)
(* give them: MCPlanner.cfg and MCPlannerFair.cfg for what holds,           *)
(* MCPlannerDefers.cfg for what does not.  In MCPlanner.cfg k1 has whatever *)
(* can befall a ticket, and k2 competes with it for the only slot.          *)
EXTENDS Planner

=============================================================================
