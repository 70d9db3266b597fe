------------------------- MODULE MCAutomationEngine -------------------------
(***************************************************************************)
(* AutomationEngine with two workers and one execution, or one worker and  *)
(* two executions: a second execution comes only while the second worker   *)
(* is away, and then keeps it away.                                        *)
(***************************************************************************)
EXTENDS AutomationEngine, TLC

CONSTANTS e1, e2, t1, w1, w2

MCTasks == {t1}
MCScopeOf == (e1 :> t1) @@ (e2 :> t1)

WorkersOrExecutions == status[e2] = "absent" \/ engine[w2] = "down"

MCSpec == EngineInit /\ [][EngineNext /\ WorkersOrExecutions']_allVars

\* The bound forbids an enqueue and a start, on which no fairness is stated.
MCFairSpec == MCSpec /\ Fairness
=============================================================================
