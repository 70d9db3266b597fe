------------------------- MODULE ExecutionLifecycle -------------------------
(***************************************************************************)
(* What the Automation Store promises about executions, without work       *)
(* items, leases, fences or clocks: the statuses an observer can see follow *)
(* one another only as below, an execution starts at most once, and the    *)
(* executions that may have a target running occupy bounded capacity.      *)
(***************************************************************************)
CONSTANTS
  Executions,
  Fits(_)  \* whether a set of executions may occupy capacity together

VARIABLES
  status,  \* execution -> ExecutionStatus, or "absent"
  held     \* executions that occupy a unit of capacity

observed == <<status, held>>

Unstarted == {"queued"}
Active == {"running", "cancel_requested"}

\* The outcomes a status may settle in.
Outcomes(s) ==
  CASE s \in Unstarted -> {"failed", "timed_out", "cancelled"}
    [] s \in Active -> {"succeeded", "failed", "timed_out", "cancelled"}
    [] s = "interrupted" -> {"timed_out", "cancelled"}
    [] s = "needs_attention" -> {"succeeded", "failed", "cancelled"}
    [] OTHER -> {}

Init ==
  /\ status = [e \in Executions |-> "absent"]
  /\ held = {}

\* Every execution of E moves to the status s.
Move(E, s) == status' = [e \in Executions |-> IF e \in E THEN s ELSE status[e]]

Submit(e) ==
  /\ status[e] = "absent"
  /\ Move({e}, "queued")
  /\ UNCHANGED held

Admit(e) ==
  /\ status[e] = "queued"
  /\ held' = held \cup {e}
  /\ Fits(held')
  /\ UNCHANGED status

Start(e) ==
  /\ status[e] = "queued"
  /\ e \in held
  /\ Move({e}, "running")
  /\ UNCHANGED held

RequestCancel(e) ==
  /\ status[e] = "running"
  /\ Move({e}, "cancel_requested")
  /\ UNCHANGED held

Interrupt(e) ==
  /\ status[e] \in Active
  /\ Move({e}, "interrupted")
  /\ UNCHANGED held

\* Nobody knows any more what the targets of E did.
Doubt(E) ==
  /\ \A e \in E : status[e] \in Active
  /\ Move(E, "needs_attention")
  /\ UNCHANGED held

Settle(E, outcome) ==
  /\ \A e \in E : outcome \in Outcomes(status[e])
  /\ Move(E, outcome)
  /\ held' = held \ E

Next ==
  \/ \E e \in Executions :
       Submit(e) \/ Admit(e) \/ Start(e) \/ RequestCancel(e) \/ Interrupt(e)
  \/ \E E \in SUBSET Executions :
       \/ Doubt(E)
       \/ \E outcome \in {"succeeded", "failed", "timed_out", "cancelled"} : Settle(E, outcome)

Spec == Init /\ [][Next]_observed
=============================================================================
