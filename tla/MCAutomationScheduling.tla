----------------------- MODULE MCAutomationScheduling -----------------------
(***************************************************************************)
(* The schedules of Automation on small instances: the wakeups of one task *)
(* for every small schedule, active period and policy, and one task shared *)
(* by two processes.  The two touch disjoint state, so a behaviour is      *)
(* about one of them.                                                      *)
(***************************************************************************)
EXTENDS AutomationScheduling, ScheduleWakeups

CONSTANTS v1, v2, c1

MCHome == [c \in Clients |-> v1]
MCDefinitions == {Interval(1, 1, None, 3), Once(2, None, None)}
MCCatchUp == [mode |-> "catch_up", grace |-> 0, window |-> 10, maxCatchUp |-> 10]

Periods == {<<f, u>> \in {None, 0, 2, 3} \X {None, 1, 4, 5} :
              f # None /\ u # None => f < u}

MCSchedules ==
  UNION {{Once(at, p[1], p[2]) : at \in 0..5}
         \cup {Interval(start, every, p[1], p[2]) : start \in 0..4, every \in 1..3}
         \cup {Cron(instants, p[1], p[2]) : instants \in {{1, 2, 5}, {3, 4}, {2, 4, 6}}}
         : p \in Periods}

MCPolicies ==
  {[mode |-> "skip", grace |-> g, window |-> 1, maxCatchUp |-> 1] : g \in 0..2}
  \cup {[mode |-> "latest", grace |-> 0, window |-> w, maxCatchUp |-> 1] : w \in {1, 2, 6}}
  \cup {[mode |-> "catch_up", grace |-> 0, window |-> w, maxCatchUp |-> m] :
          w \in {1, 6}, m \in {1, 2, 6}}

VARIABLE about  \* what the behaviour is about

MCVars == <<about, schedulingVars, wakeupVars>>

\* Some task for the behaviours that are not about wakeups.
AnyTask ==
  /\ schedule = Once(1, None, None)
  /\ policy = MCCatchUp
  /\ clock = 0
  /\ next = 1
  /\ created = <<>>

MCInit ==
  /\ SchedulingInit /\ task.schedule.kind = "interval"
  /\ \/ about = "wakeups" /\ CreateTask
     \/ about = "services" /\ AnyTask

\* Bound: a behaviour has one disturbance, a second process that takes one inventory, a
\* crash, or a command.
Commanded == cmd[c1].phase # "idle" \/ task.revision > 1
OneDisturbance ==
  /\ sup[v2].phase # "down" => crashes = 0
  /\ Commanded => crashes = 0 /\ sup[v2].phase = "down"
OneInventory == sup[v2].phase = "idle" => sup'[v2].phase # "list"

BoundedNext == SchedulingNext /\ OneDisturbance' /\ OneInventory

MCNext ==
  /\ \/ about = "wakeups" /\ (Wake \/ Sleep) /\ UNCHANGED schedulingVars
     \/ about = "services" /\ BoundedNext /\ UNCHANGED wakeupVars
  /\ UNCHANGED about

\* One process that keeps running is enough.
MCSpec == MCInit /\ [][MCNext]_MCVars /\ (about = "services" => SchedulingFairness({v1}))
=============================================================================
