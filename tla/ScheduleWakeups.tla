-------------------------- MODULE ScheduleWakeups --------------------------
(***************************************************************************)
(* The wakeups of one saved task in a single process: the schedule         *)
(* arithmetic of Schedules applied again and again to the next_run_at that *)
(* the task persists, with the worker away for any length of time.         *)
(***************************************************************************)
EXTENDS Schedules

CONSTANTS
  ScheduleSet,   \* the schedules a task may have
  PolicySet,     \* the misfire policies
  WakeupHorizon \* bound: last instant of the clock

ASSUME WakeupAssumption ==
  /\ WakeupHorizon \in Nat
  /\ \A p \in PolicySet : ValidPolicy(p)
  /\ \A s \in ScheduleSet : WellFormed(s)

VARIABLES
  schedule,
  policy,
  clock,
  next,    \* next_run_at
  created \* scheduled_for of the executions created so far, in order

wakeupVars == <<schedule, policy, clock, next, created>>

\* create_task refuses a schedule without a future run.
CreateTask ==
  /\ clock = 0
  /\ created = <<>>
  /\ schedule \in ScheduleSet
  /\ policy \in PolicySet
  /\ next = NextRunAfter(schedule, clock)
  /\ next # None

\* A wakeup, early, on time or late.
Wake ==
  /\ next # None
  /\ LET result == MaterializeSchedule(schedule, next, clock, policy)
     IN  /\ next' = result.next
         /\ created' = created \o result.due
  /\ UNCHANGED <<schedule, policy, clock>>

Sleep ==
  /\ \E t \in (clock + 1)..WakeupHorizon : clock' = t
  /\ UNCHANGED <<schedule, policy, next, created>>

WakeupSpec == CreateTask /\ [][Wake \/ Sleep]_wakeupVars

-----------------------------------------------------------------------------
Selected == Occurrences(schedule, 2 * WakeupHorizon)

LeastOf(S) == IF S = {} THEN None ELSE Min(S)

\* n is the first instant that the schedule selects after t, or None if there is none.
IsFirstAfter(t, n) ==
  n = LeastOf({x \in Occurrences(schedule, Larger(2 * WakeupHorizon, n)) : x > t})

\* next_run_after is the first selected instant strictly after the clock, for
\* every kind of schedule and every active period.
NextRunIsFirst == IsFirstAfter(clock, NextRunAfter(schedule, clock))

\* However late a wakeup comes and whatever the policy drops, it leaves behind
\* the first selected instant after the clock: materialize_schedule neither
\* stays behind with what it passed over nor skips a future run.
WakeupIsAccurate ==
  [][clock' = clock => IsFirstAfter(clock, next')]_wakeupVars

\* What the policies promise of the created a wakeup creates: skip created the
\* missed instant within its grace, latest the last missed one of the window,
\* catch_up the oldest of the window up to its maximum.
PolicyIsKept ==
  LET missed == {x \in Selected : next <= x /\ x <= clock}
      recent == {x \in missed : x >= clock - policy.window}
      due == MaterializeSchedule(schedule, next, clock, policy).due
  IN  next # None =>
        CASE policy.mode = "skip" ->
               ToSet(due) = {x \in missed : x = Min(missed) /\ x >= clock - policy.grace}
          [] policy.mode = "latest" -> ToSet(due) = {x \in recent : x = Max(recent)}
          [] policy.mode = "catch_up" ->
               /\ ToSet(due) \subseteq recent
               /\ Len(due) = Smaller(policy.maxCatchUp, Cardinality(recent))
               /\ \A x \in ToSet(due), y \in recent \ ToSet(due) : x < y

\* However often and however late the wakeups come, an instant is run once:
\* the created are in strictly increasing order and in the past.
NothingRunsTwice ==
  /\ \A i, j \in DOMAIN created : i < j => created[i] < created[j]
  /\ \A i \in DOMAIN created : created[i] <= clock

\* With a catch_up policy that is wide enough, no selected instant since the
\* creation is passed over.
NothingIsMissed ==
  policy.mode = "catch_up" /\ policy.window >= WakeupHorizon /\ policy.maxCatchUp >= WakeupHorizon =>
    \A x \in Selected :
      0 < x /\ (next = None \/ x < next) => x \in ToSet(created)
\* The arithmetic and the wakeups agree for every schedule, period and policy: runs come
\* at the instants the schedule selects, each once, as the policy promises.
WakeupsFollowSchedule ==
  [](NextRunIsFirst /\ PolicyIsKept /\ NothingRunsTwice /\ NothingIsMissed) /\ WakeupIsAccurate
=============================================================================
