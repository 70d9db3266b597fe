------------------------- MODULE AutomationScheduling -------------------------
(***************************************************************************)
(* The scheduling half of the Automation Service: one saved task, the      *)
(* processes that keep an in-memory wakeup for it, and the callers that    *)
(* change it.                                                              *)
(*                                                                         *)
(* Modelled from service.py, scheduler.py (MemoryScheduler), the           *)
(* schedule refresh of engine.py and the task methods of memory.py and     *)
(* _rules.py.  A Store call is one step; what a coroutine read before an   *)
(* await is kept in its record until it is used.  The Store's clock is     *)
(* read after the task: since a commit succeeds only for the definition    *)
(* that was read, both are read in one step here.                          *)
(***************************************************************************)
EXTENDS Schedules, FiniteSets

CONSTANTS
  Services,       \* processes with a started AutomationEngine
  Clients,        \* concurrent callers of task commands
  Home,           \* client -> the process whose service it calls
  Commands,       \* the task commands that callers issue
  Definitions,    \* the schedules a task may be given
  Policy,         \* the task's misfire policy
  Notifications,  \* whether the Store has a Notifications service
  MaxQueuedRuns,  \* ExecutionLimits.max_queued_runs
  MaxRevision,    \* bound: last revision of the task
  MaxCrashes,     \* bound: crashes of processes
  MaxTime         \* bound: last instant of the Store's clock

ASSUME SchedulingAssumption ==
  /\ Home \in [Clients -> Services]
  /\ Commands \subseteq {"rename", "reschedule", "pause", "enable", "delete"}
  /\ \A s \in Definitions : WellFormed(s)
  /\ ValidPolicy(Policy)
  /\ Notifications \in BOOLEAN
  /\ MaxQueuedRuns \in Nat \ {0}
  /\ MaxRevision \in Nat \ {0}
  /\ MaxCrashes \in Nat
  /\ MaxTime \in Nat

VARIABLES
  now,      \* the Store's clock
  task,     \* the saved task
  runs,     \* occurrence keys of the executions created: revision and instant
  queued,   \* how many executions of the task are queued
  first,    \* history: next_run_at when the present revision was stored
  job,      \* service -> the wakeup in its MemoryScheduler, or None
  dirty,    \* service -> _schedule_revision moved since the last inventory began
  hint,     \* service -> a task change waits in _changed_tasks
  sup,      \* service -> its supervisor's schedule refresh
  mat,      \* service -> its scheduler loop's due callback
  cmd,      \* client -> the command under way
  crashes   \* crashes so far

storeVars == <<task, runs, queued, first>>
schedulingVars == <<now, task, runs, queued, first, job, dirty, hint, sup, mat, cmd, crashes>>

Instants == Nat \cup {None}
Task == [revision : 1..MaxRevision, status : {"enabled", "paused", "deleted"},
         schedule : Definitions, next : Instants]

\* What a coroutine that has nothing under way holds.
NoTask == [revision |-> 0, status |-> "none", schedule |-> Once(0, None, None), next |-> None]
Down == [phase |-> "down", seen |-> NoTask]
Listing == [phase |-> "list", seen |-> NoTask]
Waiting == [phase |-> "idle", seen |-> NoTask]
NoCallback == [phase |-> "idle", seen |-> NoTask, at |-> 0]
NoCommand == [phase |-> "idle", seen |-> NoTask, kind |-> "none"]

\* A created task has revision 1 and a future run; no engine has started.
SchedulingInit ==
  \E s \in Definitions :
    LET t == [revision |-> 1, status |-> "enabled", schedule |-> s, next |-> NextRunAfter(s, 0)]
    IN  /\ t.next # None
        /\ now = 0
        /\ task = t
        /\ runs = {}
        /\ queued = 0
        /\ first = t.next
        /\ job = [v \in Services |-> None]
        /\ dirty = [v \in Services |-> FALSE]
        /\ hint = [v \in Services |-> FALSE]
        /\ sup = [v \in Services |-> Down]
        /\ mat = [v \in Services |-> NoCallback]
        /\ cmd = [c \in Clients |-> NoCommand]
        /\ crashes = 0

-----------------------------------------------------------------------------
Up(v) == sup[v].phase # "down"

\* What _apply_task_schedule leaves in the scheduler for a task it is given.
WakeupOf(t) == IF t.status = "enabled" THEN t.next ELSE None

\* _sync_task and _forget_task: the scheduler's lock is never held across an
\* await, so neither is interrupted.
SyncTask(v, t) ==
  /\ job' = [job EXCEPT ![v] = WakeupOf(t)]
  /\ dirty' = [dirty EXCEPT ![v] = TRUE]

\* A committed task change reaches some of the subscribed engines, and is lost
\* to the others.  _listen_for_changes invalidates the inventory of each.
Publish ==
  \E delivered \in SUBSET {v \in Services : Notifications /\ Up(v)} :
    /\ hint' = [v \in Services |-> hint[v] \/ v \in delivered]
    /\ dirty' = [v \in Services |-> dirty[v] \/ v \in delivered]

-----------------------------------------------------------------------------
(* The scheduler loop of a process: a due wakeup.                           *)

\* dispatch_due takes the wakeup out before it calls back.
DispatchDue(v) ==
  /\ mat[v].phase = "idle"
  /\ job[v] # None
  /\ job[v] <= now
  /\ job' = [job EXCEPT ![v] = None]
  /\ mat' = [mat EXCEPT ![v].phase = "due"]
  /\ UNCHANGED <<now, storeVars, dirty, hint, sup, cmd, crashes>>

\* _materialize_due_task reads the task, and forgets one that has no wakeup.
ReadDue(v) ==
  /\ mat[v].phase = "due"
  /\ IF WakeupOf(task) = None
     THEN /\ SyncTask(v, task)
          /\ mat' = [mat EXCEPT ![v] = NoCallback]
     ELSE /\ mat' = [mat EXCEPT ![v] = [phase |-> "read", seen |-> task, at |-> now]]
          /\ UNCHANGED <<job, dirty>>
  /\ UNCHANGED <<now, storeVars, hint, sup, cmd, crashes>>

\* Faulty variant: the revision is not compared.
CurrentByWakeup(seen) ==
  /\ task.next = seen.next
  /\ task.status = "enabled"

\* materialization_is_current.
MaterializationIsCurrent(seen) ==
  /\ task.next = seen.next
  /\ task.revision = seen.revision
  /\ task.status = "enabled"

Materialized(v) == MaterializeSchedule(mat[v].seen.schedule, mat[v].seen.next, mat[v].at, Policy)

\* The occurrences whose keys are not stored yet.
PendingOccurrences(v) ==
  {[revision |-> mat[v].seen.revision, at |-> x] : x \in ToSet(Materialized(v).due)} \ runs

\* require_queue_capacity.
QueueFull(v) == queued + Cardinality(PendingOccurrences(v)) > MaxQueuedRuns

\* Faulty variant: a full queue drops its occurrences and the wakeup moves on.
StoreOccurrencesDropping(v) ==
  LET stored == [mat[v].seen EXCEPT !.next = Materialized(v).next]
      pending == IF QueueFull(v) THEN {} ELSE PendingOccurrences(v)
  IN  /\ task' = stored
      /\ runs' = runs \cup pending
      /\ queued' = queued + Cardinality(pending)
      /\ Publish
      /\ mat' = [mat EXCEPT ![v].phase = "sync", ![v].seen = stored]
      /\ UNCHANGED job

\* materialize_task stores the occurrences and the advanced wakeup together;
\* a full queue stores nothing, and the wakeup is tried again later.
StoreOccurrences(v) ==
  LET pending == PendingOccurrences(v)
      stored == [mat[v].seen EXCEPT !.next = Materialized(v).next]
  IN  IF QueueFull(v)
      THEN /\ job' = [job EXCEPT ![v] = Smaller(mat[v].at + 1, MaxTime)]
           /\ dirty' = [dirty EXCEPT ![v] = TRUE]
           /\ mat' = [mat EXCEPT ![v] = NoCallback]
           /\ UNCHANGED <<task, runs, queued, hint>>
      ELSE /\ task' = stored
           /\ runs' = runs \cup pending
           /\ queued' = queued + Cardinality(pending)
           /\ Publish
           /\ mat' = [mat EXCEPT ![v].phase = "sync", ![v].seen = stored]
           /\ UNCHANGED job

MaterializeTask(v) ==
  /\ mat[v].phase = "read"
  /\ \/ /\ task.status = "deleted"
        /\ SyncTask(v, task)
        /\ mat' = [mat EXCEPT ![v] = NoCallback]
        /\ UNCHANGED <<task, runs, queued, hint>>
     \/ /\ task.status # "deleted"
        /\ ~MaterializationIsCurrent(mat[v].seen)
        /\ mat' = [mat EXCEPT ![v].phase = "sync", ![v].seen = task]
        /\ UNCHANGED <<task, runs, queued, job, dirty, hint>>
     \/ /\ task.status # "deleted"
        /\ MaterializationIsCurrent(mat[v].seen)
        /\ StoreOccurrences(v)
  /\ UNCHANGED <<now, first, sup, cmd, crashes>>

SyncMaterialized(v) ==
  /\ mat[v].phase = "sync"
  /\ SyncTask(v, mat[v].seen)
  /\ mat' = [mat EXCEPT ![v] = NoCallback]
  /\ UNCHANGED <<now, storeVars, hint, sup, cmd, crashes>>

-----------------------------------------------------------------------------
(* The supervisor of a process: startup, hints and repair.                  *)

\* start begins with an inventory of the tasks.
StartEngine(v) ==
  /\ ~Up(v)
  /\ sup' = [sup EXCEPT ![v] = Listing]
  /\ UNCHANGED <<now, storeVars, job, dirty, hint, mat, cmd, crashes>>

\* _sync_all_tasks reads the enabled tasks...
ListTasks(v) ==
  /\ sup[v].phase = "list"
  /\ sup' = [sup EXCEPT ![v] = [phase |-> "listed", seen |-> task]]
  /\ dirty' = [dirty EXCEPT ![v] = FALSE]
  /\ UNCHANGED <<now, storeVars, job, hint, mat, cmd, crashes>>

\* ... and applies them; when something moved meanwhile it starts over, and an
\* absent task is removed only when nothing did.
ApplyInventory(v) ==
  /\ sup[v].phase = "listed"
  /\ job' = IF dirty[v] /\ sup[v].seen.status # "enabled" THEN job
            ELSE [job EXCEPT ![v] = WakeupOf(sup[v].seen)]
  /\ sup' = [sup EXCEPT ![v] = IF dirty[v] THEN Listing ELSE Waiting]
  /\ UNCHANGED <<now, storeVars, dirty, hint, mat, cmd, crashes>>

\* _refresh_changes after a hint: _sync_task_id reads the task and applies it.
ReadHinted(v) ==
  /\ sup[v].phase = "idle"
  /\ hint[v]
  /\ hint' = [hint EXCEPT ![v] = FALSE]
  /\ sup' = [sup EXCEPT ![v] = [phase |-> "hinted", seen |-> task]]
  /\ UNCHANGED <<now, storeVars, job, dirty, mat, cmd, crashes>>

ApplyHinted(v) ==
  /\ sup[v].phase = "hinted"
  /\ SyncTask(v, sup[v].seen)
  /\ sup' = [sup EXCEPT ![v] = Waiting]
  /\ UNCHANGED <<now, storeVars, hint, mat, cmd, crashes>>

\* Faulty variant: an inventory is taken only when a hint has come.
RepairHinted(v) ==
  /\ hint[v]
  /\ sup[v].phase = "idle"
  /\ sup' = [sup EXCEPT ![v] = Listing]
  /\ hint' = [hint EXCEPT ![v] = FALSE]
  /\ UNCHANGED <<now, storeVars, job, dirty, mat, cmd, crashes>>

\* With notifications the supervisor takes a new inventory every 30 seconds.
Repair(v) ==
  /\ Notifications
  /\ sup[v].phase = "idle"
  /\ sup' = [sup EXCEPT ![v] = Listing]
  /\ hint' = [hint EXCEPT ![v] = FALSE]
  /\ UNCHANGED <<now, storeVars, job, dirty, mat, cmd, crashes>>

\* A process stops: its wakeups and the coroutines in it are gone.
Crash(v) ==
  /\ Up(v)
  /\ crashes < MaxCrashes
  /\ crashes' = crashes + 1
  /\ job' = [job EXCEPT ![v] = None]
  /\ dirty' = [dirty EXCEPT ![v] = FALSE]
  /\ hint' = [hint EXCEPT ![v] = FALSE]
  /\ sup' = [sup EXCEPT ![v] = Down]
  /\ mat' = [mat EXCEPT ![v] = NoCallback]
  /\ cmd' = [c \in Clients |-> IF Home[c] = v THEN NoCommand ELSE cmd[c]]
  /\ UNCHANGED <<now, storeVars>>

-----------------------------------------------------------------------------
(* Task commands: a caller reads the task, stores a replacement, and        *)
(* brings its own process's wakeup up to date.                              *)

\* The replacement that a command derives from the task it read.
Proposals(t, kind) ==
  LET bumped == [t EXCEPT !.revision = @ + 1]
  IN  CASE kind = "rename" -> {bumped}
        [] kind = "reschedule" ->
             {p \in {[bumped EXCEPT !.schedule = s,
                                    !.next = IF t.status = "enabled"
                                             THEN NextRunAfter(s, now) ELSE @]
                     : s \in Definitions} :
                t.status = "enabled" => p.next # None}
        [] kind = "pause" -> {[bumped EXCEPT !.status = "paused"]}
        [] kind = "enable" ->
             {p \in {[bumped EXCEPT !.status = "enabled",
                                    !.next = NextRunAfter(t.schedule, now)]} : p.next # None}
        [] kind = "delete" -> {[t EXCEPT !.status = "deleted"]}

ReadForCommand(c) ==
  /\ cmd[c].phase = "idle"
  /\ Up(Home[c])
  /\ task.status # "deleted"
  /\ task.revision < MaxRevision
  /\ \E kind \in Commands : \E p \in Proposals(task, kind) :
       cmd' = [cmd EXCEPT ![c] = [phase |-> "read", seen |-> p, kind |-> kind]]
  /\ UNCHANGED <<now, storeVars, job, dirty, hint, sup, mat, crashes>>

ExpectedRevision(c) ==
  IF cmd[c].kind = "delete" THEN cmd[c].seen.revision ELSE cmd[c].seen.revision - 1

\* update_task and delete_task compare the revision; a delete cancels the
\* executions that have not started.
StoreCommand(c) ==
  /\ cmd[c].phase = "read"
  /\ task.status # "deleted"
  /\ task.revision = ExpectedRevision(c)
  /\ task' = IF cmd[c].kind = "delete" THEN [task EXCEPT !.status = "deleted"] ELSE cmd[c].seen
  /\ first' = task'.next
  /\ queued' = IF cmd[c].kind = "delete" THEN 0 ELSE queued
  /\ Publish
  /\ cmd' = [cmd EXCEPT ![c].phase =
               IF cmd[c].kind \in {"rename", "reschedule"} THEN "stored" ELSE "sync"]
  /\ UNCHANGED <<now, runs, job, sup, mat, crashes>>

\* TaskConflictError or TaskNotFoundError.
RefuseCommand(c) ==
  /\ cmd[c].phase = "read"
  /\ task.status = "deleted" \/ task.revision # ExpectedRevision(c)
  /\ cmd' = [cmd EXCEPT ![c] = NoCommand]
  /\ UNCHANGED <<now, storeVars, job, dirty, hint, sup, mat, crashes>>

\* _sync_task_id after an update; pause and enable apply what they stored.
ReadStored(c) ==
  /\ cmd[c].phase = "stored"
  /\ cmd' = [cmd EXCEPT ![c].phase = "sync", ![c].seen = task]
  /\ UNCHANGED <<now, storeVars, job, dirty, hint, sup, mat, crashes>>

SyncCommand(c) ==
  /\ cmd[c].phase = "sync"
  /\ SyncTask(Home[c], cmd[c].seen)
  /\ cmd' = [cmd EXCEPT ![c] = NoCommand]
  /\ UNCHANGED <<now, storeVars, hint, sup, mat, crashes>>

-----------------------------------------------------------------------------
(* The surroundings: workers start queued executions, and time passes.      *)

StartQueued ==
  /\ queued > 0
  /\ queued' = queued - 1
  /\ UNCHANGED <<now, task, runs, first, job, dirty, hint, sup, mat, cmd, crashes>>

ClockTick ==
  /\ now < MaxTime
  /\ now' = now + 1
  /\ UNCHANGED <<storeVars, job, dirty, hint, sup, mat, cmd, crashes>>

LoopStep(v) == DispatchDue(v) \/ ReadDue(v) \/ MaterializeTask(v) \/ SyncMaterialized(v)
RefreshStep(v) == ListTasks(v) \/ ApplyInventory(v) \/ ReadHinted(v) \/ ApplyHinted(v)
CommandStep(c) == StoreCommand(c) \/ RefuseCommand(c) \/ ReadStored(c) \/ SyncCommand(c)

SchedulingNext ==
  \/ \E v \in Services : \/ LoopStep(v) \/ RefreshStep(v)
                         \/ StartEngine(v) \/ Repair(v) \/ Crash(v)
  \/ \E c \in Clients : ReadForCommand(c) \/ CommandStep(c)
  \/ StartQueued
  \/ ClockTick

SchedulingSpec == SchedulingInit /\ [][SchedulingNext]_schedulingVars

\* In the processes of V, every coroutine that waits for the Store or for its
\* turn goes on, and a stopped process is started again; queued executions are
\* started, and time passes.  An inventory comes round although hints may always
\* be waiting.
SchedulingFairness(V) ==
  /\ \A v \in V :
       /\ WF_schedulingVars(LoopStep(v))
       /\ WF_schedulingVars(RefreshStep(v))
       /\ WF_schedulingVars(StartEngine(v))
       /\ SF_schedulingVars(Repair(v))
  /\ \A c \in Clients : WF_schedulingVars(CommandStep(c))
  /\ WF_schedulingVars(StartQueued)
  /\ WF_schedulingVars(ClockTick)

-----------------------------------------------------------------------------
(* Properties.                                                              *)

\* Every variable has its type; in particular the queue keeps its limit.
SchedulingTypeOK ==
  /\ now \in 0..MaxTime
  /\ task \in Task
  /\ \A r \in runs : r.revision \in 1..MaxRevision /\ r.at \in 0..MaxTime
  /\ queued \in 0..MaxQueuedRuns
  /\ first \in Instants
  /\ job \in [Services -> Instants]
  /\ dirty \in [Services -> BOOLEAN]
  /\ hint \in [Services -> BOOLEAN]
  /\ \A v \in Services :
       /\ sup[v].phase \in {"down", "list", "listed", "hinted", "idle"} /\ sup[v].seen \in Task \cup {NoTask}
       /\ mat[v].phase \in {"idle", "due", "read", "sync"} /\ mat[v].seen \in Task \cup {NoTask}
  /\ \A c \in Clients :
       cmd[c].phase \in {"idle", "read", "stored", "sync"} /\ cmd[c].seen \in Task \cup {NoTask}
  /\ crashes \in 0..MaxCrashes

\* A change that the Store has accepted is never undone by a scheduler that
\* works on an older copy of the task: the revision does not go back, a revision
\* keeps its definition, and a deleted task stays deleted (materialize_task
\* writes a whole task).
AcceptedChangesStay ==
  [][/\ task'.revision >= task.revision
     /\ task'.revision = task.revision =>
          task'.schedule = task.schedule /\ task'.status \in {task.status, "deleted"}
     /\ task.status = "deleted" => task' = task]_schedulingVars

\* A run is created only for the definition in force, while it is enabled: a
\* wakeup that was already under way when the task was paused, changed or
\* deleted creates nothing (_materialize_due_task against pause_task).
RunsFollowDefinition ==
  [][\A r \in runs' \ runs :
       /\ task.status = "enabled"
       /\ r.revision = task.revision
       /\ r.at >= task.next]_schedulingVars

\* Two schedulers at the same wakeup never move it back, and a task whose last
\* run is past gets no further wakeup, until its definition changes.
WakeupAdvances ==
  [][task'.revision = task.revision /\ task'.next # task.next =>
       task.next # None /\ (task'.next = None \/ task'.next > task.next)]_schedulingVars

\* A policy that catches up everything that can be missed.
CatchesUp == Policy.mode = "catch_up" /\ Policy.window >= MaxTime /\ Policy.maxCatchUp > MaxTime

\* With a policy that catches up everything, each instant that the wakeup has
\* passed was turned into a run, whatever the races, crashes and full queues on
\* the way.
NothingLost ==
  LET passed == {x \in Occurrences(task.schedule, 2 * MaxTime) :
                   first # None /\ first <= x /\ (task.next = None \/ x < task.next)}
  IN  CatchesUp /\ task.status = "enabled" =>
        \A x \in passed : [revision |-> task.revision, at |-> x] \in runs

Overdue == WakeupOf(task) # None /\ WakeupOf(task) <= now

\* A wakeup that is due is materialized, or the task changes: no order of
\* commands, hints and wakeups leaves an enabled task without its scheduler job
\* for good.
DueTaskIsMaterialized == Overdue ~> ~Overdue
\* The state of the task and of its schedulers is well formed and no run is lost.
SchedulingInvariant == SchedulingTypeOK /\ NothingLost

\* Work that was prepared from an older copy of the task changes nothing:
\* AcceptedChangesStay, RunsFollowDefinition and WakeupAdvances.
StaleWorkIsHarmless == AcceptedChangesStay /\ RunsFollowDefinition /\ WakeupAdvances
=============================================================================
