-------------------------- MODULE AutomationStore --------------------------
(***************************************************************************)
(* The execution half of the Automation Store: executions, work items,     *)
(* leased and fenced claims, and shared admission capacity.                *)
(*                                                                         *)
(* Modelled from memory.py and the rules in _rules.py that it shares with  *)
(* the SQL store.  Every method runs under one asyncio lock and reads the  *)
(* storage clock once, so it is one action; the loop of claim_work is the  *)
(* exception: it is one action per candidate, with the lock held in        *)
(* `scan`.                                                                 *)
(*                                                                         *)
(* A claim is a capability that a worker keeps after it has been lost, so  *)
(* every claim operation may be attempted with any claim ever issued: a    *)
(* worker that stopped, is late or repeats a call is the choice not to, or *)
(* to, take such a step.                                                   *)
(***************************************************************************)
EXTENDS Integers, FiniteSets

CONSTANTS
  Executions,         \* execution identities that may ever be created
  Tasks,              \* saved tasks
  Owner,              \* the scope of work submitted without a task
  Global,             \* the namespace-wide capacity scope
  ScopeOf,            \* execution -> the task, or Owner, that limits it
  GlobalConcurrency,  \* AutomationEngine.global_concurrency
  MaxConcurrentRuns,  \* ExecutionLimits.max_concurrent_runs
  MaxQueuedRuns,      \* ExecutionLimits.max_queued_runs
  MaxWorkItems,       \* MemoryStoreLimits.max_work_items
  QueueTimeout,       \* ExecutionLimits.queue_timeout
  ExecutionTimeout,   \* ExecutionLimits.execution_timeout
  LeaseDuration,      \* AutomationEngine.lease_duration
  MaxBatch,           \* bound: largest limit passed to claim_work
  EnqueueHorizon,     \* bound: last instant at which work is submitted
  MaxTime             \* bound: last instant of the storage clock

Scopes == Tasks \cup {Owner}

ASSUME ScopeAssumption ==
  /\ IsFiniteSet(Executions)
  /\ Global \notin Scopes
  /\ ScopeOf \in [Executions -> Scopes]

ASSUME LimitAssumption ==
  /\ GlobalConcurrency \in Nat \ {0}
  /\ MaxConcurrentRuns \in Nat \ {0}
  /\ MaxQueuedRuns \in Nat \ {0}
  /\ MaxWorkItems \in Nat \ {0}
  /\ MaxBatch \in Nat \ {0}

ASSUME TimeAssumption ==
  /\ QueueTimeout \in Nat \ {0}
  /\ ExecutionTimeout \in Nat \ {0}
  /\ LeaseDuration \in Nat \ {0}
  /\ EnqueueHorizon \in Nat
  /\ MaxTime \in Nat

VARIABLES
  now,                \* the storage clock
  tasks,              \* saved tasks that have not been deleted
  status,             \* execution -> ExecutionStatus, or "absent"
  queueDeadline,
  executionDeadline,  \* NoTime until the start is authorized
  authorized,         \* executions whose start_authorized_at is set
  work,               \* work item -> its record
  admitted,           \* executions that hold capacity
  allocated,          \* capacity scope -> units in use
  scan                \* the claim_work call that holds the lock, or NoScan

vars == <<now, tasks, status, queueDeadline, executionDeadline, authorized,
          work, admitted, allocated, scan>>

NoTime == 0

Terminal == {"succeeded", "failed", "timed_out", "cancelled"}
Started == {"running", "cancel_requested"}
Statuses == {"queued", "interrupted", "needs_attention"} \cup Started \cup Terminal
Retryable == {"failed", "timed_out", "cancelled"}
Resolutions == {"succeeded", "failed", "cancelled"}

Kinds == {"execute", "expire_interrupt"}
Items == Executions \X Kinds
ExecuteItem(e) == <<e, "execute">>
ExpireItem(e) == <<e, "expire_interrupt">>

WorkItem == [status : {"absent", "pending", "claimed", "completed"},
             availableAt : Nat, fence : Nat, leaseUntil : Nat]
NoWork == [status |-> "absent", availableAt |-> 0, fence |-> 0, leaseUntil |-> NoTime]
NoScan == [lock |-> "free", limit |-> 0, todo |-> {}, granted |-> 0]

Init ==
  /\ now = 0
  /\ tasks = Tasks
  /\ status = [e \in Executions |-> "absent"]
  /\ queueDeadline = [e \in Executions |-> NoTime]
  /\ executionDeadline = [e \in Executions |-> NoTime]
  /\ authorized = {}
  /\ work = [i \in Items |-> NoWork]
  /\ admitted = {}
  /\ allocated = [s \in Scopes \cup {Global} |-> 0]
  /\ scan = NoScan

-----------------------------------------------------------------------------
(* Rules shared by the operations.                                          *)

Unlocked == scan.lock = "free"

\* The executions of A that draw on the capacity scope s.
Members(s, A) == {e \in A : s = Global \/ ScopeOf[e] = s}

QueuedIn(s) == {e \in Executions : ScopeOf[e] = s /\ status[e] = "queued"}

SavedWork == {i \in Items : work[i].status # "absent"}

\* Every claim ever issued: the n-th grant of an item carries fence n.
Claims == UNION {{[item |-> i, fence |-> f] : f \in 1..work[i].fence} : i \in Items}

\* Faulty variant: a claim is recognised by its fence alone.
ValidClaimByFence(c) == work[c.item].fence = c.fence

\* _valid_claim: the token is drawn anew with every grant, as the fence is.
ValidClaim(c) ==
  /\ work[c.item].status = "claimed"
  /\ work[c.item].fence = c.fence
  /\ work[c.item].leaseUntil > now

Completed(item) ==
  IF item.status = "absent" THEN item
  ELSE [item EXCEPT !.status = "completed", !.leaseUntil = NoTime]

\* _complete_execution_work, for every execution of E.
CompleteAll(E) == [i \in Items |-> IF i[1] \in E THEN Completed(work[i]) ELSE work[i]]

CompleteCurrent(i) == [work EXCEPT ![i] = Completed(@)]

\* _create_work reuses the item of the same execution and kind, fence included.
Created(item, at) ==
  [item EXCEPT !.status = "pending", !.availableAt = at, !.leaseUntil = NoTime]

\* Faulty variant: a full scope still admits one more.
CanReserveOneMore(e) ==
  \/ e \in admitted
  \/ /\ allocated[Global] <= GlobalConcurrency
     /\ allocated[ScopeOf[e]] <= MaxConcurrentRuns

\* _reserve_scopes: an execution that is still admitted keeps its units.
CanReserve(e) ==
  \/ e \in admitted
  \/ /\ allocated[Global] < GlobalConcurrency
     /\ allocated[ScopeOf[e]] < MaxConcurrentRuns

\* Faulty variant: a reclaimed execution is counted again.
ReserveScopesAgain(e) ==
  /\ admitted' = admitted \cup {e}
  /\ allocated' = [s \in DOMAIN allocated |-> allocated[s] + Cardinality(Members(s, {e}))]

ReserveScopes(e) ==
  /\ admitted' = admitted \cup {e}
  /\ allocated' = [s \in DOMAIN allocated |->
                     allocated[s] + Cardinality(Members(s, {e} \ admitted))]

\* Faulty variant: units are returned that were never reserved.
ReleaseScopesUnreserved(E) ==
  /\ admitted' = admitted \ E
  /\ allocated' = [s \in DOMAIN allocated |-> allocated[s] - Cardinality(Members(s, E))]

\* _release_scopes, for every execution of E: a scope never goes below zero.
ReleaseScopes(E) ==
  LET left(s) == allocated[s] - Cardinality(Members(s, E \cap admitted))
  IN  /\ admitted' = admitted \ E
      /\ allocated' = [s \in DOMAIN allocated |-> IF left(s) > 0 THEN left(s) ELSE 0]

-----------------------------------------------------------------------------
(* Commands: submission, cancellation, resolution, task deletion.           *)

\* What enqueue_execution stores once its conditions hold.
Enqueue(e) ==
  /\ Unlocked
  /\ now <= EnqueueHorizon
  /\ status[e] = "absent"
  /\ Cardinality(QueuedIn(ScopeOf[e])) + 1 <= MaxQueuedRuns
  /\ Cardinality(SavedWork) < MaxWorkItems
  /\ status' = [status EXCEPT ![e] = "queued"]
  /\ queueDeadline' = [queueDeadline EXCEPT ![e] = now + QueueTimeout]
  /\ work' = [work EXCEPT ![ExecuteItem(e)] = Created(@, now)]
  /\ UNCHANGED <<now, tasks, executionDeadline, authorized, admitted, allocated, scan>>

EnqueueExecution(e) ==
  /\ ScopeOf[e] \in tasks \cup {Owner}
  /\ Enqueue(e)

\* retry_execution: a new execution, in the scope of a finished one; the task
\* need not exist any more.
RetryExecution(original, e) ==
  /\ status[original] \in Retryable
  /\ ScopeOf[e] = ScopeOf[original]
  /\ Enqueue(e)

\* Faulty variant: cancelling queued work leaves its claim usable.
CancelExecutionOnly(e) ==
  /\ Unlocked
  /\ \/ /\ status[e] \in {"queued", "interrupted"}
        /\ status' = [status EXCEPT ![e] = "cancelled"]
        /\ ReleaseScopes({e})
     \/ /\ status[e] = "running"
        /\ status' = [status EXCEPT ![e] = "cancel_requested"]
        /\ UNCHANGED <<admitted, allocated>>
  /\ UNCHANGED <<now, tasks, queueDeadline, executionDeadline, authorized, work, scan>>

\* Only unstarted or interrupted work is cancelled here; a running target is
\* asked to stop.
CancelExecution(e) ==
  /\ Unlocked
  /\ \/ /\ status[e] \in {"queued", "interrupted"}
        /\ status' = [status EXCEPT ![e] = "cancelled"]
        /\ work' = CompleteAll({e})
        /\ ReleaseScopes({e})
     \/ /\ status[e] = "running"
        /\ status' = [status EXCEPT ![e] = "cancel_requested"]
        /\ UNCHANGED <<work, admitted, allocated>>
  /\ UNCHANGED <<now, tasks, queueDeadline, executionDeadline, authorized, scan>>

ResolveExecution(e, resolution) ==
  /\ Unlocked
  /\ status[e] = "needs_attention"
  /\ status' = [status EXCEPT ![e] = resolution]
  /\ ReleaseScopes({e})
  /\ UNCHANGED <<now, tasks, queueDeadline, executionDeadline, authorized, work, scan>>

DeleteTask(t) ==
  /\ Unlocked
  /\ t \in tasks
  /\ tasks' = tasks \ {t}
  /\ LET E == QueuedIn(t)
     IN  /\ status' = [e \in Executions |-> IF e \in E THEN "cancelled" ELSE status[e]]
         /\ work' = CompleteAll(E)
         /\ ReleaseScopes(E)
  /\ UNCHANGED <<now, queueDeadline, executionDeadline, authorized, scan>>

-----------------------------------------------------------------------------
(* claim_work.  ClaimWork takes the lock, recovers every expired claim and  *)
(* collects the due candidates; each Visit handles the next one; ReturnBatch *)
(* releases the lock.  Candidates are visited by available_at; its ties,    *)
(* which the code breaks by creation time and random identity, are left     *)
(* open.                                                                    *)

Expired(i) == work[i].status = "claimed" /\ work[i].leaseUntil <= now

\* Faulty variant: only the status "running" counts as started.
LostWhileRunning(i) == Expired(i) /\ i[2] = "execute" /\ status[i[1]] = "running"

\* recover_expired_claim: a started execution is not run again.
LostAfterStart(i) == Expired(i) /\ i[2] = "execute" /\ i[1] \in authorized

RecoverWork ==
  [i \in Items |->
     IF LostAfterStart(i) THEN Completed(work[i])
     ELSE IF Expired(i) THEN [work[i] EXCEPT !.status = "pending", !.leaseUntil = NoTime]
     ELSE work[i]]

RecoverStatus ==
  [e \in Executions |-> IF LostAfterStart(ExecuteItem(e)) THEN "needs_attention" ELSE status[e]]

Due(items) == {i \in Items : items[i].status = "pending" /\ items[i].availableAt <= now}

ClaimWork(limit) ==
  /\ Unlocked
  /\ work' = RecoverWork
  /\ status' = RecoverStatus
  /\ scan' = [lock |-> "held", limit |-> limit, todo |-> Due(RecoverWork), granted |-> 0]
  /\ UNCHANGED <<now, tasks, queueDeadline, executionDeadline, authorized, admitted, allocated>>

BatchDone == scan.todo = {} \/ (scan.limit > 0 /\ scan.granted = scan.limit)

\* The candidate i is next; what it does to the scan.
Advance(i, grants) ==
  /\ ~Unlocked
  /\ ~BatchDone
  /\ i \in scan.todo
  /\ \A j \in scan.todo : work[i].availableAt <= work[j].availableAt
  /\ scan' = [scan EXCEPT !.todo = @ \ {i}, !.granted = @ + grants]

\* claim_candidate: the item no longer has anything to do.
Obsolete(i) ==
  status[i[1]] # (IF i[2] = "execute" THEN "queued" ELSE "interrupted")

QueueExpired(i) ==
  i[2] = "execute" /\ status[i[1]] = "queued" /\ queueDeadline[i[1]] <= now

Claimable(i) == ~Obsolete(i) /\ ~QueueExpired(i)

\* claim_candidate has a transition: queued work past its deadline is settled
\* and returns the unit that an earlier, lost claim had reserved.  It would also
\* complete an obsolete item, but NothingStranded leaves none to be a candidate.
VisitTransition(i) ==
  /\ Advance(i, 0)
  /\ ~Claimable(i)
  /\ status' = IF QueueExpired(i) THEN [status EXCEPT ![i[1]] = "timed_out"] ELSE status
  /\ work' = CompleteCurrent(i)
  /\ ReleaseScopes({e \in {i[1]} : QueueExpired(i)})
  /\ UNCHANGED <<now, tasks, queueDeadline, executionDeadline, authorized>>

\* A caller without free capacity (limit 0) settles due interrupts itself.
VisitExpireInterrupted(i) ==
  /\ Advance(i, 0)
  /\ Claimable(i)
  /\ scan.limit = 0
  /\ i[2] = "expire_interrupt"
  /\ executionDeadline[i[1]] <= now
  /\ status' = [status EXCEPT ![i[1]] = "timed_out"]
  /\ work' = CompleteAll({i[1]})
  /\ ReleaseScopes({i[1]})
  /\ UNCHANGED <<now, tasks, queueDeadline, executionDeadline, authorized>>

VisitSkip(i) ==
  /\ Advance(i, 0)
  /\ Claimable(i)
  /\ i[2] = "execute"
  /\ scan.limit = 0 \/ ~CanReserve(i[1])
  /\ UNCHANGED <<now, tasks, status, queueDeadline, executionDeadline, authorized, work,
                 admitted, allocated>>

\* Faulty variant: every grant of an item carries the same fence.
GrantedUnfenced(item) ==
  [item EXCEPT !.status = "claimed", !.fence = 1, !.leaseUntil = now + LeaseDuration]

Granted(item) ==
  [item EXCEPT !.status = "claimed", !.fence = @ + 1, !.leaseUntil = now + LeaseDuration]

VisitGrant(i) ==
  /\ Advance(i, 1)
  /\ Claimable(i)
  /\ scan.limit > 0
  /\ \/ i[2] = "execute" /\ CanReserve(i[1]) /\ ReserveScopes(i[1])
     \/ i[2] = "expire_interrupt" /\ UNCHANGED <<admitted, allocated>>
  /\ work' = [work EXCEPT ![i] = Granted(@)]
  /\ UNCHANGED <<now, tasks, status, queueDeadline, executionDeadline, authorized>>

Visit(i) ==
  \/ VisitTransition(i)
  \/ VisitExpireInterrupted(i)
  \/ VisitSkip(i)
  \/ VisitGrant(i)

ReturnBatch ==
  /\ ~Unlocked
  /\ BatchDone
  /\ scan' = NoScan
  /\ UNCHANGED <<now, tasks, status, queueDeadline, executionDeadline, authorized, work,
                 admitted, allocated>>

-----------------------------------------------------------------------------
(* Operations of a claim holder.  With an invalid claim each of them raises *)
(* ClaimLostError and changes nothing.                                      *)

RenewClaim(c) ==
  /\ Unlocked
  /\ ValidClaim(c)
  /\ work' = [work EXCEPT ![c.item].leaseUntil = now + LeaseDuration]
  /\ UNCHANGED <<now, tasks, status, queueDeadline, executionDeadline, authorized, admitted,
                 allocated, scan>>

AuthorizeStart(c) ==
  LET e == c.item[1]
  IN  /\ Unlocked
      /\ ValidClaim(c)
      /\ c.item[2] = "execute"
      /\ e \notin authorized
      /\ status[e] = "queued"
      /\ e \in admitted
      /\ status' = [status EXCEPT ![e] = "running"]
      /\ executionDeadline' = [executionDeadline EXCEPT ![e] = now + ExecutionTimeout]
      /\ authorized' = authorized \cup {e}
      /\ UNCHANGED <<now, tasks, queueDeadline, work, admitted, allocated, scan>>

\* The interrupted execution keeps its capacity and its original deadline.
MarkInterrupted(c) ==
  LET e == c.item[1]
  IN  /\ Unlocked
      /\ ValidClaim(c)
      /\ executionDeadline[e] # NoTime
      /\ \/ work[ExpireItem(e)].status # "absent"
         \/ Cardinality(SavedWork) < MaxWorkItems
      /\ status' = [status EXCEPT ![e] = "interrupted"]
      /\ work' = [CompleteCurrent(c.item) EXCEPT
                    ![ExpireItem(e)] = Created(@, executionDeadline[e])]
      /\ UNCHANGED <<now, tasks, queueDeadline, executionDeadline, authorized, admitted,
                     allocated, scan>>

FinishExecution(c, outcome) ==
  LET e == c.item[1]
  IN  /\ Unlocked
      /\ ValidClaim(c)
      /\ outcome \in Terminal \cup {"needs_attention"}
      /\ status' = [status EXCEPT ![e] = outcome]
      /\ work' = CompleteAll({e})
      /\ IF outcome \in Terminal THEN ReleaseScopes({e}) ELSE UNCHANGED <<admitted, allocated>>
      /\ UNCHANGED <<now, tasks, queueDeadline, executionDeadline, authorized, scan>>

-----------------------------------------------------------------------------
Tick ==
  /\ Unlocked
  /\ now < MaxTime
  /\ now' = now + 1
  /\ UNCHANGED <<tasks, status, queueDeadline, executionDeadline, authorized, work, admitted,
                 allocated, scan>>

Command ==
  \/ \E e \in Executions :
       \/ EnqueueExecution(e)
       \/ \E original \in Executions : RetryExecution(original, e)
       \/ CancelExecution(e)
       \/ \E resolution \in Resolutions : ResolveExecution(e, resolution)
  \/ \E t \in Tasks : DeleteTask(t)

Claiming ==
  \/ \E limit \in 0..MaxBatch : ClaimWork(limit)
  \/ \E i \in Items : Visit(i)
  \/ ReturnBatch

\* What the engine, the only holder of claims, does with one (engine.py,
\* _process_claim): a deadline check is settled as timed out, and before its
\* start an execution can only be failed, for want of its target.
Holding ==
  \E c \in Claims :
    \/ RenewClaim(c)
    \/ AuthorizeStart(c)
    \/ c.item[2] = "execute" /\ MarkInterrupted(c)
    \/ \E outcome \in Terminal \cup {"needs_attention"} :
         /\ c.item[2] = "expire_interrupt" => outcome = "timed_out"
         /\ c.item[1] \notin authorized => outcome = "failed"
         /\ FinishExecution(c, outcome)

Next == Command \/ Claiming \/ Holding \/ Tick

Spec == Init /\ [][Next]_vars
-----------------------------------------------------------------------------
(* Properties.                                                              *)

\* Every variable has its type.
TypeOK ==
  /\ now \in Nat
  /\ tasks \in SUBSET Tasks
  /\ status \in [Executions -> Statuses \cup {"absent"}]
  /\ queueDeadline \in [Executions -> Nat]
  /\ executionDeadline \in [Executions -> Nat]
  /\ authorized \in SUBSET Executions
  /\ work \in [Items -> WorkItem]
  /\ admitted \in SUBSET Executions
  /\ allocated \in [Scopes \cup {Global} -> Nat]
  /\ scan \in [lock : {"free", "held"}, limit : Nat, todo : SUBSET Items, granted : Nat]

\* The concurrency limits, namespace-wide and per task or owner.
WithinLimits(A) ==
  /\ Cardinality(Members(Global, A)) <= GlobalConcurrency
  /\ \A s \in Scopes : Cardinality(Members(s, A)) <= MaxConcurrentRuns

\* The unit counters of _scope_allocations are exactly the executions of
\* _admitted, in the namespace and in each task or owner, and never exceed
\* the concurrency limits: no path reserves or releases a unit twice.
CapacityExact ==
  /\ \A s \in Scopes \cup {Global} : allocated[s] = Cardinality(Members(s, admitted))
  /\ WithinLimits(admitted)

\* A target that may still be running holds a unit (an execution needing
\* attention included), a finished execution holds none, and no claim to run
\* exists without a unit.
CapacityHeld ==
  \A e \in Executions :
    /\ status[e] \in Started \cup {"interrupted", "needs_attention"} => e \in admitted
    /\ status[e] \in Terminal \cup {"absent"} => e \notin admitted
    /\ work[ExecuteItem(e)].status = "claimed" => e \in admitted

Live(i) == work[i].status \in {"pending", "claimed"}

\* Whatever lost claims, cancellations and deletions came before: unfinished
\* work has the work item that will move it on (a started execution a claim
\* whose loss is noticed, an interrupted one a deadline check at its original
\* deadline), finished or uncertain work has none.
NothingStranded ==
  \A e \in Executions :
    /\ status[e] = "queued" => Live(ExecuteItem(e)) /\ ~Live(ExpireItem(e))
    /\ status[e] \in Started =>
         work[ExecuteItem(e)].status = "claimed" /\ ~Live(ExpireItem(e))
    /\ status[e] = "interrupted" =>
         /\ ~Live(ExecuteItem(e))
         /\ Live(ExpireItem(e))
         /\ work[ExpireItem(e)].availableAt = executionDeadline[e]
    /\ status[e] \in Terminal \cup {"absent", "needs_attention"} =>
         ~Live(ExecuteItem(e)) /\ ~Live(ExpireItem(e))

\* The authorization record agrees with the status: what is queued was never
\* started, what runs or was interrupted was, and has its deadline.
StartRecorded ==
  \A e \in Executions :
    /\ status[e] \in {"absent", "queued"} => e \notin authorized
    /\ status[e] \in Started \cup {"interrupted"} => e \in authorized
    /\ e \in authorized <=> executionDeadline[e] # NoTime

\* A claim that was lost stays lost: neither recovery, nor a later grant, nor
\* the re-creation of the work item ever makes it valid again.
ClaimsStayLost ==
  [][\A c \in Claims : ~ValidClaim(c) => ~ValidClaim(c)']_vars

\* A finished execution keeps its outcome: no late claim, recovery, deadline
\* check, cancellation or deletion changes it.
OutcomeIsFinal ==
  [][\A e \in Executions : status[e] \in Terminal => status'[e] = status[e]]_vars

\* The store does what the lifecycle of an execution promises its observers.
Lifecycle == INSTANCE ExecutionLifecycle WITH held <- admitted, Fits <- WithinLimits
LifecycleSpec == Lifecycle!Spec
============================================================================
