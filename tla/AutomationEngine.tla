-------------------------- MODULE AutomationEngine --------------------------
(***************************************************************************)
(* The workers of Automation on top of the shared Store: every engine      *)
(* claims work, runs one task per claim (engine.py, _process_claim), and   *)
(* may fail, be closed, crash or be started again.                         *)
(*                                                                         *)
(* A Store call is one step; between two of them the clock may pass any    *)
(* deadline, which is how a slow database or a stalled event loop shows.   *)
(* A target is what it reports: an outcome, an interrupt, an error, or     *)
(* nothing at all.                                                         *)
(***************************************************************************)
EXTENDS AutomationStore

CONSTANTS
  Workers,
  NoWorker,
  FinalTargets,      \* executions whose target has cancellation_is_final
  CallbackWorkers,   \* workers whose engine was given on_interrupt
  OutageHorizon      \* bound: last instant at which a worker is closed or crashes

ASSUME EngineAssumption ==
  /\ IsFiniteSet(Workers)
  /\ NoWorker \notin Workers
  /\ FinalTargets \subseteq Executions
  /\ CallbackWorkers \subseteq Workers
  /\ OutageHorizon \in Nat

VARIABLES
  engine,     \* worker -> "up", "failed", "closing" or "down"
  procs,      \* the tasks that process a claim, in every worker
  owned,      \* worker -> execution -> the claim registered in _owned
  dispatcher, \* the claim_work call that holds the Store lock: who, with which claims
  launched,   \* execution -> how often its target was started
  resolved    \* executions settled by an explicit resolution

storeVars == vars
engineVars == <<engine, procs, owned, dispatcher, launched, resolved>>
allVars == <<vars, engineVars>>

\* claimed: before the start; lost: the Store refused the claim before it;
\* target, callback: the target, or on_interrupt after it, is being awaited;
\* done, failed: the task has ended, and if registered waits to be reaped.
Phases == {"claimed", "lost", "target", "callback", "done", "failed"}
Awaiting == {"target", "callback"}
Ended == {"done", "failed"}

\* Why the awaited operation was told to stop; it may take its time.
Stops == {"no", "cancel", "deadline", "lost", "shutdown"}

Claim == [item : Items, fence : Nat]
Proc == [worker : Workers, claim : Claim, phase : Phases, stop : Stops, cancel : BOOLEAN]
NoClaim == [item |-> <<>>, fence |-> 0]
NoDispatcher == [worker |-> NoWorker, claims |-> {}]
NothingOwned == [e \in Executions |-> NoClaim]

EngineInit ==
  /\ Init
  /\ engine = [w \in Workers |-> "up"]
  /\ procs = {}
  /\ owned = [w \in Workers |-> NothingOwned]
  /\ dispatcher = NoDispatcher
  /\ launched = [e \in Executions |-> 0]
  /\ resolved = {}

Owned(w) == {e \in Executions : owned[w][e] # NoClaim}
Exec(p) == p.claim.item[1]
IsOwned(p) == owned[p.worker][Exec(p)] = p.claim

Become(p, q) == procs' = (procs \ {p}) \cup {q}
Goto(p, phase) == Become(p, [p EXCEPT !.phase = phase])
Stop(p, why) == Become(p, [p EXCEPT !.stop = why])

-----------------------------------------------------------------------------
(* Dispatch.                                                                *)

\* Faulty variant: a worker without free slots does not call claim_work.
DispatchWithRoom(w) ==
  LET free == GlobalConcurrency - Cardinality(Owned(w))
  IN  /\ engine[w] = "up"
      /\ free > 0
      /\ ClaimWork(IF free < MaxBatch THEN free ELSE MaxBatch)
      /\ dispatcher' = [worker |-> w, claims |-> {}]
      /\ UNCHANGED <<engine, procs, owned, launched, resolved>>

\* _dispatch_ready: the free slots decide how much is claimed; with none the
\* call still does the maintenance of claim_work.
Dispatch(w) ==
  LET free == GlobalConcurrency - Cardinality(Owned(w))
  IN  /\ engine[w] = "up"
      /\ ClaimWork(IF free <= 0 THEN 0 ELSE IF free < MaxBatch THEN free ELSE MaxBatch)
      /\ dispatcher' = [worker |-> w, claims |-> {}]
      /\ UNCHANGED <<engine, procs, owned, launched, resolved>>

Consider(i) ==
  /\ Visit(i)
  /\ dispatcher' = [dispatcher EXCEPT !.claims =
       @ \cup {c \in {[item |-> i, fence |-> work'[i].fence]} : c.fence > work[i].fence}]
  /\ UNCHANGED <<engine, procs, owned, launched, resolved>>

\* Every returned claim becomes a task, registered under its execution.
Register(w, claims) ==
  /\ procs' = procs \cup {[worker |-> w, claim |-> c, phase |-> "claimed", stop |-> "no",
                           cancel |-> FALSE] : c \in claims}
  /\ owned' = [owned EXCEPT ![w] =
       [e \in Executions |->
          IF \E c \in claims : c.item[1] = e
          THEN CHOOSE c \in claims : c.item[1] = e
          ELSE @[e]]]

EndDispatch ==
  /\ ReturnBatch
  /\ Register(dispatcher.worker, dispatcher.claims)
  /\ dispatcher' = NoDispatcher
  /\ UNCHANGED <<engine, launched, resolved>>

\* _reap_finished: ended tasks leave _owned; a failure fails the engine.
Reap(w) ==
  LET done == {p \in procs : p.worker = w /\ p.phase \in Ended /\ IsOwned(p)}
  IN  /\ engine[w] \in {"up", "closing"}
      /\ done # {}
      /\ procs' = procs \ done
      /\ owned' = [owned EXCEPT ![w] =
           [e \in Executions |-> IF \E p \in done : Exec(p) = e THEN NoClaim ELSE @[e]]]
      /\ engine' = IF engine[w] = "up" /\ \E p \in done : p.phase = "failed"
                   THEN [engine EXCEPT ![w] = "failed"] ELSE engine
      /\ UNCHANGED <<storeVars, dispatcher, launched, resolved>>

-----------------------------------------------------------------------------
(* _process_claim.                                                          *)

\* The Store refuses the claim of p.
Refused(p) == Unlocked /\ ~ValidClaim(p.claim) /\ UNCHANGED storeVars

\* A task settles its execution, unless the Store refuses; after the start
\* that fails the task.
Settle(p, outcome) ==
  /\ \/ FinishExecution(p.claim, outcome) /\ Goto(p, "done")
     \/ Refused(p) /\ Goto(p, IF p.phase = "claimed" THEN "lost" ELSE "failed")
  /\ UNCHANGED <<engine, owned, dispatcher, launched, resolved>>

\* An interrupted execution has reached its deadline.
ExpireInterrupt(p) ==
  /\ p.phase = "claimed"
  /\ p.claim.item[2] = "expire_interrupt"
  /\ Settle(p, "timed_out")

\* The target is not registered in this worker.
TargetMissing(p) ==
  /\ p.phase = "claimed"
  /\ p.claim.item[2] = "execute"
  /\ Settle(p, "failed")

\* Faulty variant: the target is started before its start is authorized.
StartTargetEarly(p) ==
  /\ p.phase = "claimed"
  /\ p.claim.item[2] = "execute"
  /\ launched' = [launched EXCEPT ![Exec(p)] = @ + 1]
  /\ \/ AuthorizeStart(p.claim) /\ Goto(p, "target")
     \/ Refused(p) /\ Goto(p, "lost")
  /\ UNCHANGED <<engine, owned, dispatcher, resolved>>

StartTarget(p) ==
  /\ p.phase = "claimed"
  /\ p.claim.item[2] = "execute"
  /\ \/ /\ AuthorizeStart(p.claim)
        /\ Goto(p, "target")
        /\ launched' = [launched EXCEPT ![Exec(p)] = @ + 1]
     \/ /\ Refused(p)
        /\ Goto(p, "lost")
        /\ UNCHANGED launched
  /\ UNCHANGED <<engine, owned, dispatcher, resolved>>

\* Only a cancelled execution makes a claim lost before the start a normal end.
HandOver(p) ==
  /\ Unlocked
  /\ p.phase = "lost"
  /\ Goto(p, IF status[Exec(p)] = "cancelled" THEN "done" ELSE "failed")
  /\ UNCHANGED <<storeVars, engine, owned, dispatcher, launched, resolved>>

\* The target returned or raised: _apply_outcome without an interrupt.
TargetEnds(p) ==
  /\ p.phase = "target"
  /\ p.stop = "no"
  /\ \E outcome \in {"succeeded", "failed", "needs_attention"} : Settle(p, outcome)

\* The store has no room for the deadline check: the task fails.
NoRoom(p) ==
  /\ Unlocked
  /\ ValidClaim(p.claim)
  /\ work[ExpireItem(Exec(p))].status = "absent"
  /\ Cardinality(SavedWork) >= MaxWorkItems
  /\ UNCHANGED storeVars

RecordInterrupt(p) ==
  /\ \/ MarkInterrupted(p.claim) /\ Goto(p, "done")
     \/ (Refused(p) \/ NoRoom(p)) /\ Goto(p, "failed")
  /\ UNCHANGED <<engine, owned, dispatcher, launched, resolved>>

\* The target reported an interrupt.
TargetInterrupts(p) ==
  /\ p.phase = "target"
  /\ p.stop = "no"
  /\ IF p.worker \in CallbackWorkers
     THEN /\ Goto(p, "callback")
          /\ UNCHANGED <<storeVars, engine, owned, dispatcher, launched, resolved>>
     ELSE RecordInterrupt(p)

\* The callback classified the interrupt as a failure, or let it stand.
CallbackEnds(p) ==
  /\ p.phase = "callback"
  /\ p.stop = "no"
  /\ Settle(p, "failed") \/ RecordInterrupt(p)

\* _wait_for_operation looks at the cancellation event first, then at the
\* deadline, and renews the claim when neither is due.
Overdue(p) == now >= executionDeadline[Exec(p)]

NoticeStop(p) ==
  /\ p.phase \in Awaiting
  /\ p.stop = "no"
  /\ \/ p.cancel /\ Stop(p, "cancel")
     \/ ~p.cancel /\ Overdue(p) /\ Stop(p, "deadline")
  /\ UNCHANGED <<storeVars, engine, owned, dispatcher, launched, resolved>>

\* A renewal reports a requested cancellation.
Renew(p) ==
  /\ p.phase \in Awaiting
  /\ p.stop = "no"
  /\ ~p.cancel
  /\ ~Overdue(p)
  /\ \/ /\ RenewClaim(p.claim)
        /\ IF status[Exec(p)] = "cancel_requested" THEN Stop(p, "cancel") ELSE UNCHANGED procs
     \/ Refused(p) /\ Stop(p, "lost")
  /\ UNCHANGED <<engine, owned, dispatcher, launched, resolved>>

\* What a stopped operation is settled as: a target that does not promise that
\* its cancellation is final leaves the outcome unknown.
Confirmed(p) == p.phase = "callback" \/ Exec(p) \in FinalTargets

Stopped(p) ==
  /\ p.phase \in Awaiting
  /\ \/ p.stop = "cancel" /\ Settle(p, IF Confirmed(p) THEN "cancelled" ELSE "needs_attention")
     \/ p.stop = "deadline" /\ Settle(p, IF Confirmed(p) THEN "timed_out" ELSE "needs_attention")
     \/ p.stop = "shutdown" /\ Settle(p, "needs_attention")
     \/ /\ p.stop = "lost"
        /\ Goto(p, "failed")
        /\ UNCHANGED <<storeVars, engine, owned, dispatcher, launched, resolved>>

\* Process control in the operation, or an error while it was being stopped,
\* ends the task without a Store call.
Aborts(p) ==
  /\ p.phase \in Awaiting
  /\ Goto(p, "failed")
  /\ UNCHANGED <<storeVars, engine, owned, dispatcher, launched, resolved>>

Process(p) ==
  \/ ExpireInterrupt(p)
  \/ TargetMissing(p)
  \/ StartTarget(p)
  \/ HandOver(p)
  \/ TargetEnds(p)
  \/ TargetInterrupts(p)
  \/ CallbackEnds(p)
  \/ NoticeStop(p)
  \/ Renew(p)
  \/ Stopped(p)
  \/ Aborts(p)

-----------------------------------------------------------------------------
(* Commands reach the engines.                                              *)

\* Commands of a client; a resolution is remembered for the properties.
ClientCommand ==
  /\ Command
  /\ resolved' = resolved \cup
       {e \in Executions : status[e] = "needs_attention" /\ status'[e] # "needs_attention"}
  /\ UNCHANGED <<engine, procs, owned, dispatcher, launched>>

\* _cancel_running, called by the local service, after a change notification
\* or in a resynchronization: it sets the event of the registered task.
CancelRunning(w, e) ==
  /\ Unlocked
  /\ status[e] = "cancel_requested"
  /\ \E p \in procs :
       /\ p.worker = w
       /\ p.claim = owned[w][e]
       /\ ~p.cancel
       /\ Become(p, [p EXCEPT !.cancel = TRUE])
  /\ UNCHANGED <<storeVars, engine, owned, dispatcher, launched, resolved>>

-----------------------------------------------------------------------------
(* Shutdown, failure and restart of a worker.                               *)

\* close: no more claims; the owned tasks are drained and then cancelled.
Close(w) ==
  /\ now <= OutageHorizon
  /\ engine[w] \in {"up", "failed"}
  /\ engine' = [engine EXCEPT ![w] = "closing"]
  /\ UNCHANGED <<storeVars, procs, owned, dispatcher, launched, resolved>>

\* The drain interval is over.  A target in flight is stopped first.
CancelTask(p) ==
  /\ engine[p.worker] = "closing"
  /\ dispatcher.worker # p.worker
  /\ IsOwned(p)
  /\ \/ p.phase \in Awaiting /\ p.stop # "shutdown" /\ Stop(p, "shutdown")
     \/ p.phase \in {"claimed", "lost"} /\ Goto(p, "done")
  /\ UNCHANGED <<storeVars, engine, owned, dispatcher, launched, resolved>>

\* Every registered task has been joined.
Closed(w) ==
  /\ engine[w] = "closing"
  /\ dispatcher.worker # w
  /\ \A p \in procs : p.worker = w /\ IsOwned(p) => p.phase \in Ended
  /\ engine' = [engine EXCEPT ![w] = "down"]
  /\ procs' = {p \in procs : p.worker = w => ~IsOwned(p)}
  /\ owned' = [owned EXCEPT ![w] = NothingOwned]
  /\ UNCHANGED <<storeVars, dispatcher, launched, resolved>>

\* The process dies: its tasks and targets are gone, the Store is not.
Crash(w) ==
  /\ Unlocked
  /\ now <= OutageHorizon
  /\ engine[w] # "down"
  /\ engine' = [engine EXCEPT ![w] = "down"]
  /\ procs' = {p \in procs : p.worker # w}
  /\ owned' = [owned EXCEPT ![w] = NothingOwned]
  /\ UNCHANGED <<storeVars, dispatcher, launched, resolved>>

\* A new engine takes over the identity of one that is gone.
Start(w) ==
  /\ engine[w] = "down"
  /\ engine' = [engine EXCEPT ![w] = "up"]
  /\ UNCHANGED <<storeVars, procs, owned, dispatcher, launched, resolved>>

EngineTick == Tick /\ UNCHANGED engineVars

EngineNext ==
  \/ ClientCommand
  \/ \E w \in Workers : Dispatch(w) \/ Reap(w) \/ Close(w) \/ Closed(w) \/ Crash(w) \/ Start(w)
  \/ \E w \in Workers, e \in Executions : CancelRunning(w, e)
  \/ \E i \in Items : Consider(i)
  \/ EndDispatch
  \/ \E p \in procs : Process(p) \/ CancelTask(p)
  \/ EngineTick

EngineSpec == EngineInit /\ [][EngineNext]_allVars

\* A worker polls, and asyncio.Lock serves its waiters in turn, so a dispatch
\* that is possible again and again happens; claim_work then runs to its end;
\* ended tasks wake the supervisor; time passes; a deadline check makes its one
\* Store call.  Nothing is assumed of targets, callbacks, commands and starts.
Fairness ==
  /\ \A w \in Workers : SF_allVars(Dispatch(w)) /\ WF_allVars(Reap(w))
  /\ WF_allVars(\E i \in Items : Consider(i))
  /\ WF_allVars(EndDispatch)
  /\ SF_allVars(EngineTick)
  /\ SF_allVars(\E p \in procs : ExpireInterrupt(p))

FairSpec == EngineSpec /\ Fairness

-----------------------------------------------------------------------------
(* Properties.                                                              *)

\* Every variable of the Store and of the workers has its type.
EngineTypeOK ==
  /\ TypeOK
  /\ engine \in [Workers -> {"up", "failed", "closing", "down"}]
  /\ procs \subseteq Proc
  /\ owned \in [Workers -> [Executions -> Claim \cup {NoClaim}]]
  /\ dispatcher \in [worker : Workers \cup {NoWorker}, claims : SUBSET Claim]
  /\ launched \in [Executions -> Nat]
  /\ resolved \in SUBSET Executions

\* The target of an execution is started at most once, whatever workers crash,
\* lose their claims or claim the execution again.
LaunchedOnce == \A e \in Executions : launched[e] <= 1

\* While a target runs in any worker, one that ignored its cancellation and
\* lost its claim included, its execution occupies a unit of the concurrency
\* limits, until somebody resolved it explicitly.
RunningHoldsUnit ==
  \A p \in procs : p.phase = "target" => Exec(p) \in admitted \cup resolved

\* finish_execution and mark_interrupted check the claim and not the status, so
\* a valid claim must imply it: as long as the claim of an unfinished task is
\* valid, its execution has the status that the task's next Store call presumes.
ClaimMatchesStatus ==
  \A p \in procs : ValidClaim(p.claim) /\ p.phase \notin Ended =>
    status[Exec(p)] \in
      (IF p.claim.item[2] = "expire_interrupt" THEN {"interrupted"}
       ELSE IF p.phase = "claimed" THEN {"queued"} ELSE Started)

WorkerStaysUp == <>[](\E w \in Workers : engine[w] = "up")

\* As long as some worker is up, no execution waits for ever: what is queued is
\* started or settled, even when others occupy the whole capacity; what was
\* started is settled or handed to a person, even when its target ignores its
\* cancellation or died with its worker; what was interrupted meets its deadline.
EveryExecutionMovesOn ==
  WorkerStaysUp =>
    \A e \in Executions :
      \A s \in {"queued", "running", "cancel_requested", "interrupted"} :
        status[e] = s ~> status[e] # s
\* What every worker's next Store call presumes: EngineTypeOK, RunningHoldsUnit and
\* ClaimMatchesStatus together.
EngineInvariant == EngineTypeOK /\ RunningHoldsUnit /\ ClaimMatchesStatus
=============================================================================
