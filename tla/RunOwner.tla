------------------------------ MODULE RunOwner ------------------------------
(***************************************************************************)
(* One run of the Agent Runtime: the consumer's lazy run (_lazy_run.py),   *)
(* the owner's supervisor and native task (_run_owner.py), and the         *)
(* settlement of the graph stream and its resources (_runtime_streams.py,  *)
(* _run_resources.py).  The consumer, an external closer, an observer and  *)
(* the loss of the coordinator's lease all may stop the run, at any await  *)
(* of the others.                                                          *)
(***************************************************************************)
EXTENDS Naturals

Nothing == "none"

VARIABLES
  consumer,   \* idle, preparing, ready, calling, closing, gone
  closer,     \* idle, requested, joining, closed
  lazyClosed, \* _LazyRun._closed
  calling,    \* the consumer's pull: none, queued, running, part, end
  ready,      \* outcome of preparation: pending, stream, error
  sup,        \* supervisor: none, entering, guarding, joining, over
  supCancel,  \* the supervisor is cancelled before admission
  scope,      \* the coordinator's scope is held
  lost,       \* the coordinator has taken the scope back
  native,     \* native task: see Native
  cancel,     \* its one cancellation: none, pending, delivered
  stopping,
  settling,
  release,    \* native resources have stopped, the scope may be left
  released,   \* none, ok, error
  failure,    \* the owner's retained failure: none, stopped, lost, observer
  watcher,    \* the observer's failure watch is on
  workspace,  \* none, open, closed
  outcome,    \* what execution ended with, before cleanup: none, succeeded, failed, cancelled
  cleanupBad, \* a cleanup step failed
  terminal    \* terminal observation: none, succeeded, failed, cancelled

ownerVars == <<consumer, closer, lazyClosed, calling, ready, sup, supCancel, scope, lost, native, cancel,
               stopping, settling, release, released, failure, watcher, workspace, outcome, cleanupBad,
               terminal>>

callers == <<consumer, closer, lazyClosed>>
control == <<cancel, stopping, failure, supCancel>>
results == <<outcome, cleanupBad, terminal>>

Native == {Nothing, "created", "unborn", "preparing", "unwinding", "serving", "pulling", "draining",
           "closingSource", "closingWorkspace", "releasing", "observing", "over"}

OwnerInit ==
  /\ consumer = "idle" /\ closer = "idle" /\ lazyClosed = FALSE
  /\ calling = Nothing /\ ready = "pending"
  /\ sup = Nothing /\ supCancel = FALSE /\ scope = FALSE /\ lost = FALSE
  /\ native = Nothing /\ cancel = Nothing
  /\ stopping = FALSE /\ settling = FALSE /\ release = FALSE /\ released = Nothing
  /\ failure = Nothing /\ watcher = FALSE /\ workspace = Nothing
  /\ outcome = Nothing /\ cleanupBad = FALSE /\ terminal = Nothing

-----------------------------------------------------------------------------
(* RunOwner.stop                                                            *)

\* Faulty variant: a late stop cancels the native task while it cleans up.
MayCancelAlways == native \notin {Nothing, "unborn", "over", "draining"}

\* A task that is settling or closing an iterator is left alone.
MayCancel == ~settling /\ native \notin {Nothing, "unborn", "over", "draining"}

\* One cancellation at most reaches the native task.  A task that is cancelled before its
\* first step never runs: nothing of serve() happens.
Stop(error) ==
  /\ stopping' = TRUE
  /\ failure' = IF error # Nothing /\ failure \in {Nothing, "stopped"} THEN error ELSE failure
  /\ cancel' = IF MayCancel /\ cancel # "pending" /\ (settling \/ cancel = Nothing) THEN "pending" ELSE cancel
  /\ native' = IF native = "created" /\ MayCancel THEN "unborn" ELSE native
  /\ supCancel' = (supCancel \/ (native = Nothing /\ sup = "entering"))

\* failure_for: what a cancellation at an await of the native task means.
Stopped == IF failure = Nothing THEN "stopped" ELSE failure
\* _error_outcome: only a cancellation ends a run as cancelled.
OutcomeOf(error) == IF error \in {"lost", "observer"} THEN "failed" ELSE "cancelled"

-----------------------------------------------------------------------------
(* The consumer and the closer.                                             *)

Pull ==
  /\ consumer = "idle"
  /\ IF lazyClosed THEN consumer' = "gone" /\ UNCHANGED sup
     ELSE consumer' = "preparing" /\ sup' = "entering"
  /\ UNCHANGED <<closer, lazyClosed, calling, ready, scope, lost, native, settling, release, released,
                 watcher, workspace>>
  /\ UNCHANGED control /\ UNCHANGED results

\* With an external closer at work the consumer leaves the cleanup to it.
Leaving == IF closer \in {"requested", "joining"} THEN "gone" ELSE "closing"

ConsumerReady ==
  /\ consumer = "preparing"
  /\ ready # "pending"
  /\ consumer' = IF ready = "stream" /\ ~lazyClosed THEN "ready" ELSE Leaving
  /\ lazyClosed' = (lazyClosed \/ consumer' = "closing")
  /\ UNCHANGED <<closer, calling, ready, sup, scope, lost, native, settling, release, released, watcher,
                 workspace>>
  /\ UNCHANGED control /\ UNCHANGED results

\* RunOwner.call: a stopped owner takes no command.
Call ==
  /\ consumer = "ready"
  /\ IF lazyClosed THEN consumer' = "gone" /\ UNCHANGED <<calling, lazyClosed>>
     ELSE IF stopping THEN consumer' = Leaving /\ lazyClosed' = TRUE /\ UNCHANGED calling
     ELSE consumer' = "calling" /\ calling' = "queued" /\ UNCHANGED lazyClosed
  /\ UNCHANGED <<closer, ready, sup, scope, lost, native, settling, release, released, watcher, workspace>>
  /\ UNCHANGED control /\ UNCHANGED results

\* An item is delivered even when a callback asked to close; then the run closes.
Receive ==
  /\ consumer = "calling"
  /\ calling \in {"part", "end"}
  /\ consumer' = IF calling = "part" /\ (~lazyClosed \/ closer \in {"requested", "joining"}) THEN "ready"
                 ELSE Leaving
  /\ lazyClosed' = (lazyClosed \/ calling = "end")
  /\ calling' = Nothing
  /\ UNCHANGED <<closer, ready, sup, scope, lost, native, settling, release, released, watcher, workspace>>
  /\ UNCHANGED control /\ UNCHANGED results

\* The consumer's task is cancelled; it closes the run and joins the supervisor, unless an
\* external closer does so and no call is pending.
CancelConsumer ==
  /\ consumer \in {"preparing", "calling"}
  /\ consumer' = IF consumer = "preparing" THEN Leaving ELSE "closing"
  /\ lazyClosed' = TRUE
  /\ IF consumer' = "closing" THEN Stop(Nothing) ELSE UNCHANGED <<native, control>>
  /\ UNCHANGED <<closer, calling, ready, sup, scope, lost, settling, release, released, watcher, workspace>>
  /\ UNCHANGED results

\* _close_resources: everything is stopped once more, then joined.
ConsumerStops ==
  /\ consumer = "closing"
  /\ sup # "over"
  /\ ~stopping
  /\ Stop(Nothing)
  /\ UNCHANGED callers
  /\ UNCHANGED <<calling, ready, sup, scope, lost, settling, release, released, watcher, workspace>>
  /\ UNCHANGED results

ConsumerCloses ==
  /\ consumer = "closing"
  /\ sup = "over"
  /\ consumer' = "gone"
  /\ UNCHANGED <<closer, lazyClosed, calling, ready, sup, scope, lost, native, settling, release, released,
                 watcher, workspace>>
  /\ UNCHANGED control /\ UNCHANGED results

\* aclose from a callback of the run only leaves a request.
CallbackCloses ==
  /\ native = "pulling"
  /\ lazyClosed' = TRUE
  /\ UNCHANGED <<consumer, closer, calling, ready, sup, scope, lost, native, settling, release, released,
                 watcher, workspace>>
  /\ UNCHANGED control /\ UNCHANGED results

CloseOwner ==
  /\ closer = "idle"
  /\ closer' = IF sup = Nothing /\ consumer = "idle" THEN "closed" ELSE "requested"
  /\ lazyClosed' = TRUE
  /\ UNCHANGED <<consumer, calling, ready, sup, scope, lost, native, settling, release, released, watcher,
                 workspace>>
  /\ UNCHANGED control /\ UNCHANGED results

\* Through the cancelled preparation, or through the prepared stream.
CloserStops ==
  /\ closer = "requested"
  /\ closer' = "joining"
  /\ Stop(Nothing)
  /\ UNCHANGED <<consumer, lazyClosed, calling, ready, sup, scope, lost, settling, release, released, watcher,
                 workspace>>
  /\ UNCHANGED results

CloserJoins ==
  /\ closer = "joining"
  /\ sup \in {Nothing, "over"}
  /\ closer' = "closed"
  /\ UNCHANGED <<consumer, lazyClosed, calling, ready, sup, scope, lost, native, settling, release, released,
                 watcher, workspace>>
  /\ UNCHANGED control /\ UNCHANGED results

-----------------------------------------------------------------------------
(* The supervisor, the coordinator and the observer.                        *)

Admit ==
  /\ sup = "entering"
  /\ ~supCancel
  /\ scope' = TRUE
  /\ native' = "created"
  /\ sup' = "guarding"
  /\ UNCHANGED callers /\ UNCHANGED control /\ UNCHANGED results
  /\ UNCHANGED <<calling, ready, lost, settling, release, released, watcher, workspace>>

\* The coordinator refuses, or the supervisor was cancelled while it entered.  A run that is
\* not being closed still gets its native task, which reports the refusal.
AdmissionFails ==
  /\ sup = "entering"
  /\ IF stopping
     THEN /\ sup' = "over"
          /\ ready' = "error"
          /\ released' = "ok"
          /\ UNCHANGED native
     ELSE /\ sup' = "guarding"
          /\ native' = "created"
          /\ UNCHANGED <<ready, released>>
  /\ UNCHANGED callers /\ UNCHANGED control /\ UNCHANGED results
  /\ UNCHANGED <<calling, scope, lost, settling, release, watcher, workspace>>

\* The lease is lost: the supervisor's task is cancelled while it waits for the release.
LoseScope ==
  /\ sup = "guarding"
  /\ scope /\ ~lost
  /\ native \notin {"created", "unborn"}
  /\ lost' = TRUE
  /\ Stop("lost")
  /\ UNCHANGED callers /\ UNCHANGED results
  /\ UNCHANGED <<calling, ready, sup, scope, settling, release, released, watcher, workspace>>

MayExit == release

\* __aexit__ in the supervisor's task, ordinary or failing; a retained failure is delivered
\* with its outcome.
ExitScope ==
  /\ sup = "guarding"
  /\ MayExit
  /\ scope' = FALSE
  /\ sup' = "joining"
  /\ \E exit \in {"ok", "error"} :
       released' = IF (exit = "error" /\ scope) \/ failure # Nothing THEN "error" ELSE "ok"
  /\ UNCHANGED callers /\ UNCHANGED control /\ UNCHANGED results
  /\ UNCHANGED <<calling, ready, lost, native, settling, release, watcher, workspace>>

JoinNative ==
  /\ sup = "joining"
  /\ native = "over"
  /\ sup' = "over"
  /\ UNCHANGED callers /\ UNCHANGED control /\ UNCHANGED results
  /\ UNCHANGED <<calling, ready, scope, lost, native, settling, release, released, watcher, workspace>>

ObserverFails ==
  /\ watcher
  /\ ~settling
  /\ failure # "observer"
  /\ Stop("observer")
  /\ UNCHANGED callers /\ UNCHANGED results
  /\ UNCHANGED <<calling, ready, sup, scope, lost, settling, release, released, watcher, workspace>>

-----------------------------------------------------------------------------
(* The native task: preparation and pulls.                                  *)

NativeUnchanged == UNCHANGED callers /\ UNCHANGED <<sup, supCancel, scope, lost>>
Hit == cancel = "pending"
Step(to) == native' = to

StartNative ==
  /\ native = "created"
  /\ Step("preparing")
  /\ NativeUnchanged /\ UNCHANGED results
  /\ UNCHANGED <<calling, ready, cancel, stopping, settling, release, released, failure, watcher, workspace>>

\* Resources are adopted by a stream; a refused admission has a stream that fails.
Prepared ==
  /\ native = "preparing"
  /\ ~Hit
  /\ Step("serving")
  /\ ready' = "stream"
  /\ watcher' = TRUE
  /\ workspace' = IF scope THEN "open" ELSE Nothing
  /\ NativeUnchanged /\ UNCHANGED results
  /\ UNCHANGED <<calling, cancel, stopping, settling, release, released, failure>>

\* Preparation is cancelled before a stream has its resources: they are closed here.
PreparationCancelled ==
  /\ native = "preparing"
  /\ Hit
  /\ Step("unwinding")
  /\ cancel' = "delivered"
  /\ settling' = TRUE
  /\ stopping' = TRUE
  /\ workspace' \in IF scope THEN {Nothing, "open"} ELSE {Nothing}
  /\ NativeUnchanged /\ UNCHANGED results
  /\ UNCHANGED <<calling, ready, release, released, failure, watcher>>

Unwind ==
  /\ native = "unwinding"
  /\ IF ~release THEN /\ release' = TRUE
                      /\ workspace' = IF workspace = "open" THEN "closed" ELSE workspace
                      /\ UNCHANGED <<native, ready>>
     ELSE /\ released # Nothing
          /\ Step("over")
          /\ ready' = "error"
          /\ UNCHANGED <<workspace, release>>
  /\ NativeUnchanged /\ UNCHANGED results
  /\ UNCHANGED <<calling, cancel, stopping, settling, released, failure, watcher>>

TakeCommand ==
  /\ native = "serving"
  /\ ~Hit
  /\ calling = "queued"
  /\ Step("pulling")
  /\ calling' = "running"
  /\ NativeUnchanged /\ UNCHANGED results
  /\ UNCHANGED <<ready, cancel, stopping, settling, release, released, failure, watcher, workspace>>

PullPart ==
  /\ native = "pulling"
  /\ ~Hit
  /\ calling' = IF calling = "running" THEN "part" ELSE calling
  /\ Step("serving")
  /\ NativeUnchanged /\ UNCHANGED results
  /\ UNCHANGED <<ready, cancel, stopping, settling, release, released, failure, watcher, workspace>>

\* native_iterator_cleanup: a stop waits until the iterator is closed.
Drain ==
  /\ native = "pulling"
  /\ ~Hit
  /\ Step("draining")
  /\ NativeUnchanged /\ UNCHANGED results
  /\ UNCHANGED <<calling, ready, cancel, stopping, settling, release, released, failure, watcher, workspace>>

\* begin_settlement: watchers are off, and no stop cancels from here on.
Settle(end, why) ==
  /\ settling' = TRUE
  /\ stopping' = TRUE
  /\ watcher' = FALSE
  /\ outcome' = end
  /\ failure' = why
  /\ Step("closingSource")
  /\ UNCHANGED <<cleanupBad, terminal>>

Drained ==
  /\ native = "draining"
  /\ IF stopping THEN Settle(OutcomeOf(failure), failure)
     ELSE Step("pulling") /\ UNCHANGED <<stopping, settling, watcher, failure>> /\ UNCHANGED results
  /\ NativeUnchanged
  /\ UNCHANGED <<calling, ready, cancel, release, released, workspace>>

\* The source ends, or it raises.
PullEnds ==
  /\ native = "pulling"
  /\ ~Hit
  /\ \E end \in {"succeeded", "failed"} : Settle(end, failure)
  /\ NativeUnchanged
  /\ UNCHANGED <<calling, ready, cancel, release, released, workspace>>

\* The cancellation arrives in a pull, or in the wait for a command.
NativeCancelled ==
  /\ native \in {"pulling", "serving"}
  /\ Hit
  /\ cancel' = "delivered"
  /\ Settle(OutcomeOf(failure), IF native = "serving" THEN Stopped ELSE failure)
  /\ NativeUnchanged
  /\ UNCHANGED <<calling, ready, release, released, workspace>>

-----------------------------------------------------------------------------
(* The native task: settlement.                                             *)

SettlementUnchanged ==
  /\ NativeUnchanged
  /\ UNCHANGED <<ready, cancel, stopping, settling, failure, watcher>>

CloseSource ==
  /\ native = "closingSource"
  /\ Step("closingWorkspace")
  /\ cleanupBad' \in {cleanupBad, TRUE}
  /\ SettlementUnchanged
  /\ UNCHANGED <<calling, release, released, workspace, outcome, terminal>>

\* Faulty variant: the resources close, but the supervisor is not told.
CloseWorkspaceOnly ==
  /\ native = "closingWorkspace"
  /\ Step("releasing")
  /\ workspace' = IF workspace = "open" THEN "closed" ELSE workspace
  /\ cleanupBad' \in {cleanupBad, TRUE}
  /\ SettlementUnchanged
  /\ UNCHANGED <<calling, release, released, outcome, terminal>>

CloseWorkspace ==
  /\ native = "closingWorkspace"
  /\ Step("releasing")
  /\ workspace' = IF workspace = "open" THEN "closed" ELSE workspace
  /\ release' = TRUE
  /\ cleanupBad' \in {cleanupBad, TRUE}
  /\ SettlementUnchanged
  /\ UNCHANGED <<calling, released, outcome, terminal>>

\* Faulty variant: the outcome of the scope's exit is not waited for.
AwaitsReleaseNot == TRUE

AwaitsRelease == released # Nothing

ScopeReleased ==
  /\ native = "releasing"
  /\ AwaitsRelease
  /\ Step("observing")
  /\ cleanupBad' = (cleanupBad \/ released = "error")
  /\ SettlementUnchanged
  /\ UNCHANGED <<calling, release, released, workspace, outcome, terminal>>

\* The running call returns its outcome, a queued one is failed.
Answer == IF calling \in {"queued", "running"} THEN "end" ELSE calling

\* Failed cleanup downgrades a success; the terminal observation comes last.
Observe ==
  /\ native = "observing"
  /\ terminal' = IF outcome = "succeeded" /\ cleanupBad THEN "failed" ELSE outcome
  /\ calling' = Answer
  /\ Step("over")
  /\ SettlementUnchanged
  /\ UNCHANGED <<release, released, workspace, outcome, cleanupBad>>

OwnerNext ==
  \/ Pull \/ ConsumerReady \/ Call \/ Receive \/ CancelConsumer \/ ConsumerStops \/ ConsumerCloses
  \/ CallbackCloses \/ CloseOwner \/ CloserStops \/ CloserJoins
  \/ Admit \/ AdmissionFails \/ LoseScope \/ ExitScope \/ JoinNative \/ ObserverFails
  \/ StartNative \/ Prepared \/ PreparationCancelled \/ Unwind \/ TakeCommand \/ PullPart \/ Drain
  \/ Drained \/ PullEnds \/ NativeCancelled \/ CloseSource \/ CloseWorkspace \/ ScopeReleased \/ Observe

OwnerSpec == OwnerInit /\ [][OwnerNext]_ownerVars

-----------------------------------------------------------------------------
(* Safety.                                                                  *)

OwnerWords ==
  /\ consumer \in {"idle", "preparing", "ready", "calling", "closing", "gone"}
  /\ closer \in {"idle", "requested", "joining", "closed"}
  /\ calling \in {Nothing, "queued", "running", "part", "end"}
  /\ ready \in {"pending", "stream", "error"}
  /\ sup \in {Nothing, "entering", "guarding", "joining", "over"}
  /\ native \in Native
  /\ cancel \in {Nothing, "pending", "delivered"}
  /\ released \in {Nothing, "ok", "error"}
  /\ failure \in {Nothing, "stopped", "lost", "observer"}
  /\ workspace \in {Nothing, "open", "closed"}
  /\ outcome \in {Nothing, "succeeded", "failed", "cancelled"}
  /\ terminal \in {Nothing, "succeeded", "failed", "cancelled"}

OwnerFlags ==
  /\ lazyClosed \in BOOLEAN /\ supCancel \in BOOLEAN /\ scope \in BOOLEAN /\ lost \in BOOLEAN
  /\ stopping \in BOOLEAN /\ settling \in BOOLEAN /\ release \in BOOLEAN
  /\ watcher \in BOOLEAN /\ cleanupBad \in BOOLEAN

\* Every variable of the run has one of the values its object can hold.
OwnerTypeOK == OwnerWords /\ OwnerFlags

\* The workspace is open only inside the coordinator's scope: whoever stops the run, in
\* whatever order, native resources close before the supervisor leaves the scope.
ResourcesUnderScope == workspace = "open" => scope

\* A run whose scope was taken away before it was released is never reported as a success,
\* even when the loss is noticed during the cleanup of a source that had ended normally.
LostIsNotSuccess == terminal = "succeeded" => ~lost

\* The terminal observation is made when nothing of the run is held any more, and after it
\* no call is left without an answer.
TerminalLast == terminal # Nothing => ~scope /\ workspace # "open" /\ calling \notin {"queued", "running"}

\* However many controllers stop the run, its native task receives one cancellation, and
\* none once it settles.
CleanupUninterrupted ==
  [][/\ settling => (cancel' = "pending" => cancel = "pending")
     /\ cancel = "delivered" => cancel' = "delivered"]_ownerVars

-----------------------------------------------------------------------------
(* Liveness.  Every task of the run is scheduled, a graph step, a cleanup    *)
(* step and the coordinator's enter and exit come to an end; nobody has to   *)
(* pull, close, cancel or fail.                                              *)

\* A pull closes finitely many iterators before it ends.
PullReturns == PullPart \/ PullEnds \/ NativeCancelled

OwnerFairness ==
  /\ WF_ownerVars(ConsumerReady) /\ WF_ownerVars(ConsumerStops) /\ WF_ownerVars(ConsumerCloses)
  /\ WF_ownerVars(Receive) /\ WF_ownerVars(CloserStops) /\ WF_ownerVars(CloserJoins)
  /\ WF_ownerVars(Admit \/ AdmissionFails) /\ WF_ownerVars(ExitScope) /\ WF_ownerVars(JoinNative)
  /\ WF_ownerVars(StartNative) /\ WF_ownerVars(Prepared \/ PreparationCancelled) /\ WF_ownerVars(Unwind)
  /\ WF_ownerVars(TakeCommand) /\ SF_ownerVars(PullReturns) /\ WF_ownerVars(Drained)
  /\ WF_ownerVars(CloseSource) /\ WF_ownerVars(CloseWorkspace) /\ WF_ownerVars(ScopeReleased) /\ WF_ownerVars(Observe)

FairOwnerSpec == OwnerSpec /\ OwnerFairness

\* A pull that was accepted is answered, whether the run is closed, loses its scope or fails
\* while the pull waits for the native task.
CallAnswered == calling \in {"queued", "running"} ~> calling \notin {"queued", "running"}

\* aclose returns once the native task has had its first step: every stop leads to the
\* release of the scope and to the end of the supervisor.
StartedCloseReturns == closer = "joining" ~> (closer = "closed" \/ native = "unborn")

\* aclose returns.  "Started preparation is cancelled and joined before its result is closed"
\* (_LazyRun).
CloseReturns == closer = "joining" ~> closer = "closed"
\* The end of a run is in order, whoever stops it: resources close inside the scope, the
\* loss of the scope is no success, and the terminal observation is the last thing to happen.
RunEndsInOrder == OwnerTypeOK /\ ResourcesUnderScope /\ LostIsNotSuccess /\ TerminalLast

\* Nobody waits for ever for a run that was started: its consumer and its closer return.
WaitersAreAnswered == CallAnswered /\ StartedCloseReturns
=============================================================================
