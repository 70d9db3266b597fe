------------------------- MODULE MessagingProducers -------------------------
(***************************************************************************)
(* Producers and followers of one Messaging thread over its durable state: *)
(* the producer task of _producer_runtime.py (source, committer, cancel    *)
(* watcher, lease renewal and settlement) and the follow loop of           *)
(* _messaging_ledger.py.  Every call of the backend is one ledger          *)
(* transition; it may be refused, fail, or fail after it was committed.    *)
(* A process may stop at any point.                                        *)
(***************************************************************************)
EXTENDS MessagingLedger

CONSTANTS
  Producers,   \* processes that may wrap a source
  Followers,   \* subscriptions
  SourceLength,\* messages of every run's source
  PageLimit    \* messages of one page

ASSUME ProducersAssumption ==
  /\ SourceLength \in Nat
  /\ PageLimit \in Nat \ {0}
  /\ Runs \X (0..SourceLength) \subseteq SourceIds

VARIABLES
  prod,     \* producer -> state of its producer task
  follower, \* follower -> state of its follow loop
  calls     \* run -> invocations of its cancel callback (history)

producerVars == <<prod, follower, calls>>
allVars == <<ledgerVars, producerVars>>

\* No item is in the commit path.
Nothing == -1

Idle == [pc |-> "off", run |-> None, fence |-> 0, next |-> 0, pending |-> Nothing,
         settle |-> "unclaimed", callback |-> "none", tail |-> FALSE, source |-> FALSE, status |-> "completed",
         lost |-> FALSE, shut |-> FALSE, broken |-> FALSE]

Detached == [pc |-> "off", run |-> None, cursor |-> 0, terminal |-> FALSE, leased |-> FALSE,
             end |-> 0]

ProducersInit ==
  /\ LedgerInit
  /\ prod = [p \in Producers |-> Idle]
  /\ follower = [f \in Followers |-> Detached]
  /\ calls = [r \in Runs |-> 0]

\* The ID of a run's n-th source message; its cancellation tail has number 0.
Id(r, n) == <<r, n>>

Mine(p) == prod[p].run
Item(p) == Id(Mine(p), prod[p].pending)
Step(p, state) == prod' = [prod EXCEPT ![p] = state]
NoBackendCall == UNCHANGED ledgerVars
Failed(s) == [s EXCEPT !.status = "failed"]

\* Bound: no lease is taken that the clock cannot outlive.
LeaseFits == now + LeaseDuration <= MaxTime

-----------------------------------------------------------------------------
(* Starting: wrap() and wrap_recoverable().                                 *)

\* A recovered source continues after the checkpoint.
Resume(r, recovered) ==
  IF recovered /\ run[r].checkpoint > 0 THEN log[run[r].checkpoint].id[2] + 1 ELSE 1

\* The caller becomes the producer, or is attached and produces nothing.
StartProducer(p, r, rec, canc) ==
  /\ prod[p].pc = "off"
  /\ LeaseFits
  /\ AcquireRun(r, rec, canc)
  /\ Step(p, [Idle EXCEPT !.pc = "streaming", !.source = TRUE, !.run = r, !.fence = run'[r].fence,
                          !.next = Resume(r, Exists(r))])
  /\ UNCHANGED <<follower, calls>>

AttachLosing(p, r, rec) ==
  /\ prod[p].pc = "off"
  /\ LoseAbandoned(r, rec)
  /\ UNCHANGED producerVars

-----------------------------------------------------------------------------
(* consume_source and commit_messages: one item at a time.                  *)

Streaming(p) == prod[p].pc = "streaming"

\* The consumer task outlives a shutdown until the settlement cancels it.
Consuming(p) == prod[p].source /\ prod[p].pending = Nothing

\* The callback was invoked; it may end the source before its length.
Interrupted(p) == prod[p].callback # "none"

SourceYields(p) ==
  /\ Consuming(p)
  /\ prod[p].next <= SourceLength
  /\ Step(p, [prod[p] EXCEPT !.pending = prod[p].next])
  /\ NoBackendCall
  /\ UNCHANGED <<follower, calls>>

\* Where the producer still waits for the source, its end decides the status.
Ended(p, status) ==
  IF Streaming(p)
  THEN [prod[p] EXCEPT !.source = FALSE, !.pc = "settling", !.status = status]
  ELSE [prod[p] EXCEPT !.source = FALSE]

SourceEnds(p) ==
  /\ Consuming(p)
  /\ prod[p].next > SourceLength \/ Interrupted(p)
  /\ Step(p, Ended(p, IF Interrupted(p) THEN "cancelled" ELSE "completed"))
  /\ NoBackendCall
  /\ UNCHANGED <<follower, calls>>

SourceFails(p) ==
  /\ Consuming(p)
  /\ Step(p, Ended(p, "failed"))
  /\ NoBackendCall
  /\ UNCHANGED <<follower, calls>>

InCommitPath(p) == prod[p].pending # Nothing

\* Faulty variant: the source is pulled again although the append failed.
AfterAppendGoingOn(p, ok) ==
  [prod[p] EXCEPT !.pending = Nothing, !.next = @ + 1]

\* After the answer; an append that failed ends the source and the commit path.
AfterAppend(p, ok) ==
  IF ok THEN [prod[p] EXCEPT !.pending = Nothing, !.next = @ + 1]
  ELSE [Failed(prod[p]) EXCEPT !.pending = Nothing, !.broken = TRUE, !.source = FALSE,
          !.pc = IF @ = "streaming" THEN "settling" ELSE @]

\* The append is committed; its answer is lost or arrives.
AppendCommits(p, answered) ==
  /\ InCommitPath(p)
  /\ AppendMessage(Mine(p), generation, prod[p].fence, Item(p), FALSE, FALSE)
  /\ Step(p, AfterAppend(p, answered))
  /\ UNCHANGED <<follower, calls>>

\* The stored message answers an append of the same ID.
AppendRepeats(p) ==
  /\ InCommitPath(p)
  /\ Owns(Mine(p), generation, prod[p].fence)
  /\ Committed(Item(p))
  /\ Step(p, AfterAppend(p, TRUE))
  /\ NoBackendCall
  /\ UNCHANGED <<follower, calls>>

\* The append is refused (ownership, quota) or fails before it is committed.
AppendFails(p) ==
  /\ InCommitPath(p)
  /\ Step(p, [AfterAppend(p, FALSE) EXCEPT
                !.lost = @ \/ ~Owns(Mine(p), generation, prod[p].fence)])
  /\ NoBackendCall
  /\ UNCHANGED <<follower, calls>>

-----------------------------------------------------------------------------
(* Lease renewal and shutdown.                                              *)

Running(p) == prod[p].pc # "off"

Renew(p) ==
  /\ Running(p)
  /\ LeaseFits
  /\ run[Mine(p)].lease < now + LeaseDuration
  /\ RenewLease(Mine(p), generation, prod[p].fence)
  /\ UNCHANGED producerVars

\* A renewal that is refused or fails interrupts the source.
RenewFails(p) ==
  /\ Streaming(p)
  /\ Step(p, [Failed(prod[p]) EXCEPT !.pc = "settling", !.source = FALSE, !.lost = TRUE])
  /\ NoBackendCall
  /\ UNCHANGED <<follower, calls>>

\* Messaging closes: the producer task is cancelled while it waits for the source.
Shutdown(p) ==
  /\ Streaming(p)
  /\ Step(p, [prod[p] EXCEPT !.pc = "settling", !.shut = TRUE,
                             !.status = IF Interrupted(p) THEN "cancelled" ELSE "failed"])
  /\ NoBackendCall
  /\ UNCHANGED <<follower, calls>>

Crash(p) ==
  /\ Running(p)
  /\ Step(p, Idle)
  /\ NoBackendCall
  /\ UNCHANGED <<follower, calls>>

-----------------------------------------------------------------------------
(* Settlement: claimed once, by the cancel watcher or after the source.     *)

WatcherSees(p) == Streaming(p) /\ run[Mine(p)].status = "cancel_requested" /\ run[Mine(p)].cancellable

Claiming(p) == prod[p].settle = "unclaimed" /\ (WatcherSees(p) \/ prod[p].pc = "settling")

ClaimSettlement(p) ==
  /\ Claiming(p)
  /\ BeginSettlement(Mine(p), generation, prod[p].fence)
  /\ Step(p, [prod[p] EXCEPT !.settle = IF run[Mine(p)].status = "cancel_requested"
                                        THEN "won" ELSE "passed"])
  /\ UNCHANGED <<follower, calls>>

\* The answer is an error: of ownership, of the storage, or of an unknown outcome.
SettlementFails(p, committed) ==
  /\ Claiming(p)
  /\ IF committed THEN BeginSettlement(Mine(p), generation, prod[p].fence) ELSE NoBackendCall
  /\ Step(p, [prod[p] EXCEPT !.settle = "error"])
  /\ UNCHANGED <<follower, calls>>

\* A cancellation that was accepted replaces a completion; a failure is kept.
ArbitratedStatus(p) ==
  IF prod[p].settle = "error" THEN "failed"
  ELSE IF prod[p].settle = "won" /\ ~prod[p].lost
          /\ (prod[p].status = "completed" \/ prod[p].shut) THEN "cancelled"
  ELSE prod[p].status

Arbitrate(p) ==
  /\ prod[p].pc = "settling"
  /\ prod[p].settle # "unclaimed"
  /\ Step(p, [prod[p] EXCEPT !.pc = "settled", !.status = ArbitratedStatus(p)])
  /\ NoBackendCall
  /\ UNCHANGED <<follower, calls>>

\* claim_cancel_callback: the watcher and the settlement share one task.
Uninvoked(p) == prod[p].callback = "none"

InvokeCallback(p) ==
  /\ prod[p].settle = "won"
  /\ prod[p].pc # "closing"
  /\ Uninvoked(p)
  /\ Step(p, [prod[p] EXCEPT !.callback = "running"])
  /\ calls' = [calls EXCEPT ![Mine(p)] = @ + 1]
  /\ NoBackendCall
  /\ UNCHANGED follower

CallbackReturns(p) ==
  /\ prod[p].callback = "running"
  /\ \E tail \in BOOLEAN : Step(p, [prod[p] EXCEPT !.callback = "returned", !.tail = tail])
  /\ NoBackendCall
  /\ UNCHANGED <<follower, calls>>

\* A callback that raises cancels the source and fails the run.
CallbackRaises(p) ==
  /\ prod[p].callback = "running"
  /\ Step(p, [Failed(prod[p]) EXCEPT !.callback = "raised", !.source = FALSE,
                                     !.pc = IF @ = "streaming" THEN "settling" ELSE @])
  /\ NoBackendCall
  /\ UNCHANGED <<follower, calls>>

\* The commit path is free and the callback has settled.
ReadyForTail(p) ==
  /\ prod[p].pc = "settled"
  /\ prod[p].settle = "won"
  /\ prod[p].callback \in {"returned", "raised"}
  /\ prod[p].pending = Nothing

SubmitTail(p) ==
  /\ ReadyForTail(p)
  /\ prod[p].tail
  /\ ~prod[p].broken
  /\ Step(p, [prod[p] EXCEPT !.pc = "closing", !.source = FALSE, !.pending = 0])
  /\ NoBackendCall
  /\ UNCHANGED <<follower, calls>>

\* Without a tail: nothing is left to commit.  A shutdown drops what is not committed.
NothingToSubmit(p) ==
  /\ prod[p].pc = "settled"
  /\ \/ ReadyForTail(p) /\ (~prod[p].tail \/ prod[p].broken)
     \/ prod[p].settle \in {"passed", "error"} /\ (prod[p].pending = Nothing \/ prod[p].shut)
  /\ Step(p, [(IF prod[p].tail /\ prod[p].broken THEN Failed(prod[p]) ELSE prod[p])
                EXCEPT !.pc = "closing", !.source = FALSE, !.pending = Nothing])
  /\ NoBackendCall
  /\ UNCHANGED <<follower, calls>>

Closed(p) == prod[p].pc = "closing" /\ prod[p].pending = Nothing

CloseFails(p) ==
  /\ Closed(p)
  /\ prod[p].status # "failed"
  /\ Step(p, Failed(prod[p]))
  /\ NoBackendCall
  /\ UNCHANGED <<follower, calls>>

Finish(p) ==
  /\ Closed(p)
  /\ FinishRun(Mine(p), generation, prod[p].fence, prod[p].status)
  /\ Step(p, Idle)
  /\ UNCHANGED <<follower, calls>>

\* The outcome could not be recorded; the run is left to its lease.
FinishFails(p) ==
  /\ Closed(p)
  /\ Step(p, Idle)
  /\ NoBackendCall
  /\ UNCHANGED <<follower, calls>>

-----------------------------------------------------------------------------
(* follow: pages of one exact run, through its terminal boundary.           *)

Follow(f, r) ==
  /\ follower[f].pc = "off"
  /\ Open
  /\ Exists(r)
  /\ follower' = [follower EXCEPT ![f] = [Detached EXCEPT !.pc = "read", !.run = r,
                                                          !.cursor = run[r].start]]
  /\ NoBackendCall
  /\ UNCHANGED <<prod, calls>>

Through(r) == IF Final(r) /\ run[r].end < Len(log) THEN run[r].end ELSE Len(log)

PageEnd(f) ==
  LET last == Through(follower[f].run)
  IN IF last <= follower[f].cursor THEN follower[f].cursor
     ELSE IF follower[f].cursor + PageLimit < last THEN follower[f].cursor + PageLimit
     ELSE last

\* One page is read and delivered; what follows is decided from what it said.
ReadPage(f) ==
  LET r == follower[f].run
  IN /\ follower[f].pc = "read"
     /\ follower' = [follower EXCEPT ![f] =
          [pc |-> "decide", run |-> r, cursor |-> PageEnd(f), terminal |-> Final(r),
           leased |-> LeaseActive(r), end |-> run[r].end]]
     /\ NoBackendCall
     /\ UNCHANGED <<prod, calls>>

AtEnd(f) == follower[f].terminal /\ follower[f].cursor >= follower[f].end

Stop(f) ==
  /\ follower[f].pc = "decide"
  /\ AtEnd(f)
  /\ follower' = [follower EXCEPT ![f].pc = "stopped"]
  /\ NoBackendCall
  /\ UNCHANGED <<prod, calls>>

\* Faulty variant: the follower reads on without recording the loss.
ReconcileBoundNever(f) ==
  /\ follower[f].pc = "decide"
  /\ ~follower[f].terminal
  /\ ~follower[f].leased
  /\ follower' = [follower EXCEPT ![f].pc = "read"]
  /\ NoBackendCall
  /\ UNCHANGED <<prod, calls>>

\* A producer without a lease is reconciled; it may have come back since the page.
ReconcileBound(f) ==
  /\ follower[f].pc = "decide"
  /\ ~follower[f].terminal
  /\ ~follower[f].leased
  /\ IF Abandoned(follower[f].run) THEN Reconcile(follower[f].run, generation) ELSE NoBackendCall
  /\ follower' = [follower EXCEPT ![f].pc = "read"]
  /\ UNCHANGED <<prod, calls>>

\* More pages, or a wait that ends with a change or after its time.
ReadAgain(f) ==
  /\ follower[f].pc = "decide"
  /\ ~AtEnd(f)
  /\ follower[f].terminal \/ follower[f].leased
  /\ follower' = [follower EXCEPT ![f].pc = "read"]
  /\ NoBackendCall
  /\ UNCHANGED <<prod, calls>>

-----------------------------------------------------------------------------
Cancel(r) == RequestCancellation(r, generation) /\ UNCHANGED producerVars
Tick == LedgerTick /\ UNCHANGED producerVars

\* What a live producer does by itself.
ProducerStep(p) ==
  \/ SourceYields(p)
  \/ SourceEnds(p)
  \/ \E answered \in BOOLEAN : AppendCommits(p, answered)
  \/ AppendRepeats(p)
  \/ AppendFails(p)
  \/ ClaimSettlement(p)
  \/ \E committed \in BOOLEAN : SettlementFails(p, committed)
  \/ Arbitrate(p)
  \/ InvokeCallback(p)
  \/ CallbackReturns(p)
  \/ CallbackRaises(p)
  \/ SubmitTail(p)
  \/ NothingToSubmit(p)
  \/ Finish(p)
  \/ FinishFails(p)

FollowerStep(f) == ReadPage(f) \/ Stop(f) \/ ReconcileBound(f) \/ ReadAgain(f)

ProducersNext ==
  \/ \E p \in Producers :
       \/ \E r \in Runs, rec, canc \in BOOLEAN : StartProducer(p, r, rec, canc)
       \/ \E r \in Runs, rec \in BOOLEAN : AttachLosing(p, r, rec)
       \/ ProducerStep(p)
       \/ SourceFails(p)
       \/ CloseFails(p)
       \/ Renew(p)
       \/ RenewFails(p)
       \/ Shutdown(p)
       \/ Crash(p)
  \/ \E f \in Followers : FollowerStep(f) \/ \E r \in Runs : Follow(f, r)
  \/ \E r \in Runs : Cancel(r)
  \/ Tick

ProducersSpec == ProducersInit /\ [][ProducersNext]_allVars

\* The event loop runs every task that can run, the storage clock advances, and the
\* sources and callbacks are assumed to end.
ProducersFairness ==
  /\ \A p \in Producers : WF_allVars(ProducerStep(p))
  /\ \A f \in Followers : WF_allVars(FollowerStep(f))
  /\ WF_allVars(Tick)

-----------------------------------------------------------------------------
(* Properties.                                                              *)

Tails(r) == {i \in DOMAIN log : log[i].id = Id(r, 0)}

\* Types of the producer tasks and the follow loops.
ProducersTypeOK ==
  /\ \A p \in Producers :
       /\ prod[p].pc \in {"off", "streaming", "settling", "settled", "closing"}
       /\ prod[p].run \in Runs \cup {None}
       /\ prod[p].next \in 0..SourceLength + 2
       /\ prod[p].pending \in Nothing..SourceLength
       /\ prod[p].status \in FinalStatuses
  /\ \A f \in Followers : follower[f].cursor \in 0..Len(log)
  /\ calls \in [Runs -> Nat]

\* However often a run is taken over, and whatever became of the calls that were under
\* way, the n-th message of its slice is the n-th of its source, or its cancellation tail.
SourceWithoutGap ==
  \A r \in Runs : \A i \in run[r].start + 1 .. run[r].end :
    log[i].id \in {Id(r, i - run[r].start), Id(r, 0)}

\* A run is recorded as completed only with every message of its source and no tail.
CompletedIsWhole ==
  \A r \in Runs : run[r].status = "completed" =>
    run[r].end - run[r].start = SourceLength /\ Tails(r) = {}

\* The cancel callback runs at most once for a run, over all its producers, and only
\* for a cancellation that was accepted before the settlement.
CallbackOnce ==
  \A r \in Runs :
    /\ calls[r] <= 1
    /\ calls[r] = 1 => run[r].status # "completed"
    /\ run[r].status = "cancelled" => calls[r] = 1

\* The cancellation tail follows every message of the run's source.
TailIsLast ==
  \A r \in Runs : \A i \in Tails(r) : i = run[r].end /\ calls[r] = 1

\* A subscription that ended has delivered its run to the last message, and nothing of
\* the runs after it.
FollowedToTheEnd ==
  \A f \in Followers : follower[f].pc = "stopped" =>
    Final(follower[f].run) /\ follower[f].cursor = run[follower[f].run].end

\* Every subscription ends: the producer records its outcome, or it stops renewing its
\* lease and the follower records the loss.
FollowersEnd ==
  \A f \in Followers : follower[f].pc = "read" ~> follower[f].pc = "stopped"
\* The committed part of a source is well formed and whole as far as it goes, and completed
\* only when it is whole.
SourceIsWhole == ProducersTypeOK /\ SourceWithoutGap /\ CompletedIsWhole

\* Cancellation happens once and comes last: CallbackOnce and TailIsLast.
CancellationIsOrderly == CallbackOnce /\ TailIsLast

\* Every subscription ends, and not before it has delivered its run to the last message.
FollowedToTheLastMessage == []FollowedToTheEnd /\ FollowersEnd
=============================================================================
