-------------------------- MODULE AutomationProofs --------------------------
(***************************************************************************)
(* For every number of executions, tasks, limits and durations the         *)
(* Automation Store keeps its invariants; the workers use the Store as its *)
(* specification allows, so that all that is proved of it holds for any    *)
(* number of workers that fail, close and crash; and no target is started  *)
(* twice.                                                                  *)
(***************************************************************************)
EXTENDS AutomationEngine, FiniteSetTheorems, TLAPS

-----------------------------------------------------------------------------
(* The Store.                                                               *)

\* Candidates wait until claim_work visits them: nothing else touches them.
ScanSound ==
  /\ Unlocked => scan.todo = {}
  /\ \A i \in scan.todo : work[i].status = "pending" /\ work[i].availableAt <= now

(* The inductive invariant.  None of its parts is inductive alone: that a   *)
(* unit is held rests on no claim to run existing without one, that nothing *)
(* is stranded on candidates staying pending until they are visited.        *)
IInv ==
  /\ TypeOK
  /\ CapacityExact
  /\ CapacityHeld
  /\ NothingStranded
  /\ StartRecorded
  /\ ScanSound

-----------------------------------------------------------------------------
(* Work items.                                                              *)

\* Completing an item keeps its type, availability and fence; it is live no more.
LEMMA CompletedItem ==
  ASSUME NEW item \in WorkItem
  PROVE  /\ Completed(item) \in WorkItem
         /\ Completed(item).status \in {"absent", "completed"}
         /\ Completed(item).availableAt = item.availableAt
         /\ Completed(item).fence = item.fence
BY DEF Completed, WorkItem, NoTime

\* A created item is pending at the given instant, whatever it was before.
LEMMA CreatedItem ==
  ASSUME NEW item \in WorkItem, NEW at \in Nat
  PROVE  /\ Created(item, at) \in WorkItem
         /\ Created(item, at).status = "pending"
         /\ Created(item, at).availableAt = at
BY DEF Created, WorkItem, NoTime

\* Clearing the lease of an item keeps its type and availability.
LEMMA ClearedItem ==
  ASSUME NEW item \in WorkItem, NEW st \in {"pending", "completed"}
  PROVE  /\ [item EXCEPT !.status = st, !.leaseUntil = NoTime] \in WorkItem
         /\ [item EXCEPT !.status = st, !.leaseUntil = NoTime].status = st
         /\ [item EXCEPT !.status = st, !.leaseUntil = NoTime].availableAt = item.availableAt
BY DEF WorkItem, NoTime

\* A granted item is claimed and keeps its availability.
LEMMA GrantedItem ==
  ASSUME NEW item \in WorkItem, now \in Nat
  PROVE  /\ Granted(item) \in WorkItem
         /\ Granted(item).status = "claimed"
         /\ Granted(item).availableAt = item.availableAt
<1>1. now + LeaseDuration \in Nat /\ item.fence + 1 \in Nat
  BY TimeAssumption DEF WorkItem
<1> QED BY <1>1 DEF Granted, WorkItem

\* The two items of an execution are distinct items of the store.
LEMMA ItemsOf ==
  ASSUME NEW e \in Executions
  PROVE  /\ ExecuteItem(e) \in Items /\ ExecuteItem(e)[1] = e /\ ExecuteItem(e)[2] = "execute"
         /\ ExpireItem(e) \in Items /\ ExpireItem(e)[1] = e /\ ExpireItem(e)[2] = "expire_interrupt"
         /\ ExecuteItem(e) # ExpireItem(e)
BY DEF ExecuteItem, ExpireItem, Items, Kinds

\* An item is one of the two items of its execution.
LEMMA ItemCases ==
  ASSUME NEW i \in Items
  PROVE  /\ i[1] \in Executions
         /\ i[2] = "execute" => i = ExecuteItem(i[1])
         /\ i[2] # "execute" => i = ExpireItem(i[1]) /\ i[2] = "expire_interrupt"
BY DEF ExecuteItem, ExpireItem, Items, Kinds

-----------------------------------------------------------------------------
(* Capacity.                                                                *)

\* Releasing a set of executions keeps the counters exact and frees them all.
LEMMA ReleaseKeepsExact ==
  ASSUME TypeOK, CapacityExact, NEW E \in SUBSET Executions, ReleaseScopes(E)
  PROVE  /\ admitted' \in SUBSET Executions
         /\ allocated' \in [Scopes \cup {Global} -> Nat]
         /\ admitted' = admitted \ E
         /\ CapacityExact'
<1>1. admitted \subseteq Executions /\ allocated \in [Scopes \cup {Global} -> Nat]
  BY DEF TypeOK
<1>2. admitted' = admitted \ E
  BY DEF ReleaseScopes
<1>3. ASSUME NEW s \in Scopes \cup {Global}
      PROVE  /\ allocated'[s] = Cardinality(Members(s, admitted'))
             /\ allocated'[s] <= allocated[s]
             /\ allocated'[s] \in Nat
  <2> DEFINE M == Members(s, admitted)
             R == Members(s, E \cap admitted)
  <2>1. IsFiniteSet(M) /\ IsFiniteSet(R) /\ R \subseteq M
    BY <1>1, ScopeAssumption, FS_Subset DEF Members
  <2>2. Cardinality(M) \in Nat /\ Cardinality(R) \in Nat
    BY <2>1, FS_CardinalityType
  <2>3. Cardinality(M \ R) = Cardinality(M) - Cardinality(R)
    <3>1. Cardinality(M \ R) = Cardinality(M) - Cardinality(M \cap R)
      BY <2>1, FS_Difference
    <3>2. M \cap R = R
      BY <2>1
    <3> QED BY <3>1, <3>2
  <2>4. Cardinality(M \ R) \in Nat
    BY <2>1, FS_Difference, FS_CardinalityType
  <2>5. Members(s, admitted') = M \ R
    BY <1>2 DEF Members
  <2>6. allocated[s] = Cardinality(M)
    BY DEF CapacityExact
  <2>7. allocated'[s] = IF allocated[s] - Cardinality(R) > 0 THEN allocated[s] - Cardinality(R) ELSE 0
    BY <1>1 DEF ReleaseScopes
  <2> HIDE DEF M, R
  <2> QED BY <2>2, <2>3, <2>4, <2>5, <2>6, <2>7
<1>4. allocated' \in [Scopes \cup {Global} -> Nat]
  <2>1. DOMAIN allocated = Scopes \cup {Global}
    BY <1>1
  <2>2. allocated' = [s \in Scopes \cup {Global} |-> allocated'[s]]
    BY <2>1 DEF ReleaseScopes
  <2> QED BY <2>2, <1>3
<1>5. CapacityExact'
  <2>1. ASSUME NEW s \in Scopes \cup {Global}
        PROVE  /\ Cardinality(Members(s, admitted')) <= Cardinality(Members(s, admitted))
               /\ Cardinality(Members(s, admitted')) \in Nat
               /\ Cardinality(Members(s, admitted)) \in Nat
    BY <1>1, <1>3 DEF CapacityExact
  <2>2. WithinLimits(admitted')
    BY <2>1, LimitAssumption DEF CapacityExact, WithinLimits
  <2> QED BY <1>3, <2>2 DEF CapacityExact
<1> QED BY <1>1, <1>2, <1>4, <1>5

\* Reserving a unit that the limits allow keeps the counters exact and bounded.
LEMMA ReserveKeepsExact ==
  ASSUME TypeOK, CapacityExact, NEW e \in Executions, CanReserve(e), ReserveScopes(e)
  PROVE  /\ admitted' = admitted \cup {e}
         /\ allocated' \in [Scopes \cup {Global} -> Nat]
         /\ CapacityExact'
<1>1. admitted \subseteq Executions /\ allocated \in [Scopes \cup {Global} -> Nat]
  BY DEF TypeOK
<1>2. admitted' = admitted \cup {e}
  BY DEF ReserveScopes
<1>3. ASSUME NEW s \in Scopes \cup {Global}
      PROVE  /\ allocated'[s] = Cardinality(Members(s, admitted'))
             /\ allocated'[s] \in Nat
             /\ allocated'[s] = allocated[s]
                  \/ (allocated'[s] = allocated[s] + 1 /\ e \notin admitted /\ (s = Global \/ s = ScopeOf[e]))
  <2> DEFINE M == Members(s, admitted)
  <2>1. IsFiniteSet(M)
    BY <1>1, ScopeAssumption, FS_Subset DEF Members
  <2>2. Cardinality(M) \in Nat
    BY <2>1, FS_CardinalityType
  <2>3. allocated[s] = Cardinality(M)
    BY DEF CapacityExact
  <2>4. allocated'[s] = allocated[s] + Cardinality(Members(s, {e} \ admitted))
    BY <1>1 DEF ReserveScopes
  <2>5. CASE e \notin admitted /\ (s = Global \/ s = ScopeOf[e])
    <3>1. Members(s, {e} \ admitted) = {e} /\ Members(s, admitted') = M \cup {e} /\ e \notin M
      BY <1>2, <2>5 DEF Members
    <3>2. Cardinality({e}) = 1
      BY FS_Singleton
    <3>3. Cardinality(M \cup {e}) = Cardinality(M) + 1
      BY <2>1, <3>1, FS_AddElement
    <3> HIDE DEF M
    <3>4. allocated'[s] = Cardinality(M) + 1
      BY <2>3, <2>4, <3>1, <3>2
    <3>5. Cardinality(Members(s, admitted')) = Cardinality(M) + 1
      BY <3>1, <3>3
    <3> QED BY <2>2, <2>3, <2>5, <3>4, <3>5
  <2>6. CASE ~(e \notin admitted /\ (s = Global \/ s = ScopeOf[e]))
    <3>1. Members(s, {e} \ admitted) = {} /\ Members(s, admitted') = M
      BY <1>2, <2>6 DEF Members
    <3>2. Cardinality({}) = 0
      BY FS_EmptySet
    <3> HIDE DEF M
    <3>3. allocated'[s] = Cardinality(M) + 0
      BY <2>3, <2>4, <3>1, <3>2
    <3> QED BY <2>2, <2>3, <3>1, <3>3
  <2> QED BY <2>5, <2>6
<1>4. allocated' \in [Scopes \cup {Global} -> Nat]
  <2>1. DOMAIN allocated = Scopes \cup {Global}
    BY <1>1
  <2>2. allocated' = [s \in Scopes \cup {Global} |-> allocated'[s]]
    BY <2>1 DEF ReserveScopes
  <2> QED BY <2>2, <1>3
<1>5. CapacityExact'
  <2>1. ScopeOf[e] \in Scopes /\ Global \notin Scopes
    BY ScopeAssumption
  <2>2. allocated'[Global] <= GlobalConcurrency
    BY <1>1, <1>3, LimitAssumption DEF CapacityExact, WithinLimits, CanReserve
  <2>3. ASSUME NEW s \in Scopes PROVE allocated'[s] <= MaxConcurrentRuns
    BY <1>1, <1>3, <2>1, LimitAssumption DEF CapacityExact, WithinLimits, CanReserve
  <2> QED BY <1>3, <2>2, <2>3 DEF CapacityExact, WithinLimits
<1> QED BY <1>2, <1>4, <1>5

-----------------------------------------------------------------------------
(* The invariant, action by action.                                         *)

\* The capacity counters stay exact when neither they nor their owners change.
LEMMA ExactUnchanged ==
  ASSUME CapacityExact, UNCHANGED <<admitted, allocated>>
  PROVE  CapacityExact'
BY DEF CapacityExact, WithinLimits, Members

\* The initial state.
LEMMA InitInv == Init => IInv
<1> SUFFICES ASSUME Init PROVE IInv
  OBVIOUS
<1>1. TypeOK
  BY DEF Init, TypeOK, WorkItem, NoWork, NoScan, NoTime
<1>2. CapacityExact
  <2>1. ASSUME NEW s \in Scopes \cup {Global} PROVE allocated[s] = 0 /\ Members(s, admitted) = {}
    BY DEF Init, Members
  <2> QED BY <2>1, FS_EmptySet, LimitAssumption DEF CapacityExact, WithinLimits
<1>3. CapacityHeld /\ NothingStranded /\ StartRecorded /\ ScanSound
  BY ItemsOf DEF Init, CapacityHeld, NothingStranded, StartRecorded, ScanSound, Live, NoWork, NoScan,
     Unlocked, NoTime, Started, Terminal
<1> QED BY <1>1, <1>2, <1>3 DEF IInv

\* Submission, by a new request or by a retry.
LEMMA EnqueueInv ==
  ASSUME IInv, NEW e \in Executions, Enqueue(e)
  PROVE  IInv'
<1> USE DEF IInv
<1>1. /\ now \in Nat /\ work \in [Items -> WorkItem]
      /\ status \in [Executions -> Statuses \cup {"absent"}] /\ status[e] = "absent"
  BY DEF TypeOK, Enqueue
<1>2. /\ Created(work[ExecuteItem(e)], now) \in WorkItem
      /\ Created(work[ExecuteItem(e)], now).status = "pending"
  BY <1>1, ItemsOf, CreatedItem
<1>3. /\ work' = [work EXCEPT ![ExecuteItem(e)] = Created(work[ExecuteItem(e)], now)]
      /\ status' = [status EXCEPT ![e] = "queued"]
      /\ UNCHANGED <<now, tasks, executionDeadline, authorized, admitted, allocated, scan>>
  BY DEF Enqueue
<1>4. TypeOK'
  BY <1>1, <1>2, <1>3, ItemsOf, TimeAssumption DEF TypeOK, Enqueue, Statuses
<1>5. CapacityExact'
  BY <1>3, ExactUnchanged
<1>6. CapacityHeld'
  BY <1>1, <1>2, <1>3, ItemsOf, ZenonT(40) DEF CapacityHeld, Started, Terminal, ExecuteItem
<1>7. NothingStranded'
  BY <1>1, <1>2, <1>3, ItemsOf, ZenonT(40) DEF NothingStranded, Live, Started, Terminal, ExecuteItem, ExpireItem
<1>8. StartRecorded'
  BY <1>1, <1>3 DEF StartRecorded, Started
<1>9. ScanSound'
  <2>1. \A i \in scan.todo : i \in Items /\ i # ExecuteItem(e)
    BY <1>1 DEF ScanSound, TypeOK, NothingStranded, Live, Terminal
  <2> QED BY <1>1, <1>3, <2>1 DEF ScanSound, Unlocked
<1> QED BY <1>4, <1>5, <1>6, <1>7, <1>8, <1>9

\* Completing all the work of a set of executions leaves no other item changed.
LEMMA CompleteAllWork ==
  ASSUME work \in [Items -> WorkItem], NEW E \in SUBSET Executions
  PROVE  /\ CompleteAll(E) \in [Items -> WorkItem]
         /\ \A i \in Items :
              /\ i[1] \in E => CompleteAll(E)[i].status \in {"absent", "completed"}
              /\ i[1] \notin E => CompleteAll(E)[i] = work[i]
BY CompletedItem DEF CompleteAll

\* Settling a set of executions with one outcome: the shape shared by
\* cancellation, deletion, expiry of interrupts and final outcomes.
LEMMA SettleInv ==
  ASSUME IInv, NEW E \in SUBSET Executions, NEW outcome \in Terminal,
         \A e \in E : status[e] # "absent",
         status' = [e \in Executions |-> IF e \in E THEN outcome ELSE status[e]],
         work' = CompleteAll(E),
         ReleaseScopes(E),
         UNCHANGED <<now, executionDeadline, authorized>>
  PROVE  /\ status' \in [Executions -> Statuses \cup {"absent"}]
         /\ work' \in [Items -> WorkItem]
         /\ admitted' \in SUBSET Executions
         /\ allocated' \in [Scopes \cup {Global} -> Nat]
         /\ CapacityExact' /\ CapacityHeld' /\ NothingStranded' /\ StartRecorded'
<1> USE DEF IInv
<1>1. /\ work \in [Items -> WorkItem]
      /\ status \in [Executions -> Statuses \cup {"absent"}]
  BY DEF TypeOK
<1>2. /\ work' \in [Items -> WorkItem]
      /\ \A i \in Items :
           /\ i[1] \in E => work'[i].status \in {"absent", "completed"}
           /\ i[1] \notin E => work'[i] = work[i]
  BY <1>1, CompleteAllWork
<1>3. /\ admitted' \in SUBSET Executions
      /\ allocated' \in [Scopes \cup {Global} -> Nat]
      /\ admitted' = admitted \ E
      /\ CapacityExact'
  BY ReleaseKeepsExact
<1>4. status' \in [Executions -> Statuses \cup {"absent"}]
  BY <1>1 DEF Statuses
<1>5. CapacityHeld'
  BY <1>1, <1>2, <1>3, ItemsOf DEF CapacityHeld, Started, Terminal
<1>6. NothingStranded'
  BY <1>1, <1>2, ItemsOf DEF NothingStranded, Live, Started, Terminal
<1>7. StartRecorded'
  BY <1>1 DEF StartRecorded, Started, Terminal
<1> QED BY <1>2, <1>3, <1>4, <1>5, <1>6, <1>7

\* Cancellation of unstarted or interrupted work, or a request to stop.
LEMMA CancelInv ==
  ASSUME IInv, NEW e \in Executions, CancelExecution(e)
  PROVE  IInv'
<1> USE DEF IInv
<1>1. /\ status \in [Executions -> Statuses \cup {"absent"}]
      /\ work \in [Items -> WorkItem]
      /\ UNCHANGED <<now, tasks, queueDeadline, executionDeadline, authorized, scan>>
      /\ scan.todo = {}
  BY DEF TypeOK, CancelExecution, ScanSound
<1>2. ScanSound'
  BY <1>1 DEF ScanSound, Unlocked
<1>3. CASE status[e] \in {"queued", "interrupted"}
  <2>1. /\ status' = [f \in Executions |-> IF f \in {e} THEN "cancelled" ELSE status[f]]
        /\ work' = CompleteAll({e})
        /\ ReleaseScopes({e})
    BY <1>1, <1>3 DEF CancelExecution
  <2>2. "cancelled" \in Terminal /\ {e} \in SUBSET Executions /\ \A f \in {e} : status[f] # "absent"
    BY <1>3 DEF Terminal
  <2>3. /\ status' \in [Executions -> Statuses \cup {"absent"}]
        /\ work' \in [Items -> WorkItem]
        /\ admitted' \in SUBSET Executions
        /\ allocated' \in [Scopes \cup {Global} -> Nat]
        /\ CapacityExact' /\ CapacityHeld' /\ NothingStranded' /\ StartRecorded'
    BY <1>1, <2>1, <2>2, SettleInv
  <2>4. TypeOK'
    BY <1>1, <2>3 DEF TypeOK
  <2> QED BY <1>2, <2>3, <2>4
<1>4. CASE status[e] \notin {"queued", "interrupted"}
  <2>1. /\ status[e] = "running"
        /\ status' = [status EXCEPT ![e] = "cancel_requested"]
        /\ UNCHANGED <<work, admitted, allocated>>
    BY <1>4 DEF CancelExecution
  <2>2. TypeOK'
    BY <1>1, <2>1 DEF TypeOK, Statuses, Started
  <2>3. CapacityExact'
    BY <2>1, ExactUnchanged
  <2>4. CapacityHeld' /\ NothingStranded' /\ StartRecorded'
    BY <1>1, <2>1, ItemsOf DEF CapacityHeld, NothingStranded, StartRecorded, Live, Started, Terminal
  <2> QED BY <1>2, <2>2, <2>3, <2>4
<1> QED BY <1>3, <1>4

\* Explicit resolution of an uncertain execution.
LEMMA ResolveInv ==
  ASSUME IInv, NEW e \in Executions, NEW resolution \in Resolutions, ResolveExecution(e, resolution)
  PROVE  IInv'
<1> USE DEF IInv
<1>1. /\ status \in [Executions -> Statuses \cup {"absent"}]
      /\ work \in [Items -> WorkItem]
      /\ UNCHANGED <<now, tasks, queueDeadline, executionDeadline, authorized, work, scan>>
      /\ status[e] = "needs_attention"
      /\ status' = [status EXCEPT ![e] = resolution]
      /\ resolution \in Terminal
  BY DEF TypeOK, ResolveExecution, Resolutions, Terminal
<1>2. /\ admitted' \in SUBSET Executions
      /\ allocated' \in [Scopes \cup {Global} -> Nat]
      /\ admitted' = admitted \ {e}
      /\ CapacityExact'
  BY ReleaseKeepsExact DEF ResolveExecution
<1>3. TypeOK'
  BY <1>1, <1>2 DEF TypeOK, Statuses
<1>4. CapacityHeld' /\ NothingStranded' /\ StartRecorded'
  BY <1>1, <1>2, ItemsOf DEF CapacityHeld, NothingStranded, StartRecorded, Live, Started, Terminal
<1>5. ScanSound'
  BY <1>1 DEF ScanSound, Unlocked
<1> QED BY <1>2, <1>3, <1>4, <1>5

\* Deletion of a task cancels all of its queued executions at once.
LEMMA DeleteTaskInv ==
  ASSUME IInv, NEW t \in Tasks, DeleteTask(t)
  PROVE  IInv'
<1> USE DEF IInv
<1>1. /\ UNCHANGED <<now, queueDeadline, executionDeadline, authorized, scan>>
      /\ tasks' = tasks \ {t}
      /\ scan.todo = {}
  BY DEF DeleteTask, ScanSound
<1>2. /\ status' = [e \in Executions |-> IF e \in QueuedIn(t) THEN "cancelled" ELSE status[e]]
      /\ work' = CompleteAll(QueuedIn(t))
      /\ ReleaseScopes(QueuedIn(t))
  BY DEF DeleteTask
<1>3. /\ "cancelled" \in Terminal
      /\ QueuedIn(t) \in SUBSET Executions
      /\ \A f \in QueuedIn(t) : status[f] # "absent"
  BY DEF Terminal, QueuedIn
<1>4. /\ status' \in [Executions -> Statuses \cup {"absent"}]
      /\ work' \in [Items -> WorkItem]
      /\ admitted' \in SUBSET Executions
      /\ allocated' \in [Scopes \cup {Global} -> Nat]
      /\ CapacityExact' /\ CapacityHeld' /\ NothingStranded' /\ StartRecorded'
  BY <1>1, <1>2, <1>3, SettleInv
<1>5. TypeOK'
  BY <1>1, <1>4 DEF TypeOK
<1>6. ScanSound'
  BY <1>1 DEF ScanSound, Unlocked
<1> QED BY <1>4, <1>5, <1>6

\* claim_work takes the lock and recovers the expired claims.
LEMMA ClaimWorkInv ==
  ASSUME IInv, NEW limit \in Nat, ClaimWork(limit)
  PROVE  IInv'
<1> USE DEF IInv
<1>1. /\ now \in Nat /\ work \in [Items -> WorkItem]
      /\ status \in [Executions -> Statuses \cup {"absent"}]
      /\ UNCHANGED <<now, tasks, queueDeadline, executionDeadline, authorized, admitted, allocated>>
      /\ work' = RecoverWork
      /\ status' = RecoverStatus
      /\ scan' = [lock |-> "held", limit |-> limit, todo |-> Due(RecoverWork), granted |-> 0]
  BY DEF TypeOK, ClaimWork
<1>2. ASSUME NEW i \in Items
      PROVE  /\ work'[i] \in WorkItem
             /\ work'[i].availableAt = work[i].availableAt
             /\ LostAfterStart(i) => work'[i].status = "completed"
             /\ ~LostAfterStart(i) /\ Expired(i) => work'[i].status = "pending"
             /\ ~LostAfterStart(i) /\ ~Expired(i) => work'[i] = work[i]
             /\ work'[i].status = "claimed" => work[i].status = "claimed"
  <2>1. work[i] \in WorkItem
    BY <1>1
  <2>2. LostAfterStart(i) => Expired(i)
    BY DEF LostAfterStart
  <2>3. Expired(i) => work[i].status = "claimed"
    BY DEF Expired
  <2>4. CASE LostAfterStart(i)
    <3>1. work'[i] = [work[i] EXCEPT !.status = "completed", !.leaseUntil = NoTime]
      BY <1>1, <2>2, <2>3, <2>4 DEF RecoverWork, Completed
    <3> QED BY <2>1, <2>2, <2>4, <3>1, ClearedItem
  <2>5. CASE ~LostAfterStart(i) /\ Expired(i)
    <3>1. work'[i] = [work[i] EXCEPT !.status = "pending", !.leaseUntil = NoTime]
      BY <1>1, <2>5 DEF RecoverWork
    <3> QED BY <2>1, <2>5, <3>1, ClearedItem
  <2>6. CASE ~LostAfterStart(i) /\ ~Expired(i)
    BY <1>1, <2>1, <2>6 DEF RecoverWork
  <2> QED BY <2>2, <2>4, <2>5, <2>6
<1>3. ASSUME NEW e \in Executions
      PROVE  /\ LostAfterStart(ExecuteItem(e)) =>
                  status[e] \in Started /\ status'[e] = "needs_attention"
             /\ ~LostAfterStart(ExecuteItem(e)) => status'[e] = status[e]
             /\ ~LostAfterStart(ExpireItem(e))
  <2>1. LostAfterStart(ExecuteItem(e)) => e \in authorized /\ work[ExecuteItem(e)].status = "claimed"
    BY ItemsOf DEF LostAfterStart, Expired
  <2>2. LostAfterStart(ExecuteItem(e)) => status[e] \in Started
    BY <1>1, <2>1 DEF NothingStranded, StartRecorded, Live, Started, Terminal, Statuses
  <2>3. ~LostAfterStart(ExpireItem(e))
    BY ItemsOf DEF LostAfterStart
  <2> QED BY <1>1, <2>2, <2>3 DEF RecoverStatus
<1>4. work' \in [Items -> WorkItem] /\ status' \in [Executions -> Statuses \cup {"absent"}]
  <2>1. work' = [i \in Items |-> work'[i]] /\ status' = [e \in Executions |-> status'[e]]
    BY <1>1 DEF RecoverWork, RecoverStatus
  <2>2. \A e \in Executions : status'[e] \in Statuses \cup {"absent"}
    BY <1>1, <1>3 DEF Statuses
  <2>3. \A i \in Items : work'[i] \in WorkItem
    BY <1>2
  <2> QED BY <2>1, <2>2, <2>3
<1>5. TypeOK'
  BY <1>1, <1>4 DEF TypeOK, Due
<1>6. CapacityExact'
  BY <1>1, ExactUnchanged
<1>7. CapacityHeld'
  BY <1>1, <1>2, <1>3, ItemsOf DEF CapacityHeld, Started, Terminal
<1>8. NothingStranded'
  <2> SUFFICES ASSUME NEW e \in Executions
               PROVE  /\ status'[e] = "queued" => Live(ExecuteItem(e))' /\ ~Live(ExpireItem(e))'
                      /\ status'[e] \in Started =>
                           work'[ExecuteItem(e)].status = "claimed" /\ ~Live(ExpireItem(e))'
                      /\ status'[e] = "interrupted" =>
                           /\ ~Live(ExecuteItem(e))'
                           /\ Live(ExpireItem(e))'
                           /\ work'[ExpireItem(e)].availableAt = executionDeadline'[e]
                      /\ status'[e] \in Terminal \cup {"absent", "needs_attention"} =>
                           ~Live(ExecuteItem(e))' /\ ~Live(ExpireItem(e))'
    BY DEF NothingStranded, ExecuteItem, ExpireItem
  <2>1. Expired(ExpireItem(e)) => work[ExpireItem(e)].status = "claimed"
    BY DEF Expired
  <2>2. Expired(ExecuteItem(e)) => work[ExecuteItem(e)].status = "claimed"
    BY DEF Expired
  <2>3. Expired(ExecuteItem(e)) /\ e \in authorized => LostAfterStart(ExecuteItem(e))
    BY ItemsOf DEF LostAfterStart
  <2>4. status[e] \in Started => e \in authorized
    BY DEF StartRecorded
  <2> QED BY <1>1, <1>2, <1>3, <2>1, <2>2, <2>3, <2>4, ItemsOf DEF NothingStranded, Live, Started, Terminal
<1>9. StartRecorded'
  BY <1>1, <1>3 DEF StartRecorded, Started
<1>10. ScanSound'
  BY <1>1 DEF ScanSound, Unlocked, Due
<1> QED BY <1>5, <1>6, <1>7, <1>8, <1>9, <1>10

\* What every visit of a candidate starts from.
LEMMA AdvanceFacts ==
  ASSUME IInv, NEW i \in Items, NEW grants \in Nat, Advance(i, grants)
  PROVE  /\ i[1] \in Executions
         /\ work[i].status = "pending" /\ work[i].availableAt <= now
         /\ scan'.todo = scan.todo \ {i} /\ scan'.lock = "held"
         /\ scan' \in [lock : {"free", "held"}, limit : Nat, todo : SUBSET Items, granted : Nat]
         /\ scan.todo \subseteq Items
<1>1. i[1] \in Executions
  BY ItemCases
<1>2. /\ scan \in [lock : {"free", "held"}, limit : Nat, todo : SUBSET Items, granted : Nat]
      /\ ScanSound
  BY DEF IInv, TypeOK
<1>3. /\ scan.lock = "held" /\ i \in scan.todo
      /\ scan' = [scan EXCEPT !.todo = scan.todo \ {i}, !.granted = scan.granted + grants]
  BY <1>2 DEF Advance, Unlocked
<1>4. scan.todo \ {i} \in SUBSET Items /\ scan.granted + grants \in Nat
  BY <1>2
<1>5. /\ scan'.todo = scan.todo \ {i} /\ scan'.lock = "held"
      /\ scan' \in [lock : {"free", "held"}, limit : Nat, todo : SUBSET Items, granted : Nat]
  BY <1>2, <1>3, <1>4
<1> QED BY <1>1, <1>2, <1>3, <1>5 DEF ScanSound

\* No candidate of claim_work is obsolete: that branch of claim_candidate is
\* never taken.
LEMMA NoObsoleteCandidate ==
  ASSUME IInv, NEW i \in Items, i \in scan.todo
  PROVE  ~Obsolete(i)
<1>1. work[i].status = "pending" /\ i[1] \in Executions
  BY ItemCases DEF IInv, ScanSound
<1>2. status[i[1]] \in Statuses \cup {"absent"}
  BY <1>1 DEF IInv, TypeOK
<1> QED BY <1>1, <1>2, ItemCases DEF IInv, NothingStranded, Live, Obsolete, Statuses, Started, Terminal

\* Visits that leave the execution alone.
LEMMA VisitSkipInv ==
  ASSUME IInv, NEW i \in Items, VisitSkip(i)
  PROVE  IInv'
<1> USE DEF IInv
<1>1. /\ i[1] \in Executions
      /\ work[i].status = "pending" /\ work[i].availableAt <= now
      /\ scan'.todo = scan.todo \ {i} /\ scan'.lock = "held"
      /\ scan' \in [lock : {"free", "held"}, limit : Nat, todo : SUBSET Items, granted : Nat]
      /\ scan.todo \subseteq Items
  BY AdvanceFacts DEF VisitSkip
<1>2. UNCHANGED <<now, tasks, status, queueDeadline, executionDeadline, authorized, work, admitted,
                  allocated>>
  BY DEF VisitSkip
<1>3. TypeOK'
  BY <1>1, <1>2 DEF TypeOK
<1>4. CapacityExact'
  BY <1>2, ExactUnchanged
<1>5. CapacityHeld' /\ NothingStranded' /\ StartRecorded' /\ ScanSound'
  BY <1>1, <1>2 DEF CapacityHeld, NothingStranded, StartRecorded, ScanSound, Live, Unlocked
<1> QED BY <1>3, <1>4, <1>5

\* A candidate with a transition is queued work past its queue deadline.
LEMMA TransitionFacts ==
  ASSUME IInv, NEW i \in Items, VisitTransition(i)
  PROVE  /\ i[1] \in Executions /\ i = ExecuteItem(i[1])
         /\ status[i[1]] = "queued"
         /\ status' = [status EXCEPT ![i[1]] = "timed_out"]
         /\ ReleaseScopes({i[1]})
<1>1. QueueExpired(i)
  BY NoObsoleteCandidate DEF VisitTransition, Claimable, Advance
<1>2. {e \in {i[1]} : QueueExpired(i)} = {i[1]}
  BY <1>1
<1>3. ReleaseScopes({i[1]})
  BY <1>2 DEF VisitTransition
<1>4. status' = [status EXCEPT ![i[1]] = "timed_out"]
  BY <1>1 DEF VisitTransition
<1> QED BY <1>1, <1>3, <1>4, ItemCases DEF QueueExpired

\* A queued candidate past its queue deadline is settled and its unit freed.
LEMMA VisitTransitionInv ==
  ASSUME IInv, NEW i \in Items, VisitTransition(i)
  PROVE  IInv'
<1> USE DEF IInv
<1>1. /\ i[1] \in Executions
      /\ work[i].status = "pending" /\ work[i].availableAt <= now
      /\ scan'.todo = scan.todo \ {i} /\ scan'.lock = "held"
      /\ scan' \in [lock : {"free", "held"}, limit : Nat, todo : SUBSET Items, granted : Nat]
      /\ scan.todo \subseteq Items
  BY AdvanceFacts DEF VisitTransition
<1>2. /\ UNCHANGED <<now, tasks, queueDeadline, executionDeadline, authorized>>
      /\ work \in [Items -> WorkItem]
      /\ status \in [Executions -> Statuses \cup {"absent"}]
      /\ status[i[1]] = "queued" /\ i = ExecuteItem(i[1])
      /\ status' = [status EXCEPT ![i[1]] = "timed_out"]
      /\ work' = [work EXCEPT ![i] = Completed(work[i])]
  BY TransitionFacts DEF VisitTransition, TypeOK, CompleteCurrent
<1>3. Completed(work[i]) \in WorkItem /\ Completed(work[i]).status \in {"absent", "completed"}
  BY <1>2, CompletedItem
<1>4. /\ admitted' \in SUBSET Executions
      /\ allocated' \in [Scopes \cup {Global} -> Nat]
      /\ admitted' = admitted \ {i[1]}
      /\ CapacityExact'
  BY <1>1, TransitionFacts, ReleaseKeepsExact
<1>5. TypeOK'
  BY <1>1, <1>2, <1>3, <1>4 DEF TypeOK, Statuses, Terminal
<1>6. CapacityHeld'
  BY <1>1, <1>2, <1>3, <1>4, ItemsOf DEF CapacityHeld, Started, Terminal
<1>7. NothingStranded'
  BY <1>1, <1>2, <1>3, ItemsOf DEF NothingStranded, Live, Started, Terminal
<1>8. StartRecorded'
  BY <1>1, <1>2 DEF StartRecorded, Started
<1>9. ScanSound'
  BY <1>1, <1>2 DEF ScanSound, Unlocked
<1> QED BY <1>4, <1>5, <1>6, <1>7, <1>8, <1>9

\* A due interrupt settled by a caller without free capacity.
LEMMA VisitExpireInterruptedInv ==
  ASSUME IInv, NEW i \in Items, VisitExpireInterrupted(i)
  PROVE  IInv'
<1> USE DEF IInv
<1>1. /\ i[1] \in Executions
      /\ work[i].status = "pending" /\ work[i].availableAt <= now
      /\ scan'.todo = scan.todo \ {i} /\ scan'.lock = "held"
      /\ scan' \in [lock : {"free", "held"}, limit : Nat, todo : SUBSET Items, granted : Nat]
      /\ scan.todo \subseteq Items
  BY AdvanceFacts DEF VisitExpireInterrupted
<1>2. /\ UNCHANGED <<now, tasks, queueDeadline, executionDeadline, authorized>>
      /\ work \in [Items -> WorkItem]
      /\ status \in [Executions -> Statuses \cup {"absent"}]
      /\ i = ExpireItem(i[1])
      /\ status[i[1]] = "interrupted"
      /\ work' = CompleteAll({i[1]})
      /\ ReleaseScopes({i[1]})
  BY ItemCases DEF VisitExpireInterrupted, Claimable, Obsolete, TypeOK
<1>3. /\ status' = [e \in Executions |-> IF e \in {i[1]} THEN "timed_out" ELSE status[e]]
      /\ "timed_out" \in Terminal
      /\ {i[1]} \in SUBSET Executions
      /\ \A e \in {i[1]} : status[e] # "absent"
  BY <1>1, <1>2 DEF VisitExpireInterrupted, Terminal
<1>4. /\ status' \in [Executions -> Statuses \cup {"absent"}]
      /\ work' \in [Items -> WorkItem]
      /\ admitted' \in SUBSET Executions
      /\ allocated' \in [Scopes \cup {Global} -> Nat]
      /\ CapacityExact' /\ CapacityHeld' /\ NothingStranded' /\ StartRecorded'
  BY <1>2, <1>3, SettleInv
<1>5. TypeOK'
  BY <1>1, <1>2, <1>4 DEF TypeOK
<1>6. ScanSound'
  <2>1. ASSUME NEW j \in scan.todo, j # i PROVE j[1] # i[1]
    <3>1. j \in Items /\ work[j].status = "pending"
      BY <1>1 DEF ScanSound
    <3>2. ~Live(ExecuteItem(i[1]))
      BY <1>1, <1>2 DEF NothingStranded
    <3> QED BY <1>2, <2>1, <3>1, <3>2, ItemCases DEF Live
  <2>2. ASSUME NEW j \in scan'.todo PROVE work'[j] = work[j] /\ j \in scan.todo
    BY <1>1, <1>2, <1>3, <2>1, CompleteAllWork
  <2> QED BY <1>1, <1>2, <2>2 DEF ScanSound, Unlocked
<1> QED BY <1>4, <1>5, <1>6

\* A candidate is claimed, with a unit when it is to run.
LEMMA VisitGrantInv ==
  ASSUME IInv, NEW i \in Items, VisitGrant(i)
  PROVE  IInv'
<1> USE DEF IInv
<1>1. /\ i[1] \in Executions
      /\ work[i].status = "pending" /\ work[i].availableAt <= now
      /\ scan'.todo = scan.todo \ {i} /\ scan'.lock = "held"
      /\ scan' \in [lock : {"free", "held"}, limit : Nat, todo : SUBSET Items, granted : Nat]
      /\ scan.todo \subseteq Items
  BY AdvanceFacts DEF VisitGrant
<1>2. /\ UNCHANGED <<now, tasks, status, queueDeadline, executionDeadline, authorized>>
      /\ now \in Nat
      /\ work \in [Items -> WorkItem]
      /\ status \in [Executions -> Statuses \cup {"absent"}]
      /\ work' = [work EXCEPT ![i] = Granted(work[i])]
      /\ i[2] = "execute" => i = ExecuteItem(i[1]) /\ status[i[1]] = "queued"
      /\ i[2] # "execute" => i = ExpireItem(i[1]) /\ status[i[1]] = "interrupted"
  BY ItemCases DEF VisitGrant, Claimable, Obsolete, TypeOK
<1>3. /\ Granted(work[i]) \in WorkItem
      /\ Granted(work[i]).status = "claimed"
      /\ Granted(work[i]).availableAt = work[i].availableAt
  BY <1>2, GrantedItem
<1>4. /\ admitted \subseteq admitted' /\ admitted' \subseteq admitted \cup {i[1]}
      /\ i[2] = "execute" => i[1] \in admitted'
      /\ i[2] # "execute" => admitted' = admitted
      /\ admitted' \in SUBSET Executions
      /\ allocated' \in [Scopes \cup {Global} -> Nat]
      /\ CapacityExact'
  <2>1. CASE i[2] = "execute"
    <3>1. CanReserve(i[1]) /\ ReserveScopes(i[1])
      BY <2>1 DEF VisitGrant
    <3>2. /\ admitted' = admitted \cup {i[1]}
          /\ allocated' \in [Scopes \cup {Global} -> Nat]
          /\ CapacityExact'
      BY <1>1, <3>1, ReserveKeepsExact
    <3> QED BY <1>1, <2>1, <3>2 DEF TypeOK
  <2>2. CASE i[2] # "execute"
    <3>1. UNCHANGED <<admitted, allocated>>
      BY <2>2 DEF VisitGrant
    <3>2. CapacityExact'
      BY <3>1, ExactUnchanged
    <3> QED BY <2>2, <3>1, <3>2 DEF TypeOK
  <2> QED BY <2>1, <2>2
<1>5. TypeOK'
  BY <1>1, <1>2, <1>3, <1>4 DEF TypeOK
<1>6. CapacityHeld'
  BY <1>1, <1>2, <1>3, <1>4, ItemsOf DEF CapacityHeld, Started, Terminal
<1>7. NothingStranded'
  BY <1>1, <1>2, <1>3, ItemsOf DEF NothingStranded, Live, Started, Terminal
<1>8. StartRecorded'
  BY <1>2 DEF StartRecorded
<1>9. ScanSound'
  BY <1>1, <1>2 DEF ScanSound, Unlocked
<1> QED BY <1>4, <1>5, <1>6, <1>7, <1>8, <1>9

\* The end of claim_work, lease renewal and the passing of time.
LEMMA QuietInv ==
  ASSUME IInv, ReturnBatch \/ Tick \/ \E c \in Claims : RenewClaim(c)
  PROVE  IInv'
<1> USE DEF IInv
<1>1. CASE ReturnBatch
  <2>1. /\ UNCHANGED <<now, tasks, status, queueDeadline, executionDeadline, authorized, work,
                       admitted, allocated>>
        /\ scan' = NoScan
    BY <1>1 DEF ReturnBatch
  <2>2. TypeOK'
    BY <2>1 DEF TypeOK, NoScan
  <2>3. CapacityExact'
    BY <2>1, ExactUnchanged
  <2>4. CapacityHeld' /\ NothingStranded' /\ StartRecorded' /\ ScanSound'
    BY <2>1 DEF CapacityHeld, NothingStranded, StartRecorded, ScanSound, Live, Unlocked, NoScan
  <2> QED BY <2>2, <2>3, <2>4
<1>2. CASE Tick
  <2>1. /\ UNCHANGED <<tasks, status, queueDeadline, executionDeadline, authorized, work,
                       admitted, allocated, scan>>
        /\ now' = now + 1
    BY <1>2 DEF Tick
  <2>2. TypeOK'
    BY <2>1 DEF TypeOK
  <2>3. CapacityExact'
    BY <2>1, ExactUnchanged
  <2>4. CapacityHeld' /\ NothingStranded' /\ StartRecorded'
    BY <2>1 DEF CapacityHeld, NothingStranded, StartRecorded, Live
  <2>5. ScanSound'
    BY <1>2, <2>1 DEF ScanSound, Unlocked, Tick
  <2> QED BY <2>2, <2>3, <2>4, <2>5
<1>3. CASE \E c \in Claims : RenewClaim(c)
  <2>1. PICK c \in Claims : RenewClaim(c)
    BY <1>3
  <2>2. /\ UNCHANGED <<now, tasks, status, queueDeadline, executionDeadline, authorized, admitted,
                       allocated, scan>>
        /\ work' = [work EXCEPT ![c.item] = [work[c.item] EXCEPT !.leaseUntil = now + LeaseDuration]]
        /\ scan.todo = {} /\ now \in Nat /\ work \in [Items -> WorkItem] /\ c.item \in Items
    BY <2>1 DEF RenewClaim, ScanSound, TypeOK, Claims
  <2>3. /\ [work[c.item] EXCEPT !.leaseUntil = now + LeaseDuration] \in WorkItem
        /\ [work[c.item] EXCEPT !.leaseUntil = now + LeaseDuration].status = work[c.item].status
        /\ [work[c.item] EXCEPT !.leaseUntil = now + LeaseDuration].availableAt
              = work[c.item].availableAt
    <3>1. now + LeaseDuration \in Nat /\ work[c.item] \in WorkItem
      BY <2>2, TimeAssumption
    <3> QED BY <3>1 DEF WorkItem
  <2>4. work' \in [Items -> WorkItem]
    BY <2>2, <2>3
  <2>5. \A i \in Items :
          work'[i].status = work[i].status /\ work'[i].availableAt = work[i].availableAt
    BY <2>2, <2>3
  <2>6. TypeOK'
    BY <2>2, <2>4 DEF TypeOK
  <2>7. CapacityExact'
    BY <2>2, ExactUnchanged
  <2>8. CapacityHeld' /\ NothingStranded' /\ StartRecorded'
    BY <2>2, <2>5, ItemsOf DEF CapacityHeld, NothingStranded, StartRecorded, Live
  <2>9. ScanSound'
    BY <2>2 DEF ScanSound, Unlocked
  <2> QED BY <2>6, <2>7, <2>8, <2>9
<1> QED BY <1>1, <1>2, <1>3

\* The authorization of the only start of an execution.
LEMMA AuthorizeStartInv ==
  ASSUME IInv, NEW c \in Claims, AuthorizeStart(c)
  PROVE  IInv'
<1> USE DEF IInv
<1> DEFINE e == c.item[1]
<1>1. /\ c.item \in Items /\ e \in Executions /\ c.item = ExecuteItem(e)
  BY ItemCases DEF Claims, AuthorizeStart
<1>2. /\ UNCHANGED <<now, tasks, queueDeadline, work, admitted, allocated, scan>>
      /\ now \in Nat /\ scan.todo = {}
      /\ status \in [Executions -> Statuses \cup {"absent"}]
      /\ executionDeadline \in [Executions -> Nat]
      /\ authorized \in SUBSET Executions
      /\ status[e] = "queued" /\ e \in admitted /\ e \notin authorized
      /\ status' = [status EXCEPT ![e] = "running"]
      /\ executionDeadline' = [executionDeadline EXCEPT ![e] = now + ExecutionTimeout]
      /\ authorized' = authorized \cup {e}
      /\ work[ExecuteItem(e)].status = "claimed"
  BY <1>1 DEF AuthorizeStart, ValidClaim, TypeOK, ScanSound
<1> HIDE DEF e
<1>3. now + ExecutionTimeout \in Nat /\ now + ExecutionTimeout # NoTime
  BY <1>2, TimeAssumption DEF NoTime
<1>4. TypeOK'
  BY <1>1, <1>2, <1>3 DEF TypeOK, Statuses, Started
<1>5. CapacityExact'
  BY <1>2, ExactUnchanged
<1>6. CapacityHeld' /\ NothingStranded'
  BY <1>1, <1>2, ItemsOf DEF CapacityHeld, NothingStranded, Live, Started, Terminal
<1>7. StartRecorded'
  BY <1>1, <1>2, <1>3 DEF StartRecorded, Started
<1>8. ScanSound'
  BY <1>2 DEF ScanSound, Unlocked
<1> QED BY <1>4, <1>5, <1>6, <1>7, <1>8

\* What a valid claim says of its execution.
LEMMA ClaimedExecution ==
  ASSUME IInv, NEW c \in Claims, ValidClaim(c)
  PROVE  /\ c.item \in Items /\ c.item[1] \in Executions
         /\ work[c.item].status = "claimed"
         /\ c.item[2] = "execute" =>
              /\ c.item = ExecuteItem(c.item[1])
              /\ status[c.item[1]] \in {"queued"} \cup Started
              /\ c.item[1] \in admitted
         /\ c.item[2] # "execute" =>
              c.item = ExpireItem(c.item[1]) /\ status[c.item[1]] = "interrupted"
<1>1. c.item \in Items /\ c.item[1] \in Executions /\ work[c.item].status = "claimed"
  BY ItemCases DEF Claims, ValidClaim
<1>2. status[c.item[1]] \in Statuses \cup {"absent"}
  BY <1>1 DEF IInv, TypeOK
<1>3. CASE c.item[2] = "execute"
  <2>1. c.item = ExecuteItem(c.item[1])
    BY <1>1, <1>3, ItemCases
  <2>2. c.item[1] \in admitted
    BY <1>1, <2>1 DEF IInv, CapacityHeld
  <2>3. status[c.item[1]] \in {"queued"} \cup Started
    BY <1>1, <1>2, <2>1 DEF IInv, NothingStranded, Live, Statuses
  <2> QED BY <1>1, <1>3, <2>1, <2>2, <2>3
<1>4. CASE c.item[2] # "execute"
  <2>1. c.item = ExpireItem(c.item[1])
    BY <1>1, <1>4, ItemCases
  <2>2. status[c.item[1]] = "interrupted"
    BY <1>1, <1>2, <2>1 DEF IInv, NothingStranded, Live, Statuses
  <2> QED BY <1>1, <1>4, <2>1, <2>2
<1> QED BY <1>3, <1>4

\* An interrupted run hands its work over to the deadline check.
LEMMA MarkInterruptedInv ==
  ASSUME IInv, NEW c \in Claims, c.item[2] = "execute", MarkInterrupted(c)
  PROVE  IInv'
<1> USE DEF IInv
<1> DEFINE e == c.item[1]
<1>1. /\ ValidClaim(c)
      /\ UNCHANGED <<now, tasks, queueDeadline, executionDeadline, authorized, admitted, allocated,
                     scan>>
      /\ scan.todo = {}
      /\ executionDeadline[e] # NoTime
      /\ status' = [status EXCEPT ![e] = "interrupted"]
      /\ work' = [CompleteCurrent(c.item) EXCEPT
                    ![ExpireItem(e)] = Created(CompleteCurrent(c.item)[ExpireItem(e)], executionDeadline[e])]
  BY DEF MarkInterrupted, ScanSound
<1>2. /\ e \in Executions /\ c.item = ExecuteItem(e)
      /\ status[e] \in {"queued"} \cup Started /\ e \in admitted
  BY <1>1, ClaimedExecution
<1>3. /\ work \in [Items -> WorkItem]
      /\ status \in [Executions -> Statuses \cup {"absent"}]
      /\ executionDeadline \in [Executions -> Nat]
  BY DEF TypeOK
<1> HIDE DEF e
<1>4. e \in authorized /\ status[e] \in Started
  BY <1>1, <1>2 DEF StartRecorded
<1>5. /\ Completed(work[ExecuteItem(e)]) \in WorkItem
      /\ Completed(work[ExecuteItem(e)]).status \in {"absent", "completed"}
  BY <1>2, <1>3, ItemsOf, CompletedItem
<1>6. /\ Created(work[ExpireItem(e)], executionDeadline[e]) \in WorkItem
      /\ Created(work[ExpireItem(e)], executionDeadline[e]).status = "pending"
      /\ Created(work[ExpireItem(e)], executionDeadline[e]).availableAt = executionDeadline[e]
  BY <1>2, <1>3, ItemsOf, CreatedItem, SMTT(20)
<1>7. work' = [work EXCEPT ![ExecuteItem(e)] = Completed(work[ExecuteItem(e)]),
                           ![ExpireItem(e)] = Created(work[ExpireItem(e)], executionDeadline[e])]
  BY <1>1, <1>2, <1>3, ItemsOf DEF CompleteCurrent
<1>8. TypeOK'
  <2>1. work' \in [Items -> WorkItem]
    BY <1>2, <1>3, <1>5, <1>6, <1>7, ItemsOf
  <2>2. status' \in [Executions -> Statuses \cup {"absent"}]
    BY <1>1, <1>3 DEF Statuses
  <2> QED BY <1>1, <2>1, <2>2 DEF TypeOK
<1>9. CapacityExact'
  BY <1>1, ExactUnchanged
<1>10. CapacityHeld'
  BY <1>1, <1>2, <1>3, <1>5, <1>6, <1>7, ItemsOf DEF CapacityHeld, Started, Terminal
<1>11. NothingStranded'
  BY <1>1, <1>2, <1>3, <1>5, <1>6, <1>7, ItemsOf DEF NothingStranded, Live, Started, Terminal
<1>12. StartRecorded'
  BY <1>1, <1>2, <1>3, <1>4 DEF StartRecorded, Started
<1>13. ScanSound'
  BY <1>1 DEF ScanSound, Unlocked
<1> QED BY <1>8, <1>9, <1>10, <1>11, <1>12, <1>13

\* The outcome reported by the holder of a claim.
LEMMA FinishInv ==
  ASSUME IInv, NEW c \in Claims, NEW outcome,
         c.item[2] = "expire_interrupt" => outcome = "timed_out",
         FinishExecution(c, outcome)
  PROVE  IInv'
<1> USE DEF IInv
<1> DEFINE e == c.item[1]
<1>1. /\ ValidClaim(c)
      /\ UNCHANGED <<now, tasks, queueDeadline, executionDeadline, authorized, scan>>
      /\ scan.todo = {}
      /\ outcome \in Terminal \cup {"needs_attention"}
      /\ status' = [status EXCEPT ![e] = outcome]
      /\ work' = CompleteAll({e})
  BY DEF FinishExecution, ScanSound
<1>2. /\ e \in Executions
      /\ status[e] \in {"queued", "interrupted"} \cup Started
      /\ c.item[2] = "execute" => e \in admitted
      /\ c.item[2] \in {"execute", "expire_interrupt"}
  BY <1>1, ClaimedExecution, ItemCases
<1>3. /\ work \in [Items -> WorkItem]
      /\ status \in [Executions -> Statuses \cup {"absent"}]
  BY DEF TypeOK
<1>4. ScanSound'
  BY <1>1 DEF ScanSound, Unlocked
<1>5. CASE outcome \in Terminal
  <2>1. ReleaseScopes({e})
    BY <1>5 DEF FinishExecution
  <2> HIDE DEF e
  <2>2. /\ status' = [f \in Executions |-> IF f \in {e} THEN outcome ELSE status[f]]
        /\ {e} \in SUBSET Executions
        /\ \A f \in {e} : status[f] # "absent"
    BY <1>1, <1>2, <1>3 DEF Started
  <2>3. /\ status' \in [Executions -> Statuses \cup {"absent"}]
        /\ work' \in [Items -> WorkItem]
        /\ admitted' \in SUBSET Executions
        /\ allocated' \in [Scopes \cup {Global} -> Nat]
        /\ CapacityExact' /\ CapacityHeld' /\ NothingStranded' /\ StartRecorded'
    BY <1>1, <1>5, <2>1, <2>2, SettleInv
  <2>4. TypeOK'
    BY <1>1, <2>3 DEF TypeOK
  <2> QED BY <1>4, <2>3, <2>4
<1>6. CASE outcome \notin Terminal
  <2>1. outcome = "needs_attention" /\ UNCHANGED <<admitted, allocated>> /\ e \in admitted
    BY <1>1, <1>2, <1>6 DEF FinishExecution, Terminal
  <2> HIDE DEF e
  <2>2. /\ work' \in [Items -> WorkItem]
        /\ \A i \in Items :
             /\ i[1] \in {e} => work'[i].status \in {"absent", "completed"}
             /\ i[1] \notin {e} => work'[i] = work[i]
    BY <1>1, <1>2, <1>3, CompleteAllWork
  <2>3. TypeOK'
    BY <1>1, <1>2, <1>3, <2>1, <2>2 DEF TypeOK, Statuses
  <2>4. CapacityExact'
    BY <2>1, ExactUnchanged
  <2>5. CapacityHeld'
    <3>1. \A f \in Executions : status'[f] = IF f = e THEN "needs_attention" ELSE status[f]
      BY <1>1, <1>3, <2>1
    <3> QED BY <1>2, <2>1, <2>2, <3>1, ItemsOf DEF CapacityHeld, Started, Terminal
  <2>6. NothingStranded'
    <3>1. \A f \in Executions : status'[f] = IF f = e THEN "needs_attention" ELSE status[f]
      BY <1>1, <1>3, <2>1
    <3>2. ASSUME NEW f \in Executions, f # e
          PROVE  /\ work'[ExecuteItem(f)] = work[ExecuteItem(f)]
                 /\ work'[ExpireItem(f)] = work[ExpireItem(f)]
      BY <2>2, <3>2, ItemsOf
    <3>3. /\ work'[ExecuteItem(e)].status \in {"absent", "completed"}
          /\ work'[ExpireItem(e)].status \in {"absent", "completed"}
      BY <1>2, <2>2, ItemsOf
    <3>4. executionDeadline' = executionDeadline
      BY <1>1
    <3> QED BY <1>2, <3>1, <3>2, <3>3, <3>4, ZenonT(40) DEF NothingStranded, Live, Started, Terminal, ExecuteItem,
               ExpireItem
  <2>7. StartRecorded'
    BY <1>1, <1>2, <1>3, <2>1 DEF StartRecorded, Started
  <2> QED BY <1>4, <2>3, <2>4, <2>5, <2>6, <2>7
<1> QED BY <1>5, <1>6

\* Every step keeps the invariant.
LEMMA NextInv == IInv /\ [Next]_vars => IInv'
<1> SUFFICES ASSUME IInv, [Next]_vars PROVE IInv'
  OBVIOUS
<1>1. CASE Command
  <2>1. CASE \E e \in Executions : EnqueueExecution(e)
    BY <2>1, EnqueueInv DEF EnqueueExecution
  <2>2. CASE \E e, original \in Executions : RetryExecution(original, e)
    BY <2>2, EnqueueInv DEF RetryExecution
  <2>3. CASE \E e \in Executions : CancelExecution(e)
    BY <2>3, CancelInv
  <2>4. CASE \E e \in Executions, resolution \in Resolutions : ResolveExecution(e, resolution)
    BY <2>4, ResolveInv
  <2>5. CASE \E t \in Tasks : DeleteTask(t)
    BY <2>5, DeleteTaskInv
  <2> QED BY <1>1, <2>1, <2>2, <2>3, <2>4, <2>5 DEF Command
<1>2. CASE Claiming
  <2>1. CASE \E limit \in 0..MaxBatch : ClaimWork(limit)
    BY <2>1, ClaimWorkInv, LimitAssumption
  <2>2. CASE \E i \in Items : Visit(i)
    BY <2>2, VisitSkipInv, VisitTransitionInv, VisitExpireInterruptedInv, VisitGrantInv DEF Visit
  <2>3. CASE ReturnBatch
    BY <2>3, QuietInv
  <2> QED BY <1>2, <2>1, <2>2, <2>3 DEF Claiming
<1>3. CASE Holding
  <2>1. PICK c \in Claims :
          \/ RenewClaim(c)
          \/ AuthorizeStart(c)
          \/ c.item[2] = "execute" /\ MarkInterrupted(c)
          \/ \E outcome \in Terminal \cup {"needs_attention"} :
               /\ c.item[2] = "expire_interrupt" => outcome = "timed_out"
               /\ FinishExecution(c, outcome)
    BY <1>3 DEF Holding
  <2> QED BY <2>1, QuietInv, AuthorizeStartInv, MarkInterruptedInv, FinishInv
<1>4. CASE Tick
  BY <1>4, QuietInv
<1>5. CASE UNCHANGED vars
  BY <1>5 DEF vars, IInv, TypeOK, CapacityExact, CapacityHeld, NothingStranded, StartRecorded,
     ScanSound, WithinLimits, Members, Live, Unlocked
<1> QED BY <1>1, <1>2, <1>3, <1>4, <1>5 DEF Next

\* The inductive invariant holds in every reachable state.
THEOREM StoreInvariant == Spec => []IInv
BY InitInv, NextInv, PTL DEF Spec

\* Type correctness of the store.
THEOREM StoreTypeOK == Spec => []TypeOK
<1>1. IInv => TypeOK
  BY DEF IInv
<1> QED BY <1>1, StoreInvariant, PTL

\* Capacity is conserved: the counters of _scope_allocations always equal the
\* admitted executions and stay within the limits, and the executions that may
\* still have a target running are exactly accounted for.
THEOREM CapacityConserved == Spec => [](CapacityExact /\ CapacityHeld)
<1>1. IInv => CapacityExact /\ CapacityHeld
  BY DEF IInv
<1> QED BY <1>1, StoreInvariant, PTL

\* No execution is stranded by any interleaving of claims, lost claims,
\* cancellations and deletions.
THEOREM NoExecutionStranded == Spec => [](NothingStranded /\ StartRecorded)
<1>1. IInv => NothingStranded /\ StartRecorded
  BY DEF IInv
<1> QED BY <1>1, StoreInvariant, PTL

-----------------------------------------------------------------------------
(* The store implements the lifecycle of ExecutionLifecycle, with the       *)
(* admitted executions as those that occupy capacity.                       *)

\* A set of executions settles with one outcome.
LEMMA SettleRefines ==
  ASSUME NEW E \in SUBSET Executions, NEW outcome \in Terminal,
         \A e \in E : outcome \in Lifecycle!Outcomes(status[e]),
         status' = [e \in Executions |-> IF e \in E THEN outcome ELSE status[e]],
         ReleaseScopes(E)
  PROVE  Lifecycle!Next
<1>1. Lifecycle!Settle(E, outcome)
  BY DEF Lifecycle!Settle, Lifecycle!Move, ReleaseScopes
<1> QED BY <1>1 DEF Lifecycle!Next, Terminal

\* A step on a single execution that leaves the others alone.
LEMMA MoveOne ==
  ASSUME status \in [Executions -> Statuses \cup {"absent"}], NEW e \in Executions, NEW s,
         status' = [status EXCEPT ![e] = s]
  PROVE  status' = [f \in Executions |-> IF f \in {e} THEN s ELSE status[f]]
OBVIOUS

\* Every step of the store is a step of the lifecycle or leaves it alone.
LEMMA StepRefines ==
  ASSUME IInv, IInv', [Next]_vars
  PROVE  [Lifecycle!Next]_<<status, admitted>>
<1>1. /\ status \in [Executions -> Statuses \cup {"absent"}]
      /\ work \in [Items -> WorkItem]
  BY DEF IInv, TypeOK
<1>2. ASSUME NEW e \in Executions, Enqueue(e) PROVE Lifecycle!Next
  <2>1. Lifecycle!Submit(e)
    BY <1>1, <1>2, MoveOne DEF Enqueue, Lifecycle!Submit, Lifecycle!Move
  <2> QED BY <2>1 DEF Lifecycle!Next
<1>3. ASSUME NEW e \in Executions, CancelExecution(e) PROVE Lifecycle!Next
  <2>1. CASE status[e] \in {"queued", "interrupted"}
    <3>1. /\ status' = [f \in Executions |-> IF f \in {e} THEN "cancelled" ELSE status[f]]
          /\ ReleaseScopes({e})
      BY <1>1, <1>3, <2>1, MoveOne DEF CancelExecution
    <3>2. \A f \in {e} : "cancelled" \in Lifecycle!Outcomes(status[f])
      BY <2>1 DEF Lifecycle!Outcomes, Lifecycle!Unstarted, Lifecycle!Active
    <3> QED BY <3>1, <3>2, SettleRefines DEF Terminal
  <2>2. CASE status[e] \notin {"queued", "interrupted"}
    <3>1. Lifecycle!RequestCancel(e)
      BY <1>1, <1>3, <2>2, MoveOne DEF CancelExecution, Lifecycle!RequestCancel, Lifecycle!Move
    <3> QED BY <3>1 DEF Lifecycle!Next
  <2> QED BY <2>1, <2>2
<1>4. ASSUME NEW e \in Executions, NEW resolution \in Resolutions, ResolveExecution(e, resolution)
      PROVE  Lifecycle!Next
  <2>1. /\ status' = [f \in Executions |-> IF f \in {e} THEN resolution ELSE status[f]]
        /\ ReleaseScopes({e})
        /\ status[e] = "needs_attention"
    BY <1>1, <1>4, MoveOne DEF ResolveExecution
  <2>2. \A f \in {e} : resolution \in Lifecycle!Outcomes(status[f])
    BY <2>1 DEF Lifecycle!Outcomes, Lifecycle!Unstarted, Lifecycle!Active, Resolutions
  <2> QED BY <2>1, <2>2, SettleRefines DEF Terminal, Resolutions
<1>5. ASSUME NEW t \in Tasks, DeleteTask(t) PROVE Lifecycle!Next
  <2>1. /\ status' = [f \in Executions |-> IF f \in QueuedIn(t) THEN "cancelled" ELSE status[f]]
        /\ ReleaseScopes(QueuedIn(t))
    BY <1>5 DEF DeleteTask
  <2>2. \A f \in QueuedIn(t) : "cancelled" \in Lifecycle!Outcomes(status[f])
    BY DEF Lifecycle!Outcomes, Lifecycle!Unstarted, Lifecycle!Active, QueuedIn
  <2>3. QueuedIn(t) \in SUBSET Executions
    BY DEF QueuedIn
  <2> QED BY <2>1, <2>2, <2>3, SettleRefines DEF Terminal
<1>6. ASSUME NEW limit, ClaimWork(limit) PROVE Lifecycle!Next
  <2> DEFINE E == {e \in Executions : LostAfterStart(ExecuteItem(e))}
  <2>1. ASSUME NEW e \in E PROVE status[e] \in {"running", "cancel_requested"}
    <3>1. e \in authorized /\ work[ExecuteItem(e)].status = "claimed"
      BY ItemsOf DEF LostAfterStart, Expired
    <3> QED BY <1>1, <3>1 DEF IInv, NothingStranded, StartRecorded, Live, Started, Terminal, Statuses
  <2>2. Lifecycle!Move(E, "needs_attention") /\ UNCHANGED admitted
    BY <1>6 DEF ClaimWork, RecoverStatus, Lifecycle!Move
  <2>3. Lifecycle!Doubt(E)
    BY <2>1, <2>2 DEF Lifecycle!Doubt, Lifecycle!Active
  <2> QED BY <2>3 DEF Lifecycle!Next
<1>7. ASSUME NEW i \in Items, Visit(i) PROVE Lifecycle!Next \/ UNCHANGED <<status, admitted>>
  <2>1. CASE VisitSkip(i)
    BY <2>1 DEF VisitSkip
  <2>2. CASE VisitTransition(i)
    <3>1. /\ status' = [f \in Executions |-> IF f \in {i[1]} THEN "timed_out" ELSE status[f]]
          /\ ReleaseScopes({i[1]}) /\ status[i[1]] = "queued" /\ i[1] \in Executions
      BY <1>1, <2>2, MoveOne, TransitionFacts
    <3>2. \A f \in {i[1]} : "timed_out" \in Lifecycle!Outcomes(status[f])
      BY <3>1 DEF Lifecycle!Outcomes, Lifecycle!Unstarted, Lifecycle!Active
    <3> QED BY <3>1, <3>2, SettleRefines DEF Terminal
  <2>3. CASE VisitExpireInterrupted(i)
    <3>1. /\ status' = [f \in Executions |-> IF f \in {i[1]} THEN "timed_out" ELSE status[f]]
          /\ ReleaseScopes({i[1]}) /\ status[i[1]] = "interrupted" /\ i[1] \in Executions
      BY <1>1, <2>3, MoveOne, ItemCases DEF VisitExpireInterrupted, Claimable, Obsolete
    <3>2. \A f \in {i[1]} : "timed_out" \in Lifecycle!Outcomes(status[f])
      BY <3>1 DEF Lifecycle!Outcomes, Lifecycle!Unstarted, Lifecycle!Active
    <3> QED BY <3>1, <3>2, SettleRefines DEF Terminal
  <2>4. CASE VisitGrant(i)
    <3>1. CASE i[2] = "execute"
      <4>1. /\ i[1] \in Executions /\ status[i[1]] = "queued"
            /\ admitted' = admitted \cup {i[1]} /\ status' = status
        BY <2>4, <3>1, ItemCases DEF VisitGrant, Claimable, Obsolete, ReserveScopes
      <4>2. WithinLimits(admitted')
        BY DEF IInv, CapacityExact
      <4>3. Lifecycle!Admit(i[1])
        BY <4>1, <4>2 DEF Lifecycle!Admit
      <4> QED BY <4>1, <4>3 DEF Lifecycle!Next
    <3>2. CASE i[2] # "execute"
      BY <2>4, <3>2 DEF VisitGrant
    <3> QED BY <3>1, <3>2
  <2> QED BY <1>7, <2>1, <2>2, <2>3, <2>4 DEF Visit
<1>8. ASSUME NEW c \in Claims, AuthorizeStart(c) PROVE Lifecycle!Next
  <2>1. c.item[1] \in Executions
    BY <1>8, ItemCases DEF Claims
  <2>2. Lifecycle!Start(c.item[1])
    BY <1>1, <1>8, <2>1, MoveOne DEF AuthorizeStart, Lifecycle!Start, Lifecycle!Move
  <2> QED BY <2>1, <2>2 DEF Lifecycle!Next
<1>9. ASSUME NEW c \in Claims, c.item[2] = "execute", MarkInterrupted(c) PROVE Lifecycle!Next
  <2>1. /\ c.item[1] \in Executions
        /\ status[c.item[1]] \in {"queued"} \cup Started
        /\ executionDeadline[c.item[1]] # NoTime
    BY <1>9, ClaimedExecution DEF MarkInterrupted
  <2>2. status[c.item[1]] \in Started
    BY <2>1 DEF IInv, StartRecorded
  <2>3. Lifecycle!Interrupt(c.item[1])
    BY <1>1, <1>9, <2>1, <2>2, MoveOne DEF MarkInterrupted, Lifecycle!Interrupt, Lifecycle!Move,
       Lifecycle!Active, Started
  <2> QED BY <2>1, <2>3 DEF Lifecycle!Next
<1>10. ASSUME NEW c \in Claims, NEW outcome \in Terminal \cup {"needs_attention"},
              c.item[2] = "expire_interrupt" => outcome = "timed_out",
              c.item[1] \notin authorized => outcome = "failed",
              FinishExecution(c, outcome)
       PROVE  Lifecycle!Next
  <2> DEFINE e == c.item[1]
  <2>1. /\ e \in Executions
        /\ c.item[2] = "execute" => status[e] \in {"queued"} \cup Started
        /\ c.item[2] = "expire_interrupt" => status[e] = "interrupted"
        /\ c.item[2] \in {"execute", "expire_interrupt"}
    BY <1>10, ClaimedExecution, ItemCases DEF FinishExecution
  <2>2. status' = [f \in Executions |-> IF f \in {e} THEN outcome ELSE status[f]]
    BY <1>1, <1>10, <2>1, MoveOne DEF FinishExecution
  <2>3. status[e] = "queued" => outcome = "failed"
    BY <1>10, <2>1 DEF IInv, StartRecorded
  <2>4. CASE outcome \in Terminal
    <3>1. ReleaseScopes({e})
      BY <1>10, <2>4 DEF FinishExecution
    <3>2. outcome \in Lifecycle!Outcomes(status[e])
      BY <1>10, <2>1, <2>3, <2>4 DEF Lifecycle!Outcomes, Lifecycle!Unstarted, Lifecycle!Active, Started,
         Terminal
    <3> QED BY <2>1, <2>2, <2>4, <3>1, <3>2, SettleRefines
  <2>5. CASE outcome \notin Terminal
    <3>1. outcome = "needs_attention" /\ UNCHANGED admitted
      BY <1>10, <2>5 DEF FinishExecution
    <3>2. status[e] \in Started
      BY <1>10, <2>1, <2>3, <3>1
    <3>3. Lifecycle!Doubt({e})
      BY <2>2, <3>1, <3>2 DEF Lifecycle!Doubt, Lifecycle!Move, Lifecycle!Active, Started
    <3> QED BY <2>1, <3>3 DEF Lifecycle!Next
  <2> QED BY <2>4, <2>5
<1>11. CASE Command
  BY <1>2, <1>3, <1>4, <1>5, <1>11 DEF Command, EnqueueExecution, RetryExecution
<1>12. CASE Claiming
  <2>1. ReturnBatch => UNCHANGED <<status, admitted>>
    BY DEF ReturnBatch
  <2> QED BY <1>6, <1>7, <1>12, <2>1 DEF Claiming
<1>13. CASE Holding
  <2>1. \A c \in Claims : RenewClaim(c) => UNCHANGED <<status, admitted>>
    BY DEF RenewClaim
  <2> QED BY <1>8, <1>9, <1>10, <1>13, <2>1 DEF Holding
<1>14. CASE Tick \/ UNCHANGED vars
  BY <1>14 DEF Tick, vars
<1> QED BY <1>11, <1>12, <1>13, <1>14 DEF Next

\* The store implements the lifecycle it promises its observers.
THEOREM StoreRefinesLifecycle == Spec => LifecycleSpec
<1>1. Init => Lifecycle!Init
  BY DEF Init, Lifecycle!Init
<1>2. IInv /\ IInv' /\ [Next]_vars => [Lifecycle!Next]_Lifecycle!observed
  BY StepRefines DEF Lifecycle!observed
<1> QED BY <1>1, <1>2, StoreInvariant, PTL DEF Spec, LifecycleSpec, Lifecycle!Spec

\* No step changes the outcome of a finished execution.
THEOREM OutcomesAreFinal == Spec => OutcomeIsFinal
<1>1. ASSUME IInv, IInv', [Next]_vars
      PROVE  \A e \in Executions : status[e] \in Terminal => status'[e] = status[e]
  <2>1. [Lifecycle!Next]_<<status, admitted>>
    BY <1>1, StepRefines
  <2>2. ASSUME NEW e \in Executions, status[e] \in Terminal PROVE status'[e] = status[e]
    BY <2>1, <2>2 DEF Lifecycle!Next, Lifecycle!Submit, Lifecycle!Admit, Lifecycle!Start,
       Lifecycle!RequestCancel, Lifecycle!Interrupt, Lifecycle!Doubt, Lifecycle!Settle,
       Lifecycle!Move, Lifecycle!Outcomes, Lifecycle!Unstarted, Lifecycle!Active, Terminal
  <2> QED BY <2>2
<1>2. IInv /\ IInv' /\ [Next]_vars =>
        [\A e \in Executions : status[e] \in Terminal => status'[e] = status[e]]_vars
  BY <1>1
<1> QED BY <1>2, StoreInvariant, PTL DEF Spec, OutcomeIsFinal

-----------------------------------------------------------------------------
(* Fences.                                                                  *)

\* What a step may do to a work item: nothing; end or suspend its claim; grant it with the
\* next fence; renew a claim that is still valid.
ItemMoves(i) ==
  \/ work'[i] = work[i]
  \/ work'[i].status # "claimed" /\ work'[i].fence = work[i].fence
  \/ work'[i].fence = work[i].fence + 1 /\ work[i].status = "pending" /\ i \in scan.todo
  \/ work'[i].fence = work[i].fence /\ work[i].status = "claimed" /\ work[i].leaseUntil > now

LEMMA CompletedMoves ==
  ASSUME work \in [Items -> WorkItem], NEW i \in Items, work'[i] = work[i] \/ work'[i] = Completed(work[i])
  PROVE  ItemMoves(i)
BY CompletedItem DEF ItemMoves

LEMMA CreatedMoves ==
  ASSUME work \in [Items -> WorkItem], NEW i \in Items, NEW at, work'[i] = Created(work[i], at)
  PROVE  ItemMoves(i)
BY DEF ItemMoves, Created, WorkItem

LEMMA StepMovesItems ==
  ASSUME IInv, [Next]_vars
  PROVE  /\ now' \in Nat /\ now <= now'
         /\ \A i \in Items : ItemMoves(i)
<1>1. work \in [Items -> WorkItem] /\ now \in Nat /\ ScanSound
  BY DEF IInv, TypeOK
<1>2. CASE UNCHANGED work /\ now' \in {now, now + 1}
  BY <1>1, <1>2 DEF ItemMoves
<1>3. ASSUME NEW e \in Executions, Enqueue(e) PROVE now' = now /\ \A i \in Items : ItemMoves(i)
  <2>1. ASSUME NEW i \in Items PROVE work'[i] = work[i] \/ work'[i] = Created(work[i], now)
    BY <1>1, <1>3 DEF Enqueue
  <2>2. ASSUME NEW i \in Items, work'[i] = work[i] PROVE ItemMoves(i)
    BY <2>2 DEF ItemMoves
  <2> QED BY <1>1, <1>3, <2>1, <2>2, CreatedMoves DEF Enqueue
<1>4. ASSUME NEW E, work' = CompleteAll(E) PROVE \A i \in Items : ItemMoves(i)
  BY <1>1, <1>4, CompletedMoves DEF CompleteAll
<1>5. CASE Command
  <2>1. CASE \E e \in Executions : EnqueueExecution(e)
    BY <1>1, <1>3, <2>1 DEF EnqueueExecution
  <2>2. CASE \E e, original \in Executions : RetryExecution(original, e)
    BY <1>1, <1>3, <2>2 DEF RetryExecution
  <2>3. CASE \E e \in Executions : CancelExecution(e)
    BY <1>1, <1>2, <1>4, <2>3 DEF CancelExecution
  <2>4. CASE \E e \in Executions, resolution \in Resolutions : ResolveExecution(e, resolution)
    BY <1>2, <2>4 DEF ResolveExecution
  <2>5. CASE \E t \in Tasks : DeleteTask(t)
    BY <1>1, <1>4, <2>5 DEF DeleteTask
  <2> QED BY <1>5, <2>1, <2>2, <2>3, <2>4, <2>5 DEF Command
<1>6. CASE Claiming
  <2>1. ASSUME NEW limit, ClaimWork(limit) PROVE now' = now /\ \A i \in Items : ItemMoves(i)
    <3>1. ASSUME NEW i \in Items PROVE ItemMoves(i)
      <4>1. CASE work'[i] = work[i] \/ work'[i] = Completed(work[i])
        BY <1>1, <4>1, CompletedMoves
      <4>2. CASE work'[i] = [work[i] EXCEPT !.status = "pending", !.leaseUntil = NoTime]
        BY <1>1, <4>2 DEF ItemMoves, WorkItem
      <4> QED BY <2>1, <4>1, <4>2 DEF ClaimWork, RecoverWork
    <3> QED BY <2>1, <3>1 DEF ClaimWork
  <2>2. ASSUME NEW j \in Items, VisitTransition(j) PROVE now' = now /\ \A i \in Items : ItemMoves(i)
    BY <1>1, <2>2, CompletedMoves DEF VisitTransition, CompleteCurrent
  <2>3. ASSUME NEW j \in Items, VisitExpireInterrupted(j) PROVE now' = now /\ \A i \in Items : ItemMoves(i)
    BY <1>4, <2>3 DEF VisitExpireInterrupted
  <2>4. ASSUME NEW j \in Items, VisitGrant(j) PROVE now' = now /\ \A i \in Items : ItemMoves(i)
    <3>1. j \in scan.todo /\ work[j].status = "pending"
      BY <1>1, <2>4 DEF VisitGrant, Advance, ScanSound
    <3>2. ASSUME NEW i \in Items PROVE ItemMoves(i)
      <4>1. CASE i = j
        <5>1. work'[i].fence = work[i].fence + 1
          BY <1>1, <2>4, <4>1 DEF VisitGrant, Granted, WorkItem
        <5> QED BY <3>1, <4>1, <5>1 DEF ItemMoves
      <4>2. CASE i # j
        BY <1>1, <2>4, <4>2 DEF VisitGrant, ItemMoves
      <4> QED BY <4>1, <4>2
    <3> QED BY <2>4, <3>2 DEF VisitGrant
  <2>5. CASE (\E i \in Items : VisitSkip(i)) \/ ReturnBatch
    BY <1>2, <2>5 DEF VisitSkip, ReturnBatch
  <2> QED BY <1>1, <1>6, <2>1, <2>2, <2>3, <2>4, <2>5 DEF Claiming, Visit
<1>7. CASE Holding
  <2>1. PICK c \in Claims :
          \/ RenewClaim(c)
          \/ AuthorizeStart(c)
          \/ MarkInterrupted(c)
          \/ \E outcome : FinishExecution(c, outcome)
    BY <1>7 DEF Holding
  <2>2. c.item \in Items /\ c.item[1] \in Executions
    BY ItemCases DEF Claims
  <2>3. CASE RenewClaim(c)
    <3>1. ASSUME NEW i \in Items PROVE ItemMoves(i)
      BY <1>1, <2>2, <2>3 DEF RenewClaim, ItemMoves, ValidClaim, WorkItem
    <3> QED BY <1>1, <2>3, <3>1 DEF RenewClaim
  <2>4. CASE AuthorizeStart(c)
    BY <1>2, <2>4 DEF AuthorizeStart
  <2>5. CASE MarkInterrupted(c)
    <3> DEFINE x == ExpireItem(c.item[1])
    <3>1. x \in Items
      BY <2>2, ItemsOf
    <3>2. ASSUME NEW i \in Items PROVE ItemMoves(i)
      <4>1. \A j \in Items : CompleteCurrent(c.item)[j] \in {work[j], Completed(work[j])}
        BY <1>1 DEF CompleteCurrent
      <4>2. CASE i # x
        BY <1>1, <2>5, <3>1, <4>1, <4>2, CompletedMoves DEF MarkInterrupted, CompleteCurrent
      <4>3. CASE i = x
        <5>1. PICK item \in {work[x], Completed(work[x])} : work'[x] = Created(item, executionDeadline[c.item[1]])
          BY <1>1, <2>5, <3>1, <4>1 DEF MarkInterrupted, CompleteCurrent
        <5>2. item \in WorkItem /\ item.fence = work[x].fence
          BY <1>1, <3>1, <5>1, CompletedItem
        <5> QED BY <4>3, <5>1, <5>2 DEF ItemMoves, Created, WorkItem
      <4> QED BY <4>2, <4>3
    <3> QED BY <1>1, <2>5, <3>2 DEF MarkInterrupted
  <2>6. CASE \E outcome : FinishExecution(c, outcome)
    BY <1>1, <1>4, <2>6 DEF FinishExecution
  <2> QED BY <2>1, <2>3, <2>4, <2>5, <2>6
<1>8. CASE Tick \/ UNCHANGED vars
  BY <1>2, <1>8 DEF Tick, vars
<1> QED BY <1>5, <1>6, <1>7, <1>8 DEF Next

\* A claim that is not the current one, or has run out, never becomes valid.
LEMMA LostStaysLost ==
  ASSUME IInv, [Next]_vars, NEW c, c.item \in Items, c.fence \in Nat, c.fence <= work[c.item].fence,
         ~ValidClaim(c)
  PROVE  ~ValidClaim(c)'
<1>1. ItemMoves(c.item) /\ now' \in Nat /\ now <= now'
  BY StepMovesItems
<1>2. work[c.item].fence \in Nat /\ work[c.item].leaseUntil \in Nat /\ now \in Nat
  BY DEF IInv, TypeOK, WorkItem
<1> QED BY <1>1, <1>2 DEF ItemMoves, ValidClaim

\* A claim that was lost stays lost, whatever is recovered, granted or created again.
THEOREM LostClaimsStayLost == Spec => ClaimsStayLost
<1>1. ASSUME IInv, [Next]_vars, NEW c \in Claims, ~ValidClaim(c) PROVE ~ValidClaim(c)'
  <2>1. c.item \in Items /\ c.fence \in Nat /\ c.fence <= work[c.item].fence
    BY <1>1 DEF Claims, IInv, TypeOK, WorkItem
  <2> QED BY <1>1, <2>1, LostStaysLost
<1>2. IInv /\ [Next]_vars => [\A c \in Claims : ~ValidClaim(c) => ~ValidClaim(c)']_vars
  BY <1>1
<1> QED BY <1>2, StoreInvariant, PTL DEF Spec, ClaimsStayLost

(***************************************************************************)
(* The Engine.                                                             *)
(***************************************************************************)

-----------------------------------------------------------------------------
(* The inductive invariant.                                                 *)

\* A claim is in the hands of its worker only between two scans.
DispatcherOK ==
  /\ Unlocked => dispatcher = NoDispatcher
  /\ ~Unlocked => dispatcher.worker \in Workers

\* The start of an execution is recorded when its target is started, and then only.
LaunchesRecorded == \A e \in Executions : launched[e] = IF e \in authorized THEN 1 ELSE 0

Base == IInv /\ EngineTypeOK /\ DispatcherOK /\ LaunchesRecorded

\* An unused claim is for an execution that nobody has started.
Unused(c) == c.item[2] = "execute" /\ ValidClaim(c) => c.item[1] \notin authorized

Unsettled(e) == status[e] \in Started \cup {"needs_attention"} \/ e \in resolved

ProcOK(p) ==
  /\ p.phase \in Awaiting => p.claim.item[2] = "execute" /\ Exec(p) \in authorized
  /\ p.phase = "claimed" => Unused(p.claim)
  /\ p.phase = "lost" => ~ValidClaim(p.claim)
  /\ p.phase = "target" => Unsettled(Exec(p))

\* Every task has a claim of its own that the Store has issued; one task at most has started
\* the target of an execution.
ProcsOK ==
  /\ \A p \in procs : p.claim \in Claims /\ p.claim \notin dispatcher.claims /\ ProcOK(p)
  /\ \A c \in dispatcher.claims : c \in Claims /\ Unused(c)
  /\ \A p, q \in procs : p.claim = q.claim => p = q
  /\ \A p, q \in procs : p.phase \in Awaiting /\ q.phase \in Awaiting /\ Exec(p) = Exec(q) => p = q

EInv == Base /\ ProcsOK

-----------------------------------------------------------------------------
(* Claims.                                                                  *)

LEMMA ClaimFields ==
  ASSUME TypeOK, NEW c \in Claims
  PROVE  /\ c.item \in Items /\ c.item[1] \in Executions /\ c.item[2] \in Kinds
         /\ c.fence \in Nat /\ c.fence > 0 /\ c.fence <= work[c.item].fence
         /\ c = [item |-> c.item, fence |-> c.fence] /\ c \in Claim
<1>1. PICK i \in Items : c \in {[item |-> i, fence |-> f] : f \in 1 .. work[i].fence}
  BY DEF Claims
<1>2. PICK f \in 1 .. work[i].fence : c = [item |-> i, fence |-> f]
  BY <1>1
<1>3. work[i].fence \in Nat
  BY DEF TypeOK, WorkItem
<1>4. i[1] \in Executions /\ i[2] \in Kinds
  BY DEF Items
<1>5. QED BY <1>2, <1>3, <1>4 DEF Claim

LEMMA IsClaim ==
  ASSUME TypeOK, NEW c, c.item \in Items, c.fence \in Nat, c.fence > 0, c.fence <= work[c.item].fence,
         c = [item |-> c.item, fence |-> c.fence]
  PROVE  c \in Claims
<1>1. c.fence \in 1 .. work[c.item].fence
  BY DEF TypeOK, WorkItem
<1>2. QED BY <1>1 DEF Claims

\* Claims stay issued, and lost ones stay lost.
LEMMA ClaimsAge ==
  ASSUME IInv, [Next]_vars, NEW c \in Claims
  PROVE  c \in Claims' /\ (ValidClaim(c)' => ValidClaim(c))
<1>1. TypeOK /\ IInv' /\ TypeOK'
  BY NextInv DEF IInv
<1>2. /\ c.item \in Items /\ c.fence \in Nat /\ c.fence > 0 /\ c.fence <= work[c.item].fence
      /\ c = [item |-> c.item, fence |-> c.fence]
  BY <1>1, ClaimFields
<1>3. work'[c.item].fence >= work[c.item].fence
  <2>1. ItemMoves(c.item)
    BY <1>2, StepMovesItems
  <2>2. work[c.item].fence \in Nat
    BY <1>1, <1>2 DEF TypeOK, WorkItem
  <2>3. QED BY <2>1, <2>2 DEF ItemMoves
<1>4. c.fence <= work'[c.item].fence
  BY <1>1, <1>2, <1>3 DEF TypeOK, WorkItem
<1>5. c.fence \in 1 .. work'[c.item].fence
  BY <1>1, <1>2, <1>4 DEF TypeOK, WorkItem
<1>6. c \in Claims'
  BY <1>2, <1>5 DEF Claims
<1>7. QED BY <1>2, <1>6, LostStaysLost

\* What a valid claim says of its execution.
LEMMA ValidSays ==
  ASSUME IInv, NEW c \in Claims, ValidClaim(c)
  PROVE  /\ c.item[2] = "execute" => status[c.item[1]] \in Started \cup {"queued"}
         /\ c.item[2] # "execute" => c.item[2] = "expire_interrupt" /\ status[c.item[1]] = "interrupted"
                                     /\ c.item[1] \in authorized
         /\ \A d \in Claims : ValidClaim(d) /\ d.item = c.item => d = c
<1>1. TypeOK
  BY DEF IInv
<1>2. c.item \in Items /\ c.item[1] \in Executions
  BY <1>1, ClaimFields
<1>3. Live(c.item)
  BY DEF ValidClaim, Live
<1>4. status[c.item[1]] \in Statuses \cup {"absent"}
  BY <1>1, <1>2 DEF TypeOK
<1>5. c.item[2] = "execute" => status[c.item[1]] \in Started \cup {"queued"}
  BY <1>2, <1>3, <1>4, ItemCases DEF IInv, NothingStranded, Statuses
<1>6. c.item[2] # "execute" => c.item[2] = "expire_interrupt" /\ status[c.item[1]] = "interrupted"
  BY <1>2, <1>3, <1>4, ItemCases DEF IInv, NothingStranded, Statuses
<1>7. c.item[2] # "execute" => c.item[1] \in authorized
  BY <1>2, <1>6 DEF IInv, StartRecorded
<1>8. ASSUME NEW d \in Claims, ValidClaim(d), d.item = c.item PROVE d = c
  <2>1. d.fence = c.fence
    BY <1>8 DEF ValidClaim
  <2>2. QED BY <1>1, <1>8, <2>1, ClaimFields
<1>9. QED BY <1>5, <1>6, <1>7, <1>8

-----------------------------------------------------------------------------
(* Every step of the workers is a step of the Store, or leaves it alone.    *)

LEMMA HoldingStep ==
  ASSUME NEW c \in Claims,
         \/ RenewClaim(c) \/ AuthorizeStart(c)
         \/ c.item[2] = "execute" /\ MarkInterrupted(c)
         \/ \E outcome \in Terminal \cup {"needs_attention"} :
              /\ c.item[2] = "expire_interrupt" => outcome = "timed_out"
              /\ c.item[1] \notin authorized => outcome = "failed"
              /\ FinishExecution(c, outcome)
  PROVE  Next
BY DEF Next, Holding

LEMMA SettleStore ==
  ASSUME EInv, NEW p \in procs, NEW outcome \in Terminal \cup {"needs_attention"}, Settle(p, outcome),
         \/ p.phase \in Awaiting
         \/ p.claim.item[2] = "expire_interrupt" /\ outcome = "timed_out"
         \/ p.claim.item[2] = "execute" /\ outcome = "failed"
  PROVE  [Next]_vars
<1>1. p.claim \in Claims /\ ProcOK(p) /\ IInv
  BY DEF EInv, Base, ProcsOK
<1>2. CASE FinishExecution(p.claim, outcome)
  <2>1. ValidClaim(p.claim)
    BY <1>2 DEF FinishExecution
  <2>2. p.claim.item[2] = "expire_interrupt" => p.claim.item[1] \in authorized
    BY <1>1, <2>1, ValidSays
  <2>3. p.phase \in Awaiting => p.claim.item[2] = "execute" /\ p.claim.item[1] \in authorized
    BY <1>1 DEF ProcOK, Exec
  <2>4. QED BY <1>1, <1>2, <2>2, <2>3, HoldingStep
<1>3. CASE Refused(p)
  BY <1>3 DEF Refused, storeVars
<1>4. QED BY <1>2, <1>3 DEF Settle

LEMMA RecordStore ==
  ASSUME EInv, NEW p \in procs, p.phase \in Awaiting, RecordInterrupt(p)
  PROVE  [Next]_vars
<1>1. p.claim \in Claims /\ ProcOK(p)
  BY DEF EInv, ProcsOK
<1>2. CASE MarkInterrupted(p.claim)
  BY <1>1, <1>2, HoldingStep DEF ProcOK
<1>3. CASE Refused(p) \/ NoRoom(p)
  BY <1>3 DEF Refused, NoRoom, storeVars
<1>4. QED BY <1>2, <1>3 DEF RecordInterrupt

LEMMA ProcessStore ==
  ASSUME EInv, NEW p \in procs, Process(p) \/ CancelTask(p)
  PROVE  [Next]_vars
<1>1. p.claim \in Claims
  BY DEF EInv, ProcsOK
<1>2. CASE ExpireInterrupt(p)
  BY <1>2, SettleStore DEF ExpireInterrupt, Terminal
<1>3. CASE TargetMissing(p)
  BY <1>3, SettleStore DEF TargetMissing, Terminal
<1>4. CASE StartTarget(p)
  BY <1>1, <1>4, HoldingStep DEF StartTarget, Refused, storeVars
<1>5. CASE TargetEnds(p)
  BY <1>5, SettleStore DEF TargetEnds, Awaiting, Terminal
<1>6. CASE TargetInterrupts(p)
  BY <1>6, RecordStore DEF TargetInterrupts, Awaiting, storeVars
<1>7. CASE CallbackEnds(p)
  BY <1>7, SettleStore, RecordStore DEF CallbackEnds, Awaiting, Terminal
<1>8. CASE Renew(p)
  BY <1>1, <1>8, HoldingStep DEF Renew, Refused, storeVars
<1>9. CASE Stopped(p)
  <2>1. CASE \E outcome \in Terminal \cup {"needs_attention"} : Settle(p, outcome)
    BY <1>9, <2>1, SettleStore DEF Stopped
  <2>2. CASE UNCHANGED storeVars
    BY <2>2 DEF storeVars
  <2>3. QED BY <1>9, <2>1, <2>2 DEF Stopped, Terminal
<1>10. CASE HandOver(p) \/ NoticeStop(p) \/ Aborts(p) \/ CancelTask(p)
  BY <1>10 DEF HandOver, NoticeStop, Aborts, CancelTask, storeVars
<1>11. QED BY <1>2, <1>3, <1>4, <1>5, <1>6, <1>7, <1>8, <1>9, <1>10 DEF Process

LEMMA OwnedCount ==
  ASSUME NEW w
  PROVE  Cardinality(Owned(w)) \in Nat
<1>1. IsFiniteSet(Owned(w))
  BY FS_Subset, ScopeAssumption DEF Owned
<1>2. QED BY <1>1, FS_CardinalityType

LEMMA EngineStore ==
  ASSUME EInv, [EngineNext]_allVars
  PROVE  [Next]_vars
<1>1. CASE ClientCommand
  BY <1>1 DEF ClientCommand, Next
<1>2. CASE \E w \in Workers : Dispatch(w)
  <2>1. PICK w \in Workers : Dispatch(w)
    BY <1>2
  <2>2. PICK limit \in 0 .. MaxBatch : ClaimWork(limit)
    BY <2>1, OwnedCount, LimitAssumption DEF Dispatch
  <2>3. QED BY <2>2 DEF Next, Claiming
<1>3. CASE \E w \in Workers : Reap(w) \/ Close(w) \/ Closed(w) \/ Crash(w) \/ Start(w)
  BY <1>3 DEF Reap, Close, Closed, Crash, Start, storeVars
<1>4. CASE \E w \in Workers, e \in Executions : CancelRunning(w, e)
  BY <1>4 DEF CancelRunning, storeVars
<1>5. CASE \E i \in Items : Consider(i)
  BY <1>5 DEF Consider, Next, Claiming
<1>6. CASE EndDispatch
  BY <1>6 DEF EndDispatch, Next, Claiming
<1>7. CASE \E p \in procs : Process(p) \/ CancelTask(p)
  BY <1>7, ProcessStore
<1>8. CASE EngineTick
  BY <1>8 DEF EngineTick, Next
<1>9. CASE UNCHANGED allVars
  BY <1>9 DEF allVars
<1>10. QED BY <1>1, <1>2, <1>3, <1>4, <1>5, <1>6, <1>7, <1>8, <1>9 DEF EngineNext

-----------------------------------------------------------------------------
(* The tasks through a step of the Store.                                   *)

\* A step that starts no target keeps what a task knows, if its execution is not settled.
LEMMA ProcAges ==
  ASSUME IInv, [Next]_vars, authorized' = authorized, NEW p, p.claim \in Claims, ProcOK(p),
         p.phase = "target" => Unsettled(Exec(p))'
  PROVE  ProcOK(p)'
<1>1. ValidClaim(p.claim)' => ValidClaim(p.claim)
  BY ClaimsAge
<1>2. QED BY <1>1 DEF ProcOK, Unused, Exec

\* Tasks end or stay as they are, claims are lost or stay unused.
LEMMA ProcsShrink ==
  ASSUME IInv, [Next]_vars, authorized' = authorized, ProcsOK, procs' \subseteq procs,
         dispatcher'.claims \subseteq dispatcher.claims,
         \A p \in procs : p.phase = "target" => Unsettled(Exec(p))'
  PROVE  ProcsOK'
<1>1. ASSUME NEW p \in procs' PROVE p.claim \in Claims' /\ p.claim \notin dispatcher'.claims /\ ProcOK(p)'
  <2>1. p \in procs /\ p.claim \in Claims /\ ProcOK(p) /\ p.claim \notin dispatcher.claims
    BY <1>1 DEF ProcsOK
  <2>2. QED BY <2>1, ProcAges, ClaimsAge
<1>2. ASSUME NEW c \in dispatcher'.claims PROVE c \in Claims' /\ Unused(c)'
  <2>1. c \in Claims /\ Unused(c)
    BY <1>2 DEF ProcsOK
  <2>2. QED BY <2>1, ClaimsAge DEF Unused
<1>3. QED BY <1>1, <1>2 DEF ProcsOK

\* One task moves on with its claim.
LEMMA ProcMoves ==
  ASSUME IInv, [Next]_vars, authorized' = authorized, ProcsOK, NEW p \in procs, NEW q, Become(p, q),
         q.claim = p.claim, q.phase \in Awaiting => p.phase \in Awaiting, ProcOK(q)',
         UNCHANGED dispatcher, \A r \in procs \ {p} : r.phase = "target" => Unsettled(Exec(r))'
  PROVE  ProcsOK'
<1>1. p.claim \in Claims /\ p.claim \notin dispatcher.claims
  BY DEF ProcsOK
<1>2. ASSUME NEW r \in procs' PROVE r.claim \in Claims' /\ r.claim \notin dispatcher'.claims /\ ProcOK(r)'
  <2>1. CASE r = q
    BY <1>1, <2>1, ClaimsAge
  <2>2. CASE r # q
    <3>1. r \in procs \ {p}
      BY <2>2 DEF Become
    <3>2. r.claim \in Claims /\ ProcOK(r) /\ r.claim \notin dispatcher.claims
      BY <3>1 DEF ProcsOK
    <3>3. QED BY <3>1, <3>2, ProcAges, ClaimsAge
  <2>3. QED BY <2>1, <2>2
<1>3. ASSUME NEW c \in dispatcher'.claims PROVE c \in Claims' /\ Unused(c)'
  <2>1. c \in Claims /\ Unused(c)
    BY <1>3 DEF ProcsOK
  <2>2. QED BY <2>1, ClaimsAge DEF Unused
<1>4. ASSUME NEW r \in procs', NEW s \in procs', r.claim = s.claim PROVE r = s
  BY <1>4 DEF ProcsOK, Become
<1>5. ASSUME NEW r \in procs', NEW s \in procs', r.phase \in Awaiting, s.phase \in Awaiting, Exec(r) = Exec(s)
      PROVE  r = s
  BY <1>5 DEF ProcsOK, Become, Exec
<1>6. QED BY <1>2, <1>3, <1>4, <1>5 DEF ProcsOK

\* Commands, the clock and claim_work leave a started execution unsettled, or it is resolved.
LEMMA StartedStays ==
  ASSUME IInv, NEW e \in Executions, Unsettled(e),
         \/ ClientCommand
         \/ EngineTick
         \/ UNCHANGED vars /\ resolved' = resolved
         \/ (\E limit : ClaimWork(limit)) /\ resolved' = resolved
         \/ (\E i \in Items : Visit(i)) /\ resolved' = resolved
         \/ ReturnBatch /\ resolved' = resolved
  PROVE  Unsettled(e)'
<1>1. TypeOK /\ status \in [Executions -> Statuses \cup {"absent"}]
  BY DEF IInv, TypeOK
<1>2. CASE e \in resolved
  BY <1>2 DEF Unsettled, ClientCommand, EngineTick, engineVars
<1>3. CASE e \notin resolved
  <2>1. status[e] \in Started \cup {"needs_attention"} /\ status[e] \notin {"absent", "queued", "interrupted"}
    BY <1>3 DEF Unsettled, Started
  <2>2. CASE status'[e] \in Started \cup {"needs_attention"}
    BY <2>2 DEF Unsettled
  <2>3. CASE ClientCommand
    <3>1. CASE \E f \in Executions : EnqueueExecution(f) \/ \E original \in Executions : RetryExecution(original, f)
      BY <1>1, <2>1, <2>2, <3>1 DEF EnqueueExecution, RetryExecution, Enqueue
    <3>2. CASE \E f \in Executions : CancelExecution(f)
      BY <1>1, <2>1, <2>2, <3>2 DEF CancelExecution, Started
    <3>3. CASE \E f \in Executions, resolution \in Resolutions : ResolveExecution(f, resolution)
      <4>1. PICK f \in Executions, resolution \in Resolutions : ResolveExecution(f, resolution)
        BY <3>3
      <4>2. CASE f = e
        BY <1>1, <2>3, <4>1, <4>2 DEF ResolveExecution, ClientCommand, Unsettled, Resolutions
      <4>3. CASE f # e
        BY <1>1, <2>1, <2>2, <4>1, <4>3 DEF ResolveExecution
      <4>4. QED BY <4>2, <4>3
    <3>4. CASE \E t \in Tasks : DeleteTask(t)
      BY <1>1, <2>1, <2>2, <3>4 DEF DeleteTask, QueuedIn
    <3>5. QED BY <2>3, <3>1, <3>2, <3>3, <3>4 DEF ClientCommand, Command
  <2>4. CASE EngineTick \/ UNCHANGED vars \/ ReturnBatch
    BY <2>1, <2>2, <2>4 DEF EngineTick, Tick, vars, ReturnBatch
  <2>5. CASE \E limit : ClaimWork(limit)
    BY <2>1, <2>2, <2>5 DEF ClaimWork, RecoverStatus
  <2>6. CASE \E i \in Items : Visit(i)
    <3>1. PICK i \in Items : Visit(i)
      BY <2>6
    <3>2. i[1] \in Executions
      BY ItemCases
    <3>3. CASE VisitTransition(i)
      BY <1>1, <2>1, <2>2, <3>2, <3>3 DEF VisitTransition, QueueExpired
    <3>4. CASE VisitExpireInterrupted(i)
      BY <1>1, <2>1, <2>2, <3>2, <3>4 DEF VisitExpireInterrupted, Claimable, Obsolete
    <3>5. CASE VisitSkip(i) \/ VisitGrant(i)
      BY <2>1, <2>2, <3>5 DEF VisitSkip, VisitGrant
    <3>6. QED BY <3>1, <3>3, <3>4, <3>5 DEF Visit
  <2>7. QED BY <2>3, <2>4, <2>5, <2>6
<1>4. QED BY <1>2, <1>3

\* Another task cannot settle an execution whose target still runs.
LEMMA OthersAreStale ==
  ASSUME IInv, ProcsOK, NEW p \in procs, NEW q \in procs, q # p, p.phase \in Awaiting \cup {"claimed"},
         ValidClaim(p.claim), q.phase = "target", Exec(q) = Exec(p)
  PROVE  Exec(q) \in resolved
<1>1. p.claim \in Claims /\ ProcOK(p) /\ ProcOK(q)
  BY DEF ProcsOK
<1>2. Exec(p) \in authorized /\ p.phase \notin Awaiting
  BY <1>1 DEF ProcsOK, ProcOK, Awaiting
<1>3. p.claim.item[2] # "execute"
  BY <1>1, <1>2 DEF ProcOK, Unused, Exec
<1>4. status[Exec(p)] = "interrupted"
  BY <1>1, <1>3, ValidSays DEF Exec
<1>5. QED BY <1>1, <1>4 DEF ProcOK, Unsettled, Started

-----------------------------------------------------------------------------
(* The actions.                                                             *)

LEMMA BaseStays ==
  ASSUME Base, [Next]_vars, UNCHANGED <<authorized, launched, dispatcher>>, scan'.lock = scan.lock,
         engine' \in [Workers -> {"up", "failed", "closing", "down"}], procs' \subseteq Proc,
         owned' \in [Workers -> [Executions -> Claim \cup {NoClaim}]], resolved' \in SUBSET Executions
  PROVE  Base'
<1>1. IInv' /\ TypeOK'
  BY NextInv DEF Base, IInv
<1>2. QED BY <1>1 DEF Base, EngineTypeOK, DispatcherOK, LaunchesRecorded, Unlocked

LEMMA ProcFields ==
  ASSUME EngineTypeOK, NEW p \in procs
  PROVE  /\ p \in Proc /\ p.worker \in Workers /\ p.claim \in Claim /\ Exec(p) \in Executions
         /\ p.phase \in Phases /\ p.stop \in Stops /\ p.cancel \in BOOLEAN
<1>1. p \in Proc
  BY DEF EngineTypeOK
<1>2. p.claim.item \in Items
  BY <1>1 DEF Proc, Claim
<1>3. QED BY <1>1, <1>2, ItemCases DEF Proc, Exec

\* A task with another phase, or told to stop.
LEMMA Moving ==
  ASSUME EngineTypeOK, NEW p \in procs, NEW phase \in Phases, NEW stop \in Stops, NEW cancel \in BOOLEAN
  PROVE  /\ [p EXCEPT !.phase = phase] \in Proc /\ [p EXCEPT !.phase = phase].claim = p.claim
         /\ [p EXCEPT !.phase = phase].phase = phase
         /\ [p EXCEPT !.stop = stop] \in Proc /\ [p EXCEPT !.stop = stop].claim = p.claim
         /\ [p EXCEPT !.stop = stop].phase = p.phase
         /\ [p EXCEPT !.cancel = cancel] \in Proc /\ [p EXCEPT !.cancel = cancel].claim = p.claim
         /\ [p EXCEPT !.cancel = cancel].phase = p.phase
BY DEF EngineTypeOK, Proc

LEMMA EngineInitInv == EngineInit => EInv
<1> SUFFICES ASSUME EngineInit PROVE EInv
  OBVIOUS
<1>1. IInv
  BY InitInv DEF EngineInit
<1>2. EngineTypeOK
  <2>1. owned \in [Workers -> [Executions -> Claim \cup {NoClaim}]]
    BY DEF EngineInit, NothingOwned
  <2>2. dispatcher \in [worker : Workers \cup {NoWorker}, claims : SUBSET Claim]
    BY DEF EngineInit, NoDispatcher
  <2>3. QED BY <1>1, <2>1, <2>2 DEF EngineInit, EngineTypeOK, IInv
<1>3. DispatcherOK /\ LaunchesRecorded
  BY DEF EngineInit, DispatcherOK, LaunchesRecorded, Init, NoScan, Unlocked
<1>4. ProcsOK
  BY DEF EngineInit, ProcsOK, NoDispatcher
<1>5. QED BY <1>1, <1>2, <1>3, <1>4 DEF EInv, Base

LEMMA CommandInv ==
  ASSUME EInv, ClientCommand \/ EngineTick \/ UNCHANGED allVars
  PROVE  EInv'
<1>1. [Next]_vars
  BY EngineStore DEF EngineNext
<1>2. UNCHANGED <<engine, procs, owned, dispatcher, launched>>
  BY DEF ClientCommand, EngineTick, engineVars, allVars
<1>3. UNCHANGED <<authorized, scan>>
  BY DEF ClientCommand, EngineTick, Tick, Command, EnqueueExecution, RetryExecution, Enqueue, CancelExecution,
         ResolveExecution, DeleteTask, allVars, vars
<1>4. resolved' \in SUBSET Executions
  BY DEF ClientCommand, EngineTick, engineVars, allVars, EInv, Base, EngineTypeOK
<1>5. Base'
  BY <1>1, <1>2, <1>3, <1>4, BaseStays DEF EInv, Base, EngineTypeOK
<1>6. \A p \in procs : p.phase = "target" => Unsettled(Exec(p))'
  <2>1. UNCHANGED allVars => UNCHANGED vars /\ resolved' = resolved
    BY DEF allVars, engineVars
  <2>2. ASSUME NEW p \in procs, p.phase = "target" PROVE Unsettled(Exec(p))'
    <3>1. Unsettled(Exec(p)) /\ Exec(p) \in Executions
      BY <2>2, ProcFields DEF EInv, Base, ProcsOK, ProcOK
    <3>2. PICK e \in Executions : e = Exec(p)
      BY <3>1
    <3>3. IInv /\ Unsettled(e)
      BY <3>1, <3>2 DEF EInv, Base
    <3>4. Unsettled(e)'
      <4>1. CASE ClientCommand
        BY <3>3, <4>1, StartedStays
      <4>2. CASE EngineTick
        BY <3>3, <4>2, StartedStays
      <4>3. CASE UNCHANGED allVars
        BY <2>1, <3>3, <4>3, StartedStays
      <4>4. QED BY <4>1, <4>2, <4>3
    <3>5. QED BY <3>2, <3>4
  <2>3. QED BY <2>2
<1>7. ProcsOK'
  BY <1>1, <1>2, <1>3, <1>6, ProcsShrink DEF EInv, Base
<1>8. QED BY <1>5, <1>7 DEF EInv

LEMMA DispatchInv ==
  ASSUME EInv, NEW w \in Workers, Dispatch(w)
  PROVE  EInv'
<1>1. [Next]_vars
  BY EngineStore DEF EngineNext
<1>2. /\ UNCHANGED <<engine, procs, owned, launched, resolved, authorized>>
      /\ dispatcher' = [worker |-> w, claims |-> {}] /\ scan'.lock = "held"
  BY DEF Dispatch, ClaimWork
<1>3. \E limit : ClaimWork(limit)
  BY DEF Dispatch
<1>4. Base'
  <2>1. IInv' /\ TypeOK'
    BY <1>1, NextInv DEF EInv, Base, IInv
  <2>2. dispatcher' \in [worker : Workers \cup {NoWorker}, claims : SUBSET Claim]
    BY <1>2
  <2>3. EngineTypeOK'
    BY <1>2, <2>1, <2>2 DEF EngineTypeOK, EInv, Base
  <2>4. DispatcherOK' /\ LaunchesRecorded'
    BY <1>2 DEF DispatcherOK, Unlocked, LaunchesRecorded, EInv, Base
  <2>5. QED BY <2>1, <2>3, <2>4 DEF Base
<1>5. ASSUME NEW p \in procs, p.phase = "target" PROVE Unsettled(Exec(p))'
  <2>1. Unsettled(Exec(p)) /\ Exec(p) \in Executions
    BY <1>5, ProcFields DEF EInv, Base, ProcsOK, ProcOK
  <2>2. PICK e \in Executions : e = Exec(p)
    BY <2>1
  <2>3. Unsettled(e)'
    BY <1>2, <1>3, <2>1, <2>2, StartedStays DEF EInv, Base
  <2>4. QED BY <2>2, <2>3
<1>6. ProcsOK'
  BY <1>1, <1>2, <1>5, ProcsShrink DEF EInv, Base
<1>7. QED BY <1>4, <1>6 DEF EInv

LEMMA ConsiderInv ==
  ASSUME EInv, NEW i \in Items, Consider(i)
  PROVE  EInv'
<1>1. [Next]_vars
  BY EngineStore DEF EngineNext
<1>2. /\ UNCHANGED <<engine, procs, owned, launched, resolved, authorized>> /\ Visit(i)
      /\ scan'.lock = scan.lock /\ ~Unlocked
  <2>1. scan \in [lock : {"free", "held"}, limit : Nat, todo : SUBSET Items, granted : Nat]
    BY DEF EInv, Base, IInv, TypeOK
  <2>2. QED BY <2>1 DEF Consider, Visit, VisitTransition, VisitExpireInterrupted, VisitSkip, VisitGrant, Advance
<1>3. IInv /\ IInv' /\ TypeOK /\ TypeOK'
  BY <1>1, NextInv DEF EInv, Base, IInv
<1>4. PICK c : c = [item |-> i, fence |-> work'[i].fence]
  OBVIOUS
<1>5. work[i].fence \in Nat /\ work'[i].fence \in Nat
  BY <1>3 DEF TypeOK, WorkItem
<1>6. c.item = i /\ c.fence = work'[i].fence /\ c \in Claim
  BY <1>4, <1>5 DEF Claim
<1>7. PICK more : /\ more = {d \in {[item |-> i, fence |-> work'[i].fence]} : d.fence > work[i].fence}
                   /\ dispatcher' = [dispatcher EXCEPT !.claims = @ \cup more]
  BY DEF Consider
<1>8. /\ dispatcher \in [worker : Workers \cup {NoWorker}, claims : SUBSET Claim]
      /\ dispatcher'.worker = dispatcher.worker /\ dispatcher'.claims = dispatcher.claims \cup more
      /\ more \subseteq {c} /\ (c \in more => c.fence > work[i].fence)
  BY <1>4, <1>7 DEF EInv, Base, EngineTypeOK
<1>9. dispatcher' \in [worker : Workers \cup {NoWorker}, claims : SUBSET Claim]
  <2>1. dispatcher' = [dispatcher EXCEPT !.claims = @ \cup more] /\ dispatcher.claims \cup more \in SUBSET Claim
    BY <1>6, <1>7, <1>8
  <2>2. QED BY <1>8, <2>1
<1>10. Base'
  BY <1>2, <1>3, <1>8, <1>9 DEF EngineTypeOK, EInv, Base, DispatcherOK, Unlocked, LaunchesRecorded
<1>11. ASSUME c \in more PROVE c \in Claims' /\ c \notin Claims /\ Unused(c)'
  <2>1. c.fence > work[i].fence /\ c.fence > 0
    BY <1>5, <1>6, <1>8, <1>11
  <2>2. c \in Claims'
    <3>1. c.fence \in 1 .. work'[i].fence
      BY <1>5, <1>6, <2>1
    <3>2. QED BY <1>4, <1>6, <3>1 DEF Claims
  <2>3. c \notin Claims
    BY <1>3, <1>5, <1>6, <2>1, ClaimFields
  <2>4. VisitGrant(i)
    <3>1. ASSUME VisitTransition(i) \/ VisitExpireInterrupted(i) \/ VisitSkip(i) PROVE work'[i].fence = work[i].fence
      <4>1. work'[i] = work[i] \/ work'[i] = Completed(work[i])
        BY <1>3, <3>1 DEF VisitTransition, VisitExpireInterrupted, VisitSkip, CompleteCurrent, CompleteAll, TypeOK
      <4>2. QED BY <1>3, <4>1, CompletedItem DEF TypeOK
    <3>2. QED BY <1>2, <1>5, <1>6, <2>1, <3>1 DEF Visit
  <2>5. i[2] = "execute" => i[1] \notin authorized
    BY <1>3, <2>4, ItemCases DEF VisitGrant, Claimable, Obsolete, IInv, StartRecorded
  <2>6. QED BY <1>2, <1>6, <2>2, <2>3, <2>5 DEF Unused
<1>12. ASSUME NEW p \in procs, p.phase = "target" PROVE Unsettled(Exec(p))'
  <2>1. Unsettled(Exec(p)) /\ Exec(p) \in Executions
    BY <1>12, ProcFields DEF EInv, Base, ProcsOK, ProcOK
  <2>2. PICK e \in Executions : e = Exec(p)
    BY <2>1
  <2>3. Unsettled(e)'
    BY <1>2, <1>3, <2>1, <2>2, StartedStays
  <2>4. QED BY <2>2, <2>3
<1>13. ASSUME NEW p \in procs PROVE p.claim \in Claims' /\ p.claim \notin dispatcher'.claims /\ ProcOK(p)'
  <2>1. p.claim \in Claims /\ ProcOK(p) /\ p.claim \notin dispatcher.claims
    BY DEF EInv, ProcsOK
  <2>2. QED BY <1>1, <1>2, <1>3, <1>8, <1>11, <1>12, <2>1, ProcAges, ClaimsAge
<1>14. ASSUME NEW d \in dispatcher'.claims PROVE d \in Claims' /\ Unused(d)'
  <2>1. CASE d \in dispatcher.claims
    <3>1. d \in Claims /\ Unused(d)
      BY <2>1 DEF EInv, ProcsOK
    <3>2. QED BY <1>1, <1>2, <1>3, <3>1, ClaimsAge DEF Unused
  <2>2. CASE d \in more
    BY <1>8, <1>11, <2>2
  <2>3. QED BY <1>8, <1>14, <2>1, <2>2
<1>15. ProcsOK'
  BY <1>2, <1>13, <1>14 DEF ProcsOK, EInv
<1>16. QED BY <1>10, <1>15 DEF EInv

LEMMA EndDispatchInv ==
  ASSUME EInv, EndDispatch
  PROVE  EInv'
<1>1. [Next]_vars
  BY EngineStore DEF EngineNext
<1>2. /\ UNCHANGED <<engine, launched, resolved, authorized, status, work, now>>
      /\ dispatcher' = NoDispatcher /\ scan' = NoScan /\ ~Unlocked /\ ReturnBatch
  BY DEF EndDispatch, ReturnBatch
<1>3. IInv /\ IInv' /\ TypeOK' /\ EngineTypeOK /\ dispatcher.worker \in Workers
  BY <1>1, <1>2, NextInv DEF EInv, Base, IInv, DispatcherOK
<1> DEFINE new(c) == [worker |-> dispatcher.worker, claim |-> c, phase |-> "claimed", stop |-> "no", cancel |-> FALSE]
<1>4. procs' = procs \cup {new(c) : c \in dispatcher.claims}
  BY DEF EndDispatch, Register
<1>5. dispatcher.claims \subseteq Claim
  BY <1>3 DEF EngineTypeOK
<1>6. \A c \in dispatcher.claims : new(c) \in Proc /\ new(c).claim = c /\ new(c).phase = "claimed"
  BY <1>3, <1>5 DEF Proc, Phases, Stops
<1>7. EngineTypeOK'
  <2>1. procs' \subseteq Proc
    BY <1>3, <1>4, <1>6 DEF EngineTypeOK
  <2>2. owned' \in [Workers -> [Executions -> Claim \cup {NoClaim}]]
    <3> DEFINE own == [e \in Executions |-> IF \E c \in dispatcher.claims : c.item[1] = e
                                            THEN CHOOSE c \in dispatcher.claims : c.item[1] = e
                                            ELSE owned[dispatcher.worker][e]]
    <3>1. owned' = [owned EXCEPT ![dispatcher.worker] = own]
      BY <1>3 DEF EndDispatch, Register, EngineTypeOK
    <3>2. own \in [Executions -> Claim \cup {NoClaim}]
      <4>1. ASSUME NEW e \in Executions, \E c \in dispatcher.claims : c.item[1] = e
            PROVE  (CHOOSE c \in dispatcher.claims : c.item[1] = e) \in Claim
        BY <1>5, <4>1
      <4>2. QED BY <1>3, <4>1 DEF EngineTypeOK
    <3> HIDE DEF own
    <3>3. QED BY <1>3, <3>1, <3>2 DEF EngineTypeOK
  <2>3. dispatcher' \in [worker : Workers \cup {NoWorker}, claims : SUBSET Claim]
    BY <1>2 DEF NoDispatcher
  <2>4. QED BY <1>2, <1>3, <2>1, <2>2, <2>3 DEF EngineTypeOK
<1>8. Base'
  BY <1>2, <1>3, <1>7 DEF Base, DispatcherOK, LaunchesRecorded, Unlocked, NoScan, EInv
<1>9. ASSUME NEW c \in Claims PROVE c \in Claims' /\ ValidClaim(c)' = ValidClaim(c)
  BY <1>2 DEF Claims, ValidClaim
<1>10. ASSUME NEW p \in procs PROVE p.claim \in Claims' /\ ProcOK(p)'
  <2>1. p.claim \in Claims /\ ProcOK(p)
    BY DEF EInv, ProcsOK
  <2>2. QED BY <1>2, <1>9, <2>1 DEF ProcOK, Unused, Exec, Unsettled
<1>11. ASSUME NEW c \in dispatcher.claims, NEW p, p = new(c) PROVE p.claim = c /\ c \in Claims' /\ ProcOK(p)'
  <2>1. c \in Claims /\ Unused(c)
    BY DEF EInv, ProcsOK
  <2>2. p.claim = c /\ p.phase = "claimed"
    BY <1>6, <1>11
  <2>3. Unused(c)'
    BY <1>2, <1>9, <2>1 DEF Unused
  <2>4. ProcOK(p)'
    BY <2>2, <2>3 DEF ProcOK, Awaiting
  <2>5. QED BY <1>9, <2>1, <2>2, <2>4
<1> HIDE DEF new
<1>12. ASSUME NEW p \in procs' PROVE p.claim \in Claims' /\ ProcOK(p)'
  BY <1>4, <1>10, <1>11
<1>13. ASSUME NEW p \in procs', NEW q \in procs', p.claim = q.claim PROVE p = q
  BY <1>4, <1>6, <1>13 DEF EInv, ProcsOK
<1>14. ASSUME NEW p \in procs', NEW q \in procs', p.phase \in Awaiting, q.phase \in Awaiting, Exec(p) = Exec(q)
       PROVE  p = q
  BY <1>4, <1>6, <1>14 DEF EInv, ProcsOK, Awaiting
<1>15. dispatcher'.claims = {}
  BY <1>2 DEF NoDispatcher
<1>16. ProcsOK'
  BY <1>12, <1>13, <1>14, <1>15 DEF ProcsOK
<1>17. QED BY <1>8, <1>16 DEF EInv

\* Tasks end, workers close, crash and start again: the Store does not notice.
LEMMA LifecycleInv ==
  ASSUME EInv, NEW w \in Workers, Reap(w) \/ Close(w) \/ Closed(w) \/ Crash(w) \/ Start(w)
  PROVE  EInv'
<1>1. [Next]_vars
  BY EngineStore DEF EngineNext
<1>2. UNCHANGED vars /\ UNCHANGED <<dispatcher, launched, resolved>> /\ procs' \subseteq procs
  BY DEF Reap, Close, Closed, Crash, Start, storeVars
<1>3. UNCHANGED <<authorized, scan, status>>
  BY <1>2 DEF vars
<1>4. engine' \in [Workers -> {"up", "failed", "closing", "down"}]
  BY DEF Reap, Close, Closed, Crash, Start, EInv, Base, EngineTypeOK
<1>5. owned' \in [Workers -> [Executions -> Claim \cup {NoClaim}]]
  <2>1. owned \in [Workers -> [Executions -> Claim \cup {NoClaim}]]
    BY DEF EInv, Base, EngineTypeOK
  <2>2. PICK own \in [Executions -> Claim \cup {NoClaim}] : owned' = [owned EXCEPT ![w] = own] \/ owned' = owned
    <3>1. CASE Reap(w)
      <4> DEFINE done == {p \in procs : p.worker = w /\ p.phase \in Ended /\ IsOwned(p)}
      <4> DEFINE own == [e \in Executions |-> IF \E p \in done : Exec(p) = e THEN NoClaim ELSE owned[w][e]]
      <4>1. own \in [Executions -> Claim \cup {NoClaim}]
        BY <2>1
      <4>2. owned' = [owned EXCEPT ![w] = own]
        BY <2>1, <3>1 DEF Reap
      <4>3. QED BY <4>1, <4>2
    <3>2. CASE Closed(w) \/ Crash(w)
      <4>1. NothingOwned \in [Executions -> Claim \cup {NoClaim}]
        BY DEF NothingOwned
      <4>2. QED BY <3>2, <4>1 DEF Closed, Crash
    <3>3. CASE Close(w) \/ Start(w)
      <4>1. NothingOwned \in [Executions -> Claim \cup {NoClaim}] /\ owned' = owned
        BY <3>3 DEF NothingOwned, Close, Start
      <4>2. QED BY <4>1
    <3>4. QED BY <3>1, <3>2, <3>3
  <2>3. QED BY <2>1, <2>2
<1>6. procs' \subseteq Proc /\ resolved' \in SUBSET Executions
  BY <1>2 DEF EInv, Base, EngineTypeOK
<1>7. Base'
  BY <1>1, <1>2, <1>3, <1>4, <1>5, <1>6, BaseStays DEF EInv
<1>8. \A p \in procs : p.phase = "target" => Unsettled(Exec(p))'
  BY <1>2, <1>3 DEF EInv, ProcsOK, ProcOK, Unsettled, Exec
<1>9. ProcsOK'
  BY <1>1, <1>2, <1>3, <1>8, ProcsShrink DEF EInv, Base
<1>10. QED BY <1>7, <1>9 DEF EInv

\* A task moves on, and settles nothing that another task still runs.
LEMMA TaskInv ==
  ASSUME EInv, [Next]_vars, NEW p \in procs, NEW q \in Proc, Become(p, q), q.claim = p.claim,
         UNCHANGED <<authorized, scan, engine, owned, dispatcher, launched, resolved>>,
         q.phase \in Awaiting => p.phase \in Awaiting, ProcOK(q)',
         \A e \in Executions : Unsettled(e) /\ e # Exec(p) => Unsettled(e)',
         \/ UNCHANGED status
         \/ p.phase \in Awaiting \cup {"claimed"} /\ ValidClaim(p.claim)
  PROVE  EInv'
<1>1. procs' \subseteq Proc
  BY DEF Become, EInv, Base, EngineTypeOK
<1>2. Base'
  BY <1>1, BaseStays DEF EInv, Base, EngineTypeOK
<1>3. ASSUME NEW r \in procs \ {p}, r.phase = "target" PROVE Unsettled(Exec(r))'
  <2>1. Unsettled(Exec(r)) /\ Exec(r) \in Executions
    BY <1>3, ProcFields DEF EInv, Base, ProcsOK, ProcOK
  <2>2. PICK e \in Executions : e = Exec(r)
    BY <2>1
  <2>3. Unsettled(e)'
    <3>1. CASE e # Exec(p)
      BY <2>1, <2>2, <3>1
    <3>2. CASE e = Exec(p) /\ UNCHANGED status
      BY <2>1, <2>2, <3>2 DEF Unsettled
    <3>3. CASE e = Exec(p) /\ p.phase \in Awaiting \cup {"claimed"} /\ ValidClaim(p.claim)
      <4>1. e \in resolved
        BY <1>3, <2>2, <3>3, OthersAreStale DEF EInv, Base
      <4>2. QED BY <4>1 DEF Unsettled
    <3>4. QED BY <3>1, <3>2, <3>3
  <2>4. QED BY <2>2, <2>3
<1>4. ProcsOK'
  BY <1>3, ProcMoves DEF EInv, Base
<1>5. QED BY <1>2, <1>4 DEF EInv

\* The same when the Store is left alone.
LEMMA QuietTask ==
  ASSUME EInv, NEW p \in procs, NEW q \in Proc, Become(p, q), q.claim = p.claim,
         UNCHANGED storeVars, UNCHANGED <<engine, owned, dispatcher, launched, resolved>>,
         \/ q.phase = p.phase \/ q.phase \in Ended \/ (q.phase = "callback" /\ p.phase = "target")
         \/ (q.phase = "lost" /\ ~ValidClaim(p.claim))
  PROVE  EInv'
<1>1. UNCHANGED vars
  BY DEF storeVars
<1>2. UNCHANGED <<authorized, scan, status, work, now>>
  BY <1>1 DEF vars
<1>3. ProcOK(p)
  BY DEF EInv, ProcsOK
<1>4. ProcOK(q)'
  BY <1>2, <1>3 DEF ProcOK, Unused, Exec, Unsettled, ValidClaim, Awaiting, Ended
<1>5. \A e \in Executions : Unsettled(e) => Unsettled(e)'
  BY <1>2 DEF Unsettled
<1>6. q.phase \in Awaiting => p.phase \in Awaiting
  BY DEF Awaiting, Ended
<1>7. QED BY <1>1, <1>2, <1>4, <1>5, <1>6, TaskInv

LEMMA SettleInvEngine ==
  ASSUME EInv, NEW p \in procs, NEW outcome \in Terminal \cup {"needs_attention"}, Settle(p, outcome),
         \/ p.phase \in Awaiting
         \/ p.phase = "claimed" /\ p.claim.item[2] = "expire_interrupt" /\ outcome = "timed_out"
         \/ p.phase = "claimed" /\ p.claim.item[2] = "execute" /\ outcome = "failed"
  PROVE  EInv'
<1>1. UNCHANGED <<engine, owned, dispatcher, launched, resolved>> /\ EngineTypeOK
  BY DEF Settle, EInv, Base
<1>2. CASE FinishExecution(p.claim, outcome) /\ Goto(p, "done")
  <2>1. [Next]_vars
    BY SettleStore
  <2>2. PICK q \in Proc : q = [p EXCEPT !.phase = "done"] /\ q.claim = p.claim /\ q.phase = "done"
    BY <1>1, Moving, ZenonT(40) DEF Phases, Stops
  <2>3. Become(p, q)
    BY <1>2, <2>2 DEF Goto
  <2>4. UNCHANGED <<authorized, scan>> /\ ValidClaim(p.claim) /\ status' = [status EXCEPT ![Exec(p)] = outcome]
    BY <1>2 DEF FinishExecution, Exec
  <2>5. ProcOK(q)'
    BY <2>2 DEF ProcOK, Awaiting
  <2>6. \A e \in Executions : Unsettled(e) /\ e # Exec(p) => Unsettled(e)'
    BY <1>1, <2>4 DEF Unsettled, EngineTypeOK, TypeOK
  <2>7. QED BY <1>1, <2>1, <2>2, <2>3, <2>4, <2>5, <2>6, TaskInv DEF Awaiting
<1>3. CASE Refused(p) /\ Goto(p, IF p.phase = "claimed" THEN "lost" ELSE "failed")
  <2>1. PICK phase \in {"lost", "failed"} : Goto(p, phase)
    BY <1>3
  <2>2. PICK q \in Proc : q = [p EXCEPT !.phase = phase] /\ q.claim = p.claim /\ q.phase = phase
    <3>1. phase \in Phases /\ "no" \in Stops /\ FALSE \in BOOLEAN
      BY DEF Phases, Stops
    <3>2. QED BY <1>1, <3>1, Moving
  <2>3. Become(p, q) /\ UNCHANGED storeVars /\ ~ValidClaim(p.claim)
    BY <1>3, <2>1, <2>2 DEF Goto, Refused
  <2>4. QED BY <1>1, <2>2, <2>3, QuietTask DEF Ended
<1>4. QED BY <1>2, <1>3 DEF Settle

LEMMA RecordInv ==
  ASSUME EInv, NEW p \in procs, p.phase \in Awaiting, RecordInterrupt(p)
  PROVE  EInv'
<1>1. UNCHANGED <<engine, owned, dispatcher, launched, resolved>> /\ EngineTypeOK
  BY DEF RecordInterrupt, EInv, Base
<1>2. CASE MarkInterrupted(p.claim) /\ Goto(p, "done")
  <2>1. [Next]_vars
    BY RecordStore
  <2>2. PICK q \in Proc : q = [p EXCEPT !.phase = "done"] /\ q.claim = p.claim /\ q.phase = "done"
    BY <1>1, Moving, ZenonT(40) DEF Phases, Stops
  <2>3. Become(p, q)
    BY <1>2, <2>2 DEF Goto
  <2>4. UNCHANGED <<authorized, scan>> /\ ValidClaim(p.claim) /\ status' = [status EXCEPT ![Exec(p)] = "interrupted"]
    BY <1>2 DEF MarkInterrupted, Exec
  <2>5. ProcOK(q)'
    BY <2>2 DEF ProcOK, Awaiting
  <2>6. \A e \in Executions : Unsettled(e) /\ e # Exec(p) => Unsettled(e)'
    BY <1>1, <2>4 DEF Unsettled, EngineTypeOK, TypeOK
  <2>7. QED BY <1>1, <2>1, <2>2, <2>3, <2>4, <2>5, <2>6, TaskInv DEF Awaiting
<1>3. CASE (Refused(p) \/ NoRoom(p)) /\ Goto(p, "failed")
  <2>1. PICK q \in Proc : q = [p EXCEPT !.phase = "failed"] /\ q.claim = p.claim /\ q.phase = "failed"
    BY <1>1, Moving, ZenonT(40) DEF Phases, Stops
  <2>2. Become(p, q) /\ UNCHANGED storeVars
    BY <1>3, <2>1 DEF Goto, Refused, NoRoom
  <2>3. QED BY <1>1, <2>1, <2>2, QuietTask DEF Ended
<1>4. QED BY <1>2, <1>3 DEF RecordInterrupt

\* The start is authorized: nobody else has a valid claim, and nobody has started before.
LEMMA StartInv ==
  ASSUME EInv, NEW p \in procs, p.phase = "claimed", p.claim.item[2] = "execute", AuthorizeStart(p.claim),
         Goto(p, "target"), launched' = [launched EXCEPT ![Exec(p)] = @ + 1],
         UNCHANGED <<engine, owned, dispatcher, resolved>>
  PROVE  EInv'
<1>1. p.claim \in Claims /\ IInv /\ EngineTypeOK /\ Exec(p) \in Executions
  BY ProcFields DEF EInv, Base, ProcsOK
<1>2. [Next]_vars
  BY <1>1, HoldingStep
<1>3. IInv' /\ TypeOK'
  BY <1>1, <1>2, NextInv DEF IInv
<1>4. /\ Unlocked /\ ValidClaim(p.claim) /\ Exec(p) \notin authorized /\ authorized' = authorized \cup {Exec(p)}
      /\ status' = [status EXCEPT ![Exec(p)] = "running"] /\ UNCHANGED scan
  BY DEF AuthorizeStart, Exec
<1>5. PICK q \in Proc : q = [p EXCEPT !.phase = "target"] /\ q.claim = p.claim /\ q.phase = "target"
  BY <1>1, Moving DEF Phases, Stops
<1>6. procs' = (procs \ {p}) \cup {q}
  BY <1>5 DEF Goto, Become
<1>7. dispatcher.claims = {}
  BY <1>4 DEF EInv, Base, DispatcherOK, NoDispatcher
<1>8. Base'
  <2>1. EngineTypeOK'
    <3>1. launched' \in [Executions -> Nat]
      BY <1>1 DEF EngineTypeOK
    <3>2. QED BY <1>1, <1>3, <1>6, <3>1 DEF EngineTypeOK
  <2>2. LaunchesRecorded'
    BY <1>1, <1>4 DEF LaunchesRecorded, EInv, Base, EngineTypeOK
  <2>3. QED BY <1>3, <1>4, <2>1, <2>2 DEF Base, DispatcherOK, Unlocked, EInv
<1>9. status'[Exec(p)] = "running"
  BY <1>1, <1>4 DEF EngineTypeOK, TypeOK
<1>10. ProcOK(q)'
  BY <1>4, <1>5, <1>9 DEF ProcOK, Exec, Unsettled, Started
<1>11. ASSUME NEW r \in procs \ {p} PROVE ProcOK(r)'
  <2>1. r.claim \in Claims /\ ProcOK(r) /\ Exec(r) \in Executions
    BY <1>1, ProcFields DEF EInv, ProcsOK
  <2>2. ValidClaim(r.claim)' => ValidClaim(r.claim)
    BY <1>1, <1>2, <2>1, ClaimsAge
  <2>3. ASSUME r.claim.item[2] = "execute", ValidClaim(r.claim) PROVE Exec(r) # Exec(p)
    <3>1. SUFFICES ASSUME Exec(r) = Exec(p) PROVE FALSE
      OBVIOUS
    <3>2. r.claim.item \in Items /\ p.claim.item \in Items
      BY <1>1, <2>1, ClaimFields DEF EngineTypeOK
    <3>3. r.claim.item = p.claim.item
      BY <2>3, <3>1, <3>2, ItemCases DEF Exec
    <3>4. r.claim = p.claim
      BY <1>1, <1>4, <2>1, <2>3, <3>3, ValidSays
    <3>5. QED BY <3>4 DEF EInv, ProcsOK
  <2>4. r.phase = "target" => Unsettled(Exec(r))'
    <3>1. PICK e \in Executions : e = Exec(r)
      BY <2>1
    <3>2. Unsettled(e) => Unsettled(e)'
      BY <1>1, <1>4 DEF Unsettled, EngineTypeOK, TypeOK, Started
    <3>3. QED BY <2>1, <3>1, <3>2 DEF ProcOK
  <2>5. QED BY <1>4, <2>1, <2>2, <2>3, <2>4 DEF ProcOK, Unused, Exec, Awaiting
<1>12. ASSUME NEW r \in procs \ {p}, r.phase \in Awaiting PROVE Exec(r) # Exec(p)
  BY <1>4, <1>12 DEF EInv, ProcsOK, ProcOK
<1>13. ASSUME NEW r \in procs' PROVE r.claim \in Claims' /\ r.claim \notin dispatcher'.claims /\ ProcOK(r)'
  <2>1. \A s \in procs : s.claim \in Claims'
    BY <1>1, <1>2, ClaimsAge DEF EInv, ProcsOK
  <2>2. QED BY <1>5, <1>6, <1>7, <1>10, <1>11, <2>1
<1>14. ASSUME NEW r \in procs', NEW s \in procs', r.claim = s.claim PROVE r = s
  BY <1>5, <1>6, <1>14 DEF EInv, ProcsOK
<1>15. ASSUME NEW r \in procs', NEW s \in procs', r.phase \in Awaiting, s.phase \in Awaiting, Exec(r) = Exec(s)
       PROVE  r = s
  BY <1>5, <1>6, <1>12, <1>15 DEF EInv, ProcsOK, Exec
<1>16. ProcsOK'
  BY <1>7, <1>13, <1>14, <1>15 DEF ProcsOK
<1>17. QED BY <1>8, <1>16 DEF EInv

LEMMA TaskStepInv ==
  ASSUME EInv, NEW p \in procs, Process(p) \/ CancelTask(p)
  PROVE  EInv'
<1>1. EngineTypeOK /\ p.phase \in Phases
  BY ProcFields DEF EInv, Base
<1>2. ASSUME NEW phase \in Phases, Goto(p, phase), UNCHANGED storeVars,
             UNCHANGED <<engine, owned, dispatcher, launched, resolved>>,
             \/ phase \in Ended \/ (phase = "callback" /\ p.phase = "target")
             \/ (phase = "lost" /\ ~ValidClaim(p.claim))
      PROVE  EInv'
  <2>1. PICK q \in Proc : q = [p EXCEPT !.phase = phase] /\ q.claim = p.claim /\ q.phase = phase
    <3>1. "no" \in Stops /\ FALSE \in BOOLEAN
      BY DEF Stops
    <3>2. QED BY <1>1, <3>1, Moving
  <2>2. Become(p, q)
    BY <1>2, <2>1 DEF Goto
  <2>3. QED BY <1>2, <2>1, <2>2, QuietTask
<1>3. ASSUME NEW why \in Stops, Stop(p, why), UNCHANGED storeVars,
             UNCHANGED <<engine, owned, dispatcher, launched, resolved>>
      PROVE  EInv'
  <2>1. PICK q \in Proc : q = [p EXCEPT !.stop = why] /\ q.claim = p.claim /\ q.phase = p.phase
    <3>1. FALSE \in BOOLEAN
      OBVIOUS
    <3>2. QED BY <1>1, <3>1, Moving
  <2>2. Become(p, q)
    BY <1>3, <2>1 DEF Stop
  <2>3. QED BY <1>3, <2>1, <2>2, QuietTask
<1>4. CASE ExpireInterrupt(p)
  BY <1>4, SettleInvEngine DEF ExpireInterrupt, Terminal
<1>5. CASE TargetMissing(p)
  BY <1>5, SettleInvEngine DEF TargetMissing, Terminal
<1>6. CASE StartTarget(p)
  <2>1. CASE AuthorizeStart(p.claim)
    BY <1>6, <2>1, StartInv DEF StartTarget, Refused, AuthorizeStart
  <2>2. CASE Refused(p) /\ Goto(p, "lost") /\ UNCHANGED launched
    BY <1>2, <1>6, <2>2 DEF StartTarget, Refused, Phases
  <2>3. QED BY <1>6, <2>1, <2>2 DEF StartTarget
<1>7. CASE HandOver(p)
  BY <1>2, <1>7 DEF HandOver, Phases, Ended
<1>8. CASE TargetEnds(p)
  BY <1>8, SettleInvEngine DEF TargetEnds, Terminal, Awaiting
<1>9. CASE TargetInterrupts(p)
  BY <1>2, <1>9, RecordInv DEF TargetInterrupts, Phases, Awaiting
<1>10. CASE CallbackEnds(p)
  BY <1>10, SettleInvEngine, RecordInv DEF CallbackEnds, Terminal, Awaiting
<1>11. CASE NoticeStop(p)
  BY <1>3, <1>11 DEF NoticeStop, Stops
<1>12. CASE Renew(p)
  <2>1. CASE Refused(p) /\ Stop(p, "lost")
    BY <1>3, <1>12, <2>1 DEF Renew, Refused, Stops
  <2>2. CASE RenewClaim(p.claim)
    <3>1. [Next]_vars /\ IInv
      BY <2>2, HoldingStep DEF EInv, Base, ProcsOK
    <3>2. /\ UNCHANGED <<authorized, scan, status, engine, owned, dispatcher, launched, resolved>>
          /\ ValidClaim(p.claim) /\ p.claim \in Claims /\ ProcOK(p)
      BY <1>12, <2>2 DEF Renew, RenewClaim, EInv, ProcsOK
    <3>3. \A e \in Executions : Unsettled(e) => Unsettled(e)'
      BY <3>2 DEF Unsettled
    <3>4. PICK q \in Proc : Become(p, q) /\ q.claim = p.claim /\ q.phase = p.phase
      <4>1. CASE Stop(p, "cancel")
        <5>1. "cancel" \in Stops /\ FALSE \in BOOLEAN
          BY DEF Stops
        <5>2. QED BY <1>1, <4>1, <5>1, Moving DEF Stop
      <4>2. CASE UNCHANGED procs
        <5>1. p \in Proc /\ Become(p, p)
          BY <1>1, <4>2 DEF EngineTypeOK, Become
        <5>2. QED BY <5>1
      <4>3. QED BY <1>12, <2>2, <4>1, <4>2 DEF Renew, Refused, RenewClaim
    <3>5. ProcOK(q)'
      <4>1. ValidClaim(p.claim)' => ValidClaim(p.claim)
        BY <3>1, <3>2, ClaimsAge
      <4>2. QED BY <3>2, <3>4, <4>1 DEF ProcOK, Unused, Exec, Unsettled
    <3>6. QED BY <3>1, <3>2, <3>3, <3>4, <3>5, TaskInv
  <2>3. QED BY <1>12, <2>1, <2>2 DEF Renew
<1>13. CASE Stopped(p)
  <2>1. CASE \E outcome \in Terminal \cup {"needs_attention"} : Settle(p, outcome)
    BY <1>13, <2>1, SettleInvEngine DEF Stopped
  <2>2. CASE p.stop = "lost"
    BY <1>2, <1>13, <2>2 DEF Stopped, Phases, Ended
  <2>3. QED BY <1>13, <2>1, <2>2 DEF Stopped, Terminal
<1>14. CASE Aborts(p)
  BY <1>2, <1>14 DEF Aborts, Phases, Ended
<1>15. CASE CancelTask(p)
  BY <1>2, <1>3, <1>15 DEF CancelTask, Phases, Ended, Stops
<1>16. QED BY <1>4, <1>5, <1>6, <1>7, <1>8, <1>9, <1>10, <1>11, <1>12, <1>13, <1>14, <1>15 DEF Process

LEMMA CancelRunningInv ==
  ASSUME EInv, NEW w \in Workers, NEW e \in Executions, CancelRunning(w, e)
  PROVE  EInv'
<1>1. PICK p \in procs : Become(p, [p EXCEPT !.cancel = TRUE])
  BY DEF CancelRunning
<1>2. PICK q \in Proc : q = [p EXCEPT !.cancel = TRUE] /\ q.claim = p.claim /\ q.phase = p.phase
  <2>1. "no" \in Stops /\ "done" \in Phases /\ TRUE \in BOOLEAN /\ EngineTypeOK
    BY DEF Stops, Phases, EInv, Base
  <2>2. QED BY <2>1, Moving
<1>3. UNCHANGED storeVars /\ UNCHANGED <<engine, owned, dispatcher, launched, resolved>>
  BY DEF CancelRunning
<1>4. QED BY <1>1, <1>2, <1>3, QuietTask

-----------------------------------------------------------------------------
(* The theorems.                                                            *)

\* Every step of the workers, the clients and the clock keeps the invariant.
THEOREM EngineInductive == EngineSpec => []EInv
<1>1. EInv /\ [EngineNext]_allVars => EInv'
  <2> SUFFICES ASSUME EInv, [EngineNext]_allVars PROVE EInv'
    OBVIOUS
  <2>1. CASE ClientCommand \/ EngineTick \/ UNCHANGED allVars
    BY <2>1, CommandInv
  <2>2. ASSUME NEW w \in Workers, Dispatch(w) PROVE EInv'
    BY <2>2, DispatchInv
  <2>3. ASSUME NEW w \in Workers, Reap(w) \/ Close(w) \/ Closed(w) \/ Crash(w) \/ Start(w) PROVE EInv'
    BY <2>3, LifecycleInv
  <2>4. ASSUME NEW w \in Workers, NEW e \in Executions, CancelRunning(w, e) PROVE EInv'
    BY <2>4, CancelRunningInv
  <2>5. ASSUME NEW i \in Items, Consider(i) PROVE EInv'
    BY <2>5, ConsiderInv
  <2>6. ASSUME NEW p \in procs, Process(p) \/ CancelTask(p) PROVE EInv'
    BY <2>6, TaskStepInv
  <2>7. QED BY <2>1, <2>2, <2>3, <2>4, <2>5, <2>6, EndDispatchInv DEF EngineNext
<1>2. QED BY <1>1, EngineInitInv, PTL DEF EngineSpec

\* The workers use the Store only as its specification allows: a claim is used by the worker
\* that was given it, for what its kind and the start of its execution permit.  All that is
\* proved of the Store therefore holds under the workers.
THEOREM WorkersUseTheStore == EngineSpec => Spec
<1>1. EngineInit => Init
  BY DEF EngineInit
<1>2. EInv /\ [EngineNext]_allVars => [Next]_vars
  BY EngineStore
<1>3. QED BY <1>1, <1>2, EngineInductive, PTL DEF EngineSpec, Spec

\* The target of an execution is started at most once, for any number of workers that crash,
\* lose their claims or claim the execution again.
THEOREM TargetsStartOnce == EngineSpec => []LaunchedOnce
<1>1. EInv => LaunchedOnce
  BY DEF EInv, Base, LaunchesRecorded, LaunchedOnce
<1>2. QED BY <1>1, EngineInductive, PTL

\* What every worker's next Store call presumes holds whenever it makes it: a running target
\* occupies its unit, and a valid claim has the status that finish_execution, which does not
\* look at it, takes for granted.
THEOREM WorkersPresumeRightly == EngineSpec => []EngineInvariant
<1>1. EInv => EngineInvariant
  <2> SUFFICES ASSUME EInv PROVE EngineInvariant
    OBVIOUS
  <2>1. IInv /\ EngineTypeOK
    BY DEF EInv, Base
  <2>2. RunningHoldsUnit
    <3>1. ASSUME NEW p \in procs, p.phase = "target" PROVE Exec(p) \in admitted \cup resolved
      <4>1. Unsettled(Exec(p)) /\ Exec(p) \in Executions
        BY <2>1, <3>1, ProcFields DEF EInv, ProcsOK, ProcOK
      <4>2. QED BY <2>1, <4>1 DEF Unsettled, IInv, CapacityHeld
    <3>2. QED BY <3>1 DEF RunningHoldsUnit
  <2>3. ClaimMatchesStatus
    <3>1. ASSUME NEW p \in procs, ValidClaim(p.claim), p.phase \notin Ended
          PROVE  status[Exec(p)] \in (IF p.claim.item[2] = "expire_interrupt" THEN {"interrupted"}
                                      ELSE IF p.phase = "claimed" THEN {"queued"} ELSE Started)
      <4>1. p.claim \in Claims /\ ProcOK(p) /\ p.phase \in Phases /\ Exec(p) \in Executions
        BY <2>1, ProcFields DEF EInv, ProcsOK
      <4>2. CASE p.claim.item[2] # "execute"
        BY <2>1, <3>1, <4>1, <4>2, ValidSays DEF Exec
      <4>3. CASE p.claim.item[2] = "execute" /\ p.phase = "claimed"
        <5>1. Exec(p) \notin authorized /\ status[Exec(p)] \in Started \cup {"queued"}
          BY <2>1, <3>1, <4>1, <4>3, ValidSays DEF ProcOK, Unused, Exec
        <5>2. QED BY <2>1, <4>1, <4>3, <5>1 DEF IInv, StartRecorded
      <4>4. CASE p.claim.item[2] = "execute" /\ p.phase \in Awaiting
        <5>1. Exec(p) \in authorized /\ status[Exec(p)] \in Started \cup {"queued"}
          BY <2>1, <3>1, <4>1, <4>4, ValidSays DEF ProcOK, Exec
        <5>2. p.phase # "claimed"
          BY <4>4 DEF Awaiting
        <5>3. QED BY <2>1, <4>1, <4>4, <5>1, <5>2 DEF IInv, StartRecorded
      <4>5. p.phase \in Awaiting \/ p.phase = "claimed"
        BY <3>1, <4>1 DEF ProcOK, Phases, Ended, Awaiting
      <4>6. QED BY <4>2, <4>3, <4>4, <4>5
    <3>2. QED BY <3>1 DEF ClaimMatchesStatus
  <2>4. QED BY <2>1, <2>2, <2>3 DEF EngineInvariant
<1>2. QED BY <1>1, EngineInductive, PTL
=============================================================================
