----------------------- MODULE SandboxOwnershipProofs -----------------------
(***************************************************************************)
(* The ownership of sandboxes for any number of managers, owners, slots,   *)
(* sandboxes and faults: a sandbox has one home, nothing that has a home   *)
(* is destroyed, and nothing that runs is forgotten unnoticed.             *)
(***************************************************************************)
EXTENDS SandboxOwnership, TLAPS

-----------------------------------------------------------------------------
(* Types.                                                                   *)

Names == Sandboxes \cup {None}
Rows == [sandbox : Names, claim : Managers \cup {None}, live : BOOLEAN]
Places == {"idle", "claimed", "acquiring", "checking", "creating", "binding", "reconciling", "deleting",
           "releasing"}
Tasks == [op : {None, "get", "recreate", "delete"}, pc : Places, owner : Owners \cup {None},
          old : Names, current : Names, candidate : Names, retire : SUBSET Sandboxes]
Fills == [pc : {"off", "creating", "publishing", "probing", "republishing", "discarding", "releasing"},
          slot : Slots \cup {None}, sandbox : Names]
Drains == [pc : {"off", "destroying", "completing", "releasing"}, slot : Slots \cup {None}, sandbox : Names]

\* What a job has in its hands at each place.
TaskShape(t) ==
  /\ t.pc = "idle" <=> t.owner = None
  /\ t.pc = "claimed" => t.current = None /\ t.retire = {}
  /\ t.pc = "deleting" => t.current = None
  /\ t.pc = "checking" => t.current # None
  /\ t.pc \in {"binding", "reconciling"} => t.candidate # None

FillShape(f) ==
  /\ f.pc # "off" => f.slot \in Slots
  /\ f.pc \in {"publishing", "probing", "republishing", "discarding"} => f.sandbox # None

\* Only a claim has a lease.
RowsOK(table) == \A k \in DOMAIN table : table[k].live => table[k].claim # None

RemoteOK == remote \in [Sandboxes -> {"unused", "running", "broken", "gone"}]
OwnerOK == owner \in [Owners -> Rows] /\ RowsOK(owner)
SlotOK == slot \in [Slots -> Rows] /\ RowsOK(slot)
CleanupOK == cleanup \in [Sandboxes -> Rows] /\ RowsOK(cleanup)
TaskOK == task \in [Managers -> Tasks] /\ \A m \in Managers : TaskShape(task[m])
FillOK == fill \in [Managers -> Fills] /\ \A m \in Managers : FillShape(fill[m])
DrainOK == drain \in [Managers -> Drains] /\ \A m \in Managers : drain[m].pc # "off" => drain[m].sandbox # None
MemoryOK ==
  /\ retiring \in [Managers -> SUBSET Sandboxes]
  /\ pending \in [Managers -> [Owners -> SUBSET Sandboxes]]
  /\ up \in [Managers -> {"up", "closing", "down"}]

Typed ==
  /\ RemoteOK /\ OwnerOK /\ SlotOK /\ CleanupOK
  /\ TaskOK /\ FillOK /\ DrainOK /\ MemoryOK

-----------------------------------------------------------------------------
(* Homes.                                                                   *)

\* OneHome, sandbox by sandbox.
OneHomeEach ==
  /\ \A o, p \in Owners : owner[o].sandbox = owner[p].sandbox /\ owner[o].sandbox # None => o = p
  /\ \A i, j \in Slots : slot[i].sandbox = slot[j].sandbox /\ slot[i].sandbox # None => i = j
  /\ \A o \in Owners, i \in Slots : owner[o].sandbox = slot[i].sandbox => owner[o].sandbox = None

Dooms(s) == cleanup[s].sandbox # None \/ \E m \in Managers : s \in retiring[m]
HasHome(s) == (\E o \in Owners : owner[o].sandbox = s) \/ (\E i \in Slots : slot[i].sandbox = s)

\* BoundIsKept, sandbox by sandbox.
KeptEach == \A s \in Sandboxes : Dooms(s) /\ HasHome(s) => s \in condemned

\* The sandbox that the owner had when the task last knew.
Latest(t) == IF t.current # None THEN t.current ELSE t.old

\* The places before the outcome of a replacement is settled.
Working == {"claimed", "acquiring", "checking", "creating", "binding", "reconciling"}

\* Under its claim a task knows the binding, and a maintenance pass its slot.
ClaimKnows(m) ==
  LET t == task[m] IN
  t.pc \in (Working \ {"reconciling"}) \cup {"deleting"} /\ owner[t.owner].claim = m =>
    owner[t.owner].sandbox = Latest(t)

SlotKnows(m) ==
  LET f == fill[m] IN
  f.pc # "off" /\ slot[f.slot].claim = m =>
    /\ f.pc \in {"probing", "republishing", "discarding"} => slot[f.slot].sandbox = f.sandbox
    /\ f.pc \in {"creating", "publishing"} => slot[f.slot].sandbox = None

\* What a task replaces is at most the last binding of its own owner.
Outdated(m) ==
  LET t == task[m] IN
  t.pc \in Working =>
    \A s \in Replaced(t) :
      /\ \A i \in Slots : slot[i].sandbox # s
      /\ \A o \in Owners : owner[o].sandbox = s => o = t.owner /\ s = Latest(t)

\* A candidate in doubt is at most the binding of its own owner.
InDoubt(m) ==
  LET t == task[m] IN
  t.pc = "reconciling" =>
    /\ \A i \in Slots : slot[i].sandbox # t.candidate
    /\ \A o \in Owners : owner[o].sandbox = t.candidate => o = t.owner

-----------------------------------------------------------------------------
(* New sandboxes.                                                           *)

\* What a task replaces or deletes, and what is left to a later deletion.
Former(s) ==
  \E m \in Managers :
    \/ task[m].pc \in Working \cup {"deleting"} /\ s \in Replaced(task[m])
    \/ \E o \in Owners : s \in pending[m][o]

\* A sandbox that has had no home yet and is not on its way to destruction.
Fresh(s) == ~HasHome(s) /\ ~Dooms(s) /\ ~Former(s)

Binds(m, s) == task[m].pc = "binding" /\ task[m].candidate = s
Doubts(m, s) == task[m].pc = "reconciling" /\ task[m].candidate = s
Publishes(m, s) == fill[m].pc = "publishing" /\ fill[m].sandbox = s

\* A sandbox is fresh until it is first bound or published.
Loose(s) == remote[s] = "unused" \/ \E m \in Managers : Binds(m, s) \/ Publishes(m, s)
FreshEach == \A s \in Sandboxes : Loose(s) => Fresh(s)

\* A candidate is in one hand.
OneHand ==
  \A s \in Sandboxes :
    /\ remote[s] = "unused" => \A m \in Managers : ~Binds(m, s) /\ ~Doubts(m, s) /\ ~Publishes(m, s)
    /\ \A m, n \in Managers :
         /\ (Binds(m, s) \/ Doubts(m, s)) => ~Publishes(n, s)
         /\ m # n => ~((Binds(m, s) \/ Doubts(m, s)) /\ (Binds(n, s) \/ Doubts(n, s)))
         /\ m # n => ~(Publishes(m, s) /\ Publishes(n, s))

-----------------------------------------------------------------------------
(* Responsibility.                                                          *)

\* What a deletion has to destroy is listed or destroyed, and so is what a cleanup completes.
DestructionOK ==
  /\ \A m \in Managers : task[m].pc = "deleting" =>
       \A s \in pending[m][task[m].owner] \cup Some(task[m].old) : s \in task[m].retire \/ remote[s] = "gone"
  /\ \A m \in Managers : drain[m].pc = "completing" => remote[drain[m].sandbox] = "gone"

\* What is lost when the memory of a manager is: InMemory without what a row or
\* another manager answers for.
Answers(m, s) ==
  \/ s \in retiring[m]
  \/ \E o \in Owners : s \in pending[m][o]
  \/ task[m].pc \in {"acquiring", "creating", "binding", "reconciling"} /\ s \in Replaced(task[m])
  \/ task[m].pc = "checking" /\ s \in (task[m].retire \cup Some(task[m].old)) \ {task[m].current}
  \/ Binds(m, s) \/ Doubts(m, s) \/ Publishes(m, s)

AnsweredFor ==
  \A s \in Sandboxes : remote[s] \in {"running", "broken"} =>
    HasHome(s) \/ Dooms(s) \/ s \in left \/ \E m \in Managers : Answers(m, s)

HomesOK ==
  /\ OneHomeEach
  /\ \A m \in Managers : ClaimKnows(m) /\ SlotKnows(m) /\ Outdated(m) /\ InDoubt(m)
  /\ FreshEach /\ OneHand

\* With certain answers to publish_warm, nothing that has a home is doomed.
Kept == UncertainPublish \/ KeptEach

Safe == HomesOK /\ DestructionOK /\ AnsweredFor /\ Kept

\* The inductive invariant.
OInv == Typed /\ Safe

-----------------------------------------------------------------------------
(* What the updates of the rows and of the jobs do.                         *)

LEMMA ClaimedRow ==
  ASSUME NEW r \in Rows, NEW m \in Managers
  PROVE  /\ Claimed(r, m) \in Rows
         /\ Claimed(r, m).sandbox = r.sandbox /\ Claimed(r, m).claim = m /\ Claimed(r, m).live
BY DEF Claimed, Rows

LEMMA ReleasedRow ==
  ASSUME NEW r \in Rows, NEW m \in Managers, r.live => r.claim # None
  PROVE  /\ Released(r, m) \in Rows
         /\ Released(r, m).sandbox = r.sandbox
         /\ Released(r, m).live => Released(r, m).claim # None
         /\ Released(r, m).claim \in {r.claim, None}
BY DEF Released, Rows

\* A job is replaced by one of its own kind, and the others stay as they are.
Tasked(m, t) == task'[m] = t /\ \A n \in Managers : n # m => task'[n] = task[n]
Filled(m, f) == fill'[m] = f /\ \A n \in Managers : n # m => fill'[n] = fill[n]
Drained(m, d) == drain'[m] = d /\ \A n \in Managers : n # m => drain'[n] = drain[n]

LEMMA TaskUpdate ==
  ASSUME TaskOK, NEW m \in Managers, NEW t \in Tasks, TaskShape(t), task' = [task EXCEPT ![m] = t]
  PROVE  TaskOK' /\ Tasked(m, t)
BY DEF TaskOK, Tasked

LEMMA FillUpdate ==
  ASSUME FillOK, NEW m \in Managers, NEW f \in Fills, FillShape(f), fill' = [fill EXCEPT ![m] = f]
  PROVE  FillOK' /\ Filled(m, f)
BY DEF FillOK, Filled

LEMMA DrainUpdate ==
  ASSUME DrainOK, NEW m \in Managers, NEW d \in Drains, d.pc # "off" => d.sandbox # None,
         drain' = [drain EXCEPT ![m] = d]
  PROVE  DrainOK' /\ Drained(m, d)
BY DEF DrainOK, Drained

\* A task that moves to another place, with all it has.
Moved(t, pc) == [t EXCEPT !.pc = pc]

LEMMA MovedTask ==
  ASSUME NEW t \in Tasks, NEW pc \in Places
  PROVE  /\ Moved(t, pc) \in Tasks
         /\ Moved(t, pc).pc = pc /\ Moved(t, pc).owner = t.owner /\ Moved(t, pc).old = t.old
         /\ Moved(t, pc).current = t.current /\ Moved(t, pc).candidate = t.candidate
         /\ Moved(t, pc).retire = t.retire /\ Moved(t, pc).op = t.op
BY DEF Moved, Tasks

LEMMA GotoUpdate ==
  ASSUME TaskOK, NEW m \in Managers, NEW pc \in Places, Goto(m, pc), TaskShape(Moved(task[m], pc))
  PROVE  TaskOK' /\ Tasked(m, Moved(task[m], pc))
<1>1. Moved(task[m], pc) \in Tasks
  BY MovedTask DEF TaskOK
<1>2. task' = [task EXCEPT ![m] = Moved(task[m], pc)]
  BY DEF Goto, Moved, TaskOK, Tasks
<1> QED
  BY <1>1, <1>2, TaskUpdate

LEMMA ReleasingUpdate ==
  ASSUME TaskOK, NEW m \in Managers, Goto(m, "releasing"), task[m].pc # "idle"
  PROVE  TaskOK' /\ Tasked(m, Moved(task[m], "releasing"))
<1>1. TaskShape(Moved(task[m], "releasing"))
  BY MovedTask DEF TaskShape, TaskOK, Places
<1> QED
  BY <1>1, GotoUpdate DEF Places

LEMMA Idle ==
  /\ NoTask \in Tasks /\ TaskShape(NoTask) /\ NoTask.pc = "idle"
  /\ NoJob \in Fills /\ FillShape(NoJob) /\ NoJob \in Drains /\ NoJob.pc = "off"
  /\ EmptyRow \in Rows /\ EmptyRow.sandbox = None /\ EmptyRow.claim = None /\ ~EmptyRow.live
BY DEF NoTask, NoJob, EmptyRow, Tasks, Fills, Drains, Rows, Places, Names, TaskShape, FillShape, None

\* Rows that stay, and jobs that stay.
LEMMA StayTyped ==
  /\ remote' = remote /\ RemoteOK => RemoteOK'
  /\ owner' = owner /\ OwnerOK => OwnerOK'
  /\ slot' = slot /\ SlotOK => SlotOK'
  /\ cleanup' = cleanup /\ CleanupOK => CleanupOK'
  /\ task' = task /\ TaskOK => TaskOK'
  /\ fill' = fill /\ FillOK => FillOK'
  /\ drain' = drain /\ DrainOK => DrainOK'
  /\ retiring' = retiring /\ pending' = pending /\ up' = up /\ MemoryOK => MemoryOK'
BY DEF RemoteOK, OwnerOK, SlotOK, CleanupOK, RowsOK, TaskOK, FillOK, DrainOK, MemoryOK

-----------------------------------------------------------------------------
(* What each action does, and that it keeps the types.                      *)

LEMMA AcquireDoes ==
  ASSUME Typed, NEW m \in Managers, NEW o \in Owners, NEW op \in {"get", "recreate", "delete"}, Acquire(m, o, op)
  PROVE  /\ Typed'
         /\ owner'[o].sandbox = owner[o].sandbox /\ owner'[o].claim = m
         /\ \A p \in Owners : p # o => owner'[p] = owner[p]
         /\ task'[m].pc = "claimed" /\ task'[m].owner = o /\ task'[m].old = owner[o].sandbox
         /\ task'[m].current = None /\ task'[m].retire = {}
         /\ \A n \in Managers : n # m => task'[n] = task[n]
         /\ task[m].pc = "idle"
<1> DEFINE t == [NoTask EXCEPT !.op = op, !.pc = "claimed", !.owner = o, !.old = owner[o].sandbox]
<1>1. OwnerOK' /\ owner'[o] = Claimed(owner[o], m) /\ \A p \in Owners : p # o => owner'[p] = owner[p]
  BY ClaimedRow, NamesAssumption DEF Typed, OwnerOK, RowsOK, Acquire
<1>2. t \in Tasks /\ TaskShape(t)
  BY NamesAssumption DEF Typed, OwnerOK, Rows, Names, Tasks, Places, TaskShape, NoTask, None
<1>3. task' = [task EXCEPT ![m] = t]
  BY DEF Acquire
<1>4. TaskOK' /\ Tasked(m, t)
  BY <1>2, <1>3, TaskUpdate DEF Typed
<1>5. Typed'
  BY <1>1, <1>4, StayTyped DEF Typed, Acquire, TaskOnly, memory
<1>6. task[m].pc = "idle"
  BY Idle DEF Acquire
<1>7. t.pc = "claimed" /\ t.owner = o /\ t.old = owner[o].sandbox /\ t.current = None /\ t.retire = {}
  BY DEF NoTask
<1> QED
  BY <1>1, <1>4, <1>5, <1>6, <1>7, ClaimedRow DEF Typed, OwnerOK, Tasked

LEMMA GetOrRecreateDoes ==
  ASSUME Typed, NEW m \in Managers, GetOrRecreate(m)
  PROVE  /\ Typed' /\ task[m].pc = "claimed"
         /\ \E pc \in {"releasing", "acquiring"} : Tasked(m, Moved(task[m], pc))
<1>1. PICK pc \in {"releasing", "acquiring"} : Goto(m, pc)
  BY DEF GetOrRecreate
<1>2. TaskShape(Moved(task[m], pc)) /\ task[m].pc = "claimed"
  BY MovedTask DEF Typed, TaskOK, TaskShape, Places, GetOrRecreate
<1>3. TaskOK' /\ Tasked(m, Moved(task[m], pc))
  BY <1>1, <1>2, GotoUpdate DEF Typed, Places
<1>4. Typed'
  BY <1>3, StayTyped DEF Typed, GetOrRecreate, TaskOnly, rows, memory
<1> QED
  BY <1>2, <1>3, <1>4

\* A task that fails keeps its place in no row, and forgets what it knew of.
Fails(m) == Tasked(m, Moved(task[m], "releasing")) /\ Forget(KnownTo(task[m]))

\* A warm sandbox moves from its slot to an owner.
Handed(o, i) ==
  /\ owner'[o].sandbox = slot[i].sandbox /\ owner'[o].claim = owner[o].claim
  /\ \A p \in Owners : p # o => owner'[p] = owner[p]
  /\ slot'[i].sandbox = None /\ slot'[i].claim = slot[i].claim
  /\ \A j \in Slots : j # i => slot'[j] = slot[j]

TookWarm(m, i) ==
  /\ task'[m].pc = "checking" /\ task'[m].owner = task[m].owner /\ task'[m].old = task[m].old
  /\ task'[m].current = slot[i].sandbox
  /\ task'[m].retire = task[m].retire \cup Some(task[m].current)
  /\ \A n \in Managers : n # m => task'[n] = task[n]

LEMMA TakeWarmDoes ==
  ASSUME Typed, NEW o \in Owners, NEW i \in Slots, TakeWarm(o, i)
  PROVE  OwnerOK' /\ SlotOK' /\ Handed(o, i)
<1>1. OwnerOK' /\ owner'[o].sandbox = slot[i].sandbox /\ owner'[o].claim = owner[o].claim
      /\ \A p \in Owners : p # o => owner'[p] = owner[p]
  BY DEF Typed, OwnerOK, SlotOK, RowsOK, Rows, TakeWarm
<1>2. SlotOK' /\ slot'[i].sandbox = None /\ slot'[i].claim = slot[i].claim
      /\ \A j \in Slots : j # i => slot'[j] = slot[j]
  BY DEF Typed, SlotOK, RowsOK, Rows, Names, TakeWarm
<1> QED
  BY <1>1, <1>2 DEF Handed

LEMMA ConsumeDoes ==
  ASSUME Typed, NEW m \in Managers, Consume(m)
  PROVE  /\ Typed' /\ task[m].pc = "acquiring"
         /\ \/ owner' = owner /\ slot' = slot /\ Fails(m)
            \/ /\ owner' = owner /\ slot' = slot /\ UNCHANGED histories
               /\ Tasked(m, Moved(task[m], "creating"))
            \/ /\ owner[task[m].owner].claim = m /\ task[m].owner \in Owners
               /\ \E i \in Slots :
                    /\ slot[i].sandbox # None /\ slot[i].claim = None
                    /\ Handed(task[m].owner, i)
                    /\ \/ TookWarm(m, i) /\ UNCHANGED histories
                       \/ Fails(m)
<1> DEFINE t == task[m]
           o == task[m].owner
           ready == {i \in Slots : slot[i].sandbox # None /\ slot[i].claim = None}
<1>0. /\ t.pc = "acquiring" /\ t \in Tasks /\ TaskShape(t) /\ o \in Owners
      /\ remote' = remote /\ cleanup' = cleanup /\ fill' = fill /\ drain' = drain
      /\ retiring' = retiring /\ pending' = pending /\ up' = up
  BY DEF Consume, Typed, TaskOK, TaskShape, Tasks, TaskOnly, memory
<1> HIDE DEF t, o, ready
<1>a. ASSUME FailTask(m) PROVE TaskOK' /\ Fails(m)
  BY <1>a, <1>0, ReleasingUpdate DEF FailTask, Fails, Typed, t
<1>1. CASE owner' = owner /\ slot' = slot /\ FailTask(m)
  BY <1>0, <1>1, <1>a, StayTyped DEF Typed, t
<1>2. CASE owner' = owner /\ slot' = slot /\ UNCHANGED histories /\ Goto(m, "creating")
  <2>1. TaskShape(Moved(task[m], "creating"))
    BY <1>0, MovedTask DEF TaskShape, Places, t, o
  <2>2. TaskOK' /\ Tasked(m, Moved(task[m], "creating"))
    BY <2>1, <1>2, GotoUpdate DEF Typed, Places
  <2> QED
    BY <1>0, <1>2, <2>2, StayTyped DEF Typed, t
<1>3. CASE /\ Current(owner[o], m)
           /\ \E i \in ready :
                /\ TakeWarm(o, i)
                /\ \/ /\ task' = [task EXCEPT ![m].pc = "checking", ![m].current = slot[i].sandbox,
                                              ![m].retire = @ \cup Some(t.current)]
                      /\ UNCHANGED <<histories, faults>>
                   \/ Fault /\ FailTask(m)
  <2>1. PICK i \in ready :
           /\ TakeWarm(o, i)
           /\ \/ /\ task' = [task EXCEPT ![m].pc = "checking", ![m].current = slot[i].sandbox,
                                         ![m].retire = @ \cup Some(t.current)]
                 /\ UNCHANGED <<histories, faults>>
              \/ Fault /\ FailTask(m)
    BY <1>3
  <2>2. i \in Slots /\ slot[i].sandbox # None /\ slot[i].claim = None /\ slot[i].sandbox \in Names
    BY DEF ready, Typed, SlotOK, Rows
  <2>3. OwnerOK' /\ SlotOK' /\ Handed(o, i)
    BY <1>0, <2>1, <2>2, TakeWarmDoes
  <2>4. owner[o].claim = m
    BY <1>3 DEF Current
  <2>5. CASE FailTask(m)
    BY <1>0, <1>a, <2>2, <2>3, <2>4, <2>5, StayTyped DEF Typed, t, o
  <2>6. CASE /\ task' = [task EXCEPT ![m].pc = "checking", ![m].current = slot[i].sandbox,
                                         ![m].retire = @ \cup Some(t.current)]
             /\ UNCHANGED <<histories, faults>>
    <3> DEFINE u == [t EXCEPT !.pc = "checking", !.current = slot[i].sandbox, !.retire = @ \cup Some(t.current)]
    <3>1. Some(t.current) \subseteq Sandboxes
      BY <1>0 DEF Some, Tasks, Names
    <3>2. u \in Tasks /\ u.pc = "checking" /\ u.owner = t.owner /\ u.old = t.old
          /\ u.current = slot[i].sandbox /\ u.retire = t.retire \cup Some(t.current)
      BY <1>0, <2>2, <3>1 DEF Tasks, Places
    <3>3. task' = [task EXCEPT ![m] = u]
      BY <1>0, <2>6 DEF Typed, TaskOK, Tasks, t
    <3> HIDE DEF u
    <3>4. TaskShape(u)
      BY <3>2, <1>0, <2>2 DEF TaskShape, o, t
    <3>5. TaskOK' /\ Tasked(m, u)
      BY <3>2, <3>3, <3>4, TaskUpdate DEF Typed
    <3>6. TookWarm(m, i)
      BY <3>2, <3>5 DEF TookWarm, Tasked, t
    <3>7. Typed'
      BY <1>0, <2>3, <3>5, StayTyped DEF Typed
    <3> QED
      BY <1>0, <2>2, <2>3, <2>4, <2>6, <3>6, <3>7 DEF o, t
  <2> QED
    BY <2>1, <2>5, <2>6
<1> QED
  BY <1>1, <1>2, <1>3 DEF Consume, t, o, ready

\* A task that gives what it replaced to its cleanup tasks.
Publishing(m, s) ==
  /\ Tasked(m, Moved(task[m], "releasing"))
  /\ retiring'[m] = retiring[m] \cup (Replaced(task[m]) \ {s})
  /\ \A n \in Managers : n # m => retiring'[n] = retiring[n]

LEMMA ReplacedSandboxes ==
  ASSUME NEW t \in Tasks
  PROVE  Replaced(t) \subseteq Sandboxes /\ KnownTo(t) \subseteq Sandboxes /\ KnownTo(t) = Replaced(t) \cup Some(t.candidate)
BY DEF Replaced, KnownTo, Some, Tasks, Names

LEMMA PublishDoes ==
  ASSUME Typed, NEW m \in Managers, NEW s, Publish(m, s), task[m].pc # "idle", pending' = pending, up' = up
  PROVE  TaskOK' /\ MemoryOK' /\ Publishing(m, s)
<1>1. TaskOK' /\ Tasked(m, Moved(task[m], "releasing"))
  BY ReleasingUpdate DEF Publish, Typed
<1>2. Replaced(task[m]) \subseteq Sandboxes
  BY ReplacedSandboxes DEF Typed, TaskOK
<1>3. MemoryOK' /\ retiring'[m] = retiring[m] \cup (Replaced(task[m]) \ {s})
      /\ \A n \in Managers : n # m => retiring'[n] = retiring[n]
  BY <1>2 DEF Publish, Typed, MemoryOK
<1> QED
  BY <1>1, <1>3 DEF Publishing

LEMMA CheckConsumedDoes ==
  ASSUME Typed, NEW m \in Managers, CheckConsumed(m)
  PROVE  /\ Typed' /\ task[m].pc = "checking"
         /\ \/ Publishing(m, task[m].current) /\ UNCHANGED histories
            \/ Tasked(m, Moved(task[m], "acquiring")) /\ UNCHANGED <<retiring, histories>>
            \/ retiring' = retiring /\ Fails(m)
<1>0. /\ task[m].pc = "checking" /\ task[m] \in Tasks /\ TaskShape(task[m])
      /\ remote' = remote /\ owner' = owner /\ slot' = slot /\ cleanup' = cleanup /\ fill' = fill /\ drain' = drain
      /\ pending' = pending /\ up' = up
  BY DEF CheckConsumed, Typed, TaskOK, TaskOnly, rows
<1>1. CASE Publish(m, task[m].current) /\ UNCHANGED histories
  <2>1. TaskOK' /\ MemoryOK' /\ Publishing(m, task[m].current)
    BY <1>0, <1>1, PublishDoes
  <2> QED
    BY <1>0, <1>1, <2>1, StayTyped DEF Typed
<1>2. CASE Goto(m, "acquiring") /\ UNCHANGED <<retiring, histories>>
  <2>1. TaskShape(Moved(task[m], "acquiring"))
    BY <1>0, MovedTask DEF TaskShape, Places
  <2>2. TaskOK' /\ Tasked(m, Moved(task[m], "acquiring"))
    BY <2>1, <1>2, GotoUpdate DEF Typed, Places
  <2> QED
    BY <1>0, <1>2, <2>2, StayTyped DEF Typed
<1>3. CASE retiring' = retiring /\ FailTask(m)
  <2>1. TaskOK' /\ Fails(m)
    BY <1>0, <1>3, ReleasingUpdate DEF FailTask, Fails, Typed
  <2> QED
    BY <1>0, <1>3, <2>1, StayTyped DEF Typed
<1> QED
  BY <1>1, <1>2, <1>3 DEF CheckConsumed

LEMMA CreateDoes ==
  ASSUME Typed, NEW m \in Managers, Create(m)
  PROVE  /\ Typed' /\ task[m].pc = "creating"
         /\ \/ /\ UNCHANGED histories
               /\ \E s \in Sandboxes :
                    /\ remote[s] = "unused" /\ remote'[s] = "running"
                    /\ \A x \in Sandboxes : x # s => remote'[x] = remote[x]
                    /\ task'[m].pc = "binding" /\ task'[m].candidate = s
                    /\ task'[m].owner = task[m].owner /\ task'[m].old = task[m].old
                    /\ task'[m].current = task[m].current /\ task'[m].retire = task[m].retire
                    /\ \A n \in Managers : n # m => task'[n] = task[n]
            \/ remote' = remote /\ Fails(m)
<1>0. /\ task[m].pc = "creating" /\ task[m] \in Tasks /\ TaskShape(task[m])
      /\ owner' = owner /\ slot' = slot /\ cleanup' = cleanup /\ fill' = fill /\ drain' = drain
      /\ retiring' = retiring /\ pending' = pending /\ up' = up
  BY DEF Create, Typed, TaskOK, TaskOnly, rows, memory
<1>1. CASE remote' = remote /\ FailTask(m)
  <2>1. TaskOK' /\ Fails(m)
    BY <1>0, <1>1, ReleasingUpdate DEF FailTask, Fails, Typed
  <2> QED
    BY <1>0, <1>1, <2>1, StayTyped DEF Typed
<1>2. CASE \E s \in NewSandbox :
             /\ remote' = [remote EXCEPT ![s] = "running"]
             /\ task' = [task EXCEPT ![m].pc = "binding", ![m].candidate = s]
             /\ UNCHANGED histories
  <2>1. PICK s \in NewSandbox :
             /\ remote' = [remote EXCEPT ![s] = "running"]
             /\ task' = [task EXCEPT ![m].pc = "binding", ![m].candidate = s]
             /\ UNCHANGED histories
    BY <1>2
  <2>2. s \in Sandboxes /\ remote[s] = "unused" /\ s # None
    BY NamesAssumption DEF NewSandbox
  <2>3. RemoteOK' /\ remote'[s] = "running" /\ \A x \in Sandboxes : x # s => remote'[x] = remote[x]
    BY <2>1, <2>2 DEF Typed, RemoteOK
  <2> DEFINE u == [task[m] EXCEPT !.pc = "binding", !.candidate = s]
  <2>4. u \in Tasks /\ u.pc = "binding" /\ u.owner = task[m].owner /\ u.old = task[m].old
        /\ u.current = task[m].current /\ u.candidate = s /\ u.retire = task[m].retire
    BY <1>0, <2>2 DEF Tasks, Places, Names
  <2>5. task' = [task EXCEPT ![m] = u]
    BY <1>0, <2>1 DEF Typed, TaskOK, Tasks
  <2> HIDE DEF u
  <2>6. TaskShape(u)
    BY <1>0, <2>2, <2>4 DEF TaskShape
  <2>7. TaskOK' /\ Tasked(m, u)
    BY <2>4, <2>5, <2>6, TaskUpdate DEF Typed
  <2> QED
    BY <1>0, <2>1, <2>2, <2>3, <2>4, <2>7, StayTyped DEF Typed, Tasked
<1> QED
  BY <1>1, <1>2 DEF Create

\* The binding of an owner changes, and nothing else in the rows of owners.
Rebound(o, s) ==
  /\ owner'[o].sandbox = s /\ owner'[o].claim = owner[o].claim
  /\ \A p \in Owners : p # o => owner'[p] = owner[p]

LEMMA RebindUpdate ==
  ASSUME OwnerOK, NEW o \in Owners, NEW s \in Names, owner' = [owner EXCEPT ![o].sandbox = s]
  PROVE  OwnerOK' /\ Rebound(o, s)
BY DEF OwnerOK, RowsOK, Rows, Rebound

LEMMA BindDoes ==
  ASSUME Typed, NEW m \in Managers, Bind(m)
  PROVE  /\ Typed' /\ task[m].pc = "binding" /\ task[m].owner \in Owners /\ task[m].candidate \in Sandboxes
         /\ \/ /\ owner[task[m].owner].claim = m /\ Rebound(task[m].owner, task[m].candidate)
               /\ \/ Publishing(m, task[m].candidate)
                  \/ Tasked(m, Moved(task[m], "reconciling")) /\ retiring' = retiring
            \/ Tasked(m, Moved(task[m], "reconciling")) /\ owner' = owner /\ retiring' = retiring
<1>0. /\ task[m].pc = "binding" /\ task[m] \in Tasks /\ TaskShape(task[m])
      /\ task[m].owner \in Owners /\ task[m].candidate \in Sandboxes
      /\ remote' = remote /\ slot' = slot /\ cleanup' = cleanup /\ fill' = fill /\ drain' = drain
      /\ pending' = pending /\ up' = up
  BY DEF Bind, Typed, TaskOK, TaskShape, Tasks, Names, TaskOnly
<1>1. ASSUME Goto(m, "reconciling") PROVE TaskOK' /\ Tasked(m, Moved(task[m], "reconciling"))
  <2>1. TaskShape(Moved(task[m], "reconciling"))
    BY <1>0, MovedTask DEF TaskShape, Places
  <2> QED
    BY <2>1, <1>1, GotoUpdate DEF Typed, Places
<1>2. CASE Goto(m, "reconciling") /\ UNCHANGED <<owner, retiring>>
  BY <1>0, <1>1, <1>2, StayTyped DEF Typed
<1>3. CASE /\ Current(owner[task[m].owner], m)
           /\ owner' = [owner EXCEPT ![task[m].owner].sandbox = task[m].candidate]
           /\ \/ Publish(m, task[m].candidate)
              \/ Goto(m, "reconciling") /\ UNCHANGED retiring
  <2>1. OwnerOK' /\ Rebound(task[m].owner, task[m].candidate) /\ owner[task[m].owner].claim = m
    BY <1>0, <1>3, RebindUpdate DEF Typed, Names, Current
  <2>2. CASE Publish(m, task[m].candidate)
    <3>1. TaskOK' /\ MemoryOK' /\ Publishing(m, task[m].candidate)
      BY <1>0, <2>2, PublishDoes
    <3> QED
      BY <1>0, <2>1, <3>1, StayTyped DEF Typed
  <2>3. CASE Goto(m, "reconciling") /\ UNCHANGED retiring
    BY <1>0, <1>1, <2>1, <2>3, StayTyped DEF Typed
  <2> QED
    BY <1>3, <2>2, <2>3
<1> QED
  BY <1>2, <1>3 DEF Bind

LEMMA ReconcileDoes ==
  ASSUME Typed, NEW m \in Managers, Reconcile(m)
  PROVE  /\ Typed' /\ task[m].pc = "reconciling" /\ task[m].owner \in Owners /\ task[m].candidate \in Sandboxes
         /\ \/ /\ owner[task[m].owner].sandbox = task[m].candidate
               /\ Publishing(m, task[m].candidate) /\ UNCHANGED histories
            \/ /\ owner[task[m].owner].sandbox # task[m].candidate
               /\ retiring'[m] = retiring[m] \cup {task[m].candidate}
               /\ \A n \in Managers : n # m => retiring'[n] = retiring[n]
               /\ Fails(m)
            \/ retiring' = retiring /\ Fails(m)
<1>0. /\ task[m].pc = "reconciling" /\ task[m] \in Tasks /\ TaskShape(task[m])
      /\ task[m].owner \in Owners /\ task[m].candidate \in Sandboxes
      /\ remote' = remote /\ owner' = owner /\ slot' = slot /\ cleanup' = cleanup /\ fill' = fill /\ drain' = drain
      /\ pending' = pending /\ up' = up
  BY DEF Reconcile, Typed, TaskOK, TaskShape, Tasks, Names, TaskOnly, rows
<1>1. ASSUME FailTask(m) PROVE TaskOK' /\ Fails(m)
  BY <1>0, <1>1, ReleasingUpdate DEF FailTask, Fails, Typed
<1>2. CASE Resolution(m) = "authoritative" /\ Publish(m, task[m].candidate) /\ UNCHANGED histories
  <2>1. TaskOK' /\ MemoryOK' /\ Publishing(m, task[m].candidate)
    BY <1>0, <1>2, PublishDoes
  <2> QED
    BY <1>0, <1>2, <2>1, StayTyped DEF Typed, Resolution
<1>3. CASE /\ Resolution(m) = "not_authoritative"
           /\ retiring' = [retiring EXCEPT ![m] = @ \cup {task[m].candidate}]
           /\ FailTask(m)
  <2>1. /\ MemoryOK' /\ retiring'[m] = retiring[m] \cup {task[m].candidate}
        /\ \A n \in Managers : n # m => retiring'[n] = retiring[n]
    BY <1>0, <1>3 DEF Typed, MemoryOK
  <2> QED
    BY <1>0, <1>1, <1>3, <2>1, StayTyped DEF Typed, Resolution
<1>4. CASE retiring' = retiring /\ FailTask(m)
  BY <1>0, <1>1, <1>4, StayTyped DEF Typed
<1> QED
  BY <1>2, <1>3, <1>4 DEF Reconcile

LEMMA DeleteDoes ==
  ASSUME Typed, NEW m \in Managers, Delete(m)
  PROVE  /\ Typed' /\ task[m].pc = "claimed" /\ task[m].owner \in Owners
         /\ task'[m].pc = "deleting" /\ task'[m].owner = task[m].owner /\ task'[m].old = task[m].old
         /\ task'[m].current = task[m].current
         /\ task'[m].retire = pending[m][task[m].owner] \cup Some(task[m].old)
         /\ \A n \in Managers : n # m => task'[n] = task[n]
<1> DEFINE r == pending[m][task[m].owner] \cup Some(task[m].old)
           u == [task[m] EXCEPT !.pc = "deleting", !.retire = r]
<1>0. task[m].pc = "claimed" /\ task[m] \in Tasks /\ TaskShape(task[m]) /\ task[m].owner \in Owners
  BY DEF Delete, Typed, TaskOK, TaskShape, Tasks
<1>1. r \subseteq Sandboxes
  BY <1>0 DEF Typed, MemoryOK, Some, Tasks, Names
<1> HIDE DEF r
<1>2. u \in Tasks /\ u.pc = "deleting" /\ u.owner = task[m].owner /\ u.old = task[m].old
      /\ u.current = task[m].current /\ u.retire = r
  BY <1>0, <1>1 DEF Tasks, Places
<1>3. task' = [task EXCEPT ![m] = u]
  BY <1>0 DEF Delete, Typed, TaskOK, Tasks, r
<1> HIDE DEF u
<1>4. TaskShape(u)
  BY <1>0, <1>2 DEF TaskShape
<1>5. TaskOK' /\ Tasked(m, u)
  BY <1>2, <1>3, <1>4, TaskUpdate DEF Typed
<1>6. Typed'
  BY <1>5, StayTyped DEF Typed, Delete, TaskOnly, rows
<1> QED
  BY <1>0, <1>2, <1>5, <1>6 DEF Tasked, r

\* At most one sandbox is destroyed.
Gone(s) ==
  /\ remote'[s] \in {remote[s], "gone"}
  /\ \A x \in Sandboxes : x # s => remote'[x] = remote[x]

LEMMA DestroyDoes ==
  ASSUME RemoteOK, NEW s \in Sandboxes
  PROVE  /\ Destroyed(s) => RemoteOK' /\ Gone(s) /\ remote'[s] = "gone"
         /\ DestroyFails(s) => RemoteOK' /\ Gone(s)
BY DEF RemoteOK, Destroyed, DestroyFails, Gone

LEMMA DeleteOneDoes ==
  ASSUME Typed, NEW m \in Managers, DeleteOne(m)
  PROVE  /\ Typed' /\ task[m].pc = "deleting" /\ task[m].owner \in Owners
         /\ \E s \in Sandboxes :
              /\ Gone(s)
              /\ \/ /\ remote'[s] = "gone" /\ pending' = pending
                    /\ task'[m].pc = "deleting" /\ task'[m].owner = task[m].owner /\ task'[m].old = task[m].old
                    /\ task'[m].current = task[m].current /\ task'[m].retire = task[m].retire \ {s}
                    /\ \A n \in Managers : n # m => task'[n] = task[n]
                 \/ /\ Tasked(m, Moved(task[m], "releasing"))
                    /\ pending'[m][task[m].owner] = task[m].retire
                    /\ \A n \in Managers, o \in Owners :
                         n # m \/ o # task[m].owner => pending'[n][o] = pending[n][o]
<1>0. /\ task[m].pc = "deleting" /\ task[m] \in Tasks /\ TaskShape(task[m]) /\ task[m].owner \in Owners
      /\ UNCHANGED <<owner, slot, cleanup, fill, drain, retiring, up>>
  BY DEF DeleteOne, Typed, TaskOK, TaskShape, Tasks, TaskOnly, rows
<1>1. PICK s \in task[m].retire :
       \/ /\ Destroyed(s)
          /\ task' = [task EXCEPT ![m].retire = @ \ {s}]
          /\ UNCHANGED <<pending, faults>>
       \/ /\ DestroyFails(s)
          /\ pending' = [pending EXCEPT ![m][task[m].owner] = task[m].retire]
          /\ Goto(m, "releasing")
  BY DEF DeleteOne
<1>2. s \in Sandboxes
  BY <1>0 DEF Tasks
<1>3. CASE /\ Destroyed(s)
           /\ task' = [task EXCEPT ![m].retire = @ \ {s}]
           /\ UNCHANGED <<pending, faults>>
  <2> DEFINE u == [task[m] EXCEPT !.retire = @ \ {s}]
  <2>1. u \in Tasks /\ u.pc = "deleting" /\ u.owner = task[m].owner /\ u.old = task[m].old
        /\ u.current = task[m].current /\ u.retire = task[m].retire \ {s}
    BY <1>0 DEF Tasks, Places
  <2>2. task' = [task EXCEPT ![m] = u]
    BY <1>0, <1>3 DEF Typed, TaskOK, Tasks
  <2> HIDE DEF u
  <2>3. TaskShape(u)
    BY <1>0, <2>1 DEF TaskShape
  <2>4. TaskOK' /\ Tasked(m, u)
    BY <2>1, <2>2, <2>3, TaskUpdate DEF Typed
  <2>5. RemoteOK' /\ Gone(s) /\ remote'[s] = "gone"
    BY <1>2, <1>3, DestroyDoes DEF Typed
  <2> QED
    BY <1>0, <1>2, <1>3, <2>1, <2>4, <2>5, StayTyped DEF Typed, Tasked
<1>4. CASE /\ DestroyFails(s)
           /\ pending' = [pending EXCEPT ![m][task[m].owner] = task[m].retire]
           /\ Goto(m, "releasing")
  <2>1. TaskOK' /\ Tasked(m, Moved(task[m], "releasing"))
    BY <1>0, <1>4, ReleasingUpdate DEF Typed
  <2>2. task[m].retire \subseteq Sandboxes
    BY <1>0 DEF Tasks
  <2>3. /\ MemoryOK' /\ pending'[m][task[m].owner] = task[m].retire
        /\ \A n \in Managers, o \in Owners : n # m \/ o # task[m].owner => pending'[n][o] = pending[n][o]
    BY <1>0, <1>4, <2>2 DEF Typed, MemoryOK
  <2>4. RemoteOK' /\ Gone(s)
    BY <1>2, <1>4, DestroyDoes DEF Typed
  <2> QED
    BY <1>0, <1>2, <2>1, <2>3, <2>4, StayTyped DEF Typed
<1> QED
  BY <1>1, <1>3, <1>4

LEMMA UnbindDoes ==
  ASSUME Typed, NEW m \in Managers, Unbind(m)
  PROVE  /\ Typed' /\ task[m].pc = "deleting" /\ task[m].retire = {} /\ task[m].owner \in Owners
         /\ Tasked(m, Moved(task[m], "releasing"))
         /\ pending'[m][task[m].owner] = {}
         /\ \A n \in Managers, o \in Owners : n # m \/ o # task[m].owner => pending'[n][o] = pending[n][o]
         /\ \/ owner' = owner
            \/ owner[task[m].owner].claim = m /\ Rebound(task[m].owner, None)
<1>0. /\ task[m].pc = "deleting" /\ task[m] \in Tasks /\ TaskShape(task[m]) /\ task[m].owner \in Owners
      /\ task[m].retire = {} /\ UNCHANGED <<remote, slot, cleanup, fill, drain, retiring, up>>
  BY DEF Unbind, Typed, TaskOK, TaskShape, Tasks, TaskOnly
<1>1. TaskOK' /\ Tasked(m, Moved(task[m], "releasing"))
  BY <1>0, ReleasingUpdate DEF Typed, Unbind
<1>2. /\ MemoryOK' /\ pending'[m][task[m].owner] = {}
      /\ \A n \in Managers, o \in Owners : n # m \/ o # task[m].owner => pending'[n][o] = pending[n][o]
  BY <1>0 DEF Typed, MemoryOK, Unbind
<1>3. OwnerOK' /\ (owner' = owner \/ (owner[task[m].owner].claim = m /\ Rebound(task[m].owner, None)))
  <2>1. CASE Current(owner[task[m].owner], m)
    BY <1>0, <2>1, RebindUpdate DEF Typed, Unbind, Current, Names
  <2>2. CASE ~Current(owner[task[m].owner], m)
    BY <2>2, StayTyped DEF Typed, Unbind
  <2> QED
    BY <2>1, <2>2
<1> QED
  BY <1>0, <1>1, <1>2, <1>3, StayTyped DEF Typed

\* A claim is given up, and the rows keep their sandboxes.
LEMMA ReleaseOwnerDoes ==
  ASSUME Typed, NEW m \in Managers, ReleaseOwner(m)
  PROVE  /\ Typed' /\ task[m].pc = "releasing" /\ Tasked(m, NoTask)
         /\ \A o \in Owners : owner'[o].sandbox = owner[o].sandbox /\ owner'[o].claim \in {owner[o].claim, None}
<1>0. task[m].pc = "releasing" /\ task[m].owner \in Owners
  BY DEF ReleaseOwner, Typed, TaskOK, TaskShape, Tasks
<1>1. TaskOK' /\ Tasked(m, NoTask)
  BY Idle, TaskUpdate DEF Typed, ReleaseOwner
<1>2. OwnerOK' /\ \A o \in Owners : owner'[o].sandbox = owner[o].sandbox /\ owner'[o].claim \in {owner[o].claim, None}
  BY <1>0, ReleasedRow DEF Typed, OwnerOK, RowsOK, ReleaseOwner
<1> QED
  BY <1>0, <1>1, <1>2, StayTyped DEF Typed, ReleaseOwner, TaskOnly, memory

LEMMA ClaimSlotDoes ==
  ASSUME Typed, NEW m \in Managers, NEW i \in Slots, ClaimSlot(m, i)
  PROVE  /\ Typed' /\ fill[m].pc = "off"
         /\ slot'[i].sandbox = slot[i].sandbox /\ slot'[i].claim = m
         /\ \A j \in Slots : j # i => slot'[j] = slot[j]
         /\ fill'[m].slot = i /\ fill'[m].sandbox = slot[i].sandbox
         /\ fill'[m].pc = IF slot[i].sandbox = None THEN "creating" ELSE "probing"
         /\ \A n \in Managers : n # m => fill'[n] = fill[n]
<1> DEFINE f == [pc |-> IF slot[i].sandbox = None THEN "creating" ELSE "probing",
                 slot |-> i, sandbox |-> slot[i].sandbox]
<1>1. SlotOK' /\ slot'[i] = Claimed(slot[i], m) /\ \A j \in Slots : j # i => slot'[j] = slot[j]
  BY ClaimedRow, NamesAssumption DEF Typed, SlotOK, RowsOK, ClaimSlot
<1>2. f \in Fills /\ FillShape(f)
  BY DEF Typed, SlotOK, Rows, Names, Fills, FillShape
<1>3. fill' = [fill EXCEPT ![m] = f]
  BY DEF ClaimSlot
<1>4. FillOK' /\ Filled(m, f)
  BY <1>2, <1>3, FillUpdate DEF Typed
<1>5. Typed'
  BY <1>1, <1>4, StayTyped DEF Typed, ClaimSlot, FillOnly, memory
<1> QED
  BY <1>1, <1>4, <1>5, Idle, ClaimedRow DEF Typed, SlotOK, Filled, ClaimSlot

\* A maintenance pass moves on with its slot.
FillIs(m, pc, s) ==
  /\ fill'[m].pc = pc /\ fill'[m].slot = fill[m].slot /\ fill'[m].sandbox = s
  /\ \A n \in Managers : n # m => fill'[n] = fill[n]

LEMMA FillMoves ==
  ASSUME FillOK, NEW m \in Managers, fill[m].pc # "off",
         NEW pc \in {"publishing", "republishing", "discarding", "releasing"}, NEW s \in Names,
         pc # "releasing" => s # None,
         fill' = [fill EXCEPT ![m].pc = pc, ![m].sandbox = s]
  PROVE  FillOK' /\ FillIs(m, pc, s)
<1> DEFINE f == [fill[m] EXCEPT !.pc = pc, !.sandbox = s]
<1>1. f \in Fills /\ f.pc = pc /\ f.slot = fill[m].slot /\ f.sandbox = s
  BY DEF FillOK, Fills
<1>2. fill' = [fill EXCEPT ![m] = f]
  BY DEF FillOK
<1> HIDE DEF f
<1>3. FillShape(f)
  BY <1>1 DEF FillOK, FillShape
<1>4. FillOK' /\ Filled(m, f)
  BY <1>1, <1>2, <1>3, FillUpdate
<1> QED
  BY <1>1, <1>4 DEF FillIs, Filled

FillGoes(m, pc) == FillIs(m, pc, fill[m].sandbox)

LEMMA FillGoto ==
  ASSUME FillOK, NEW m \in Managers, fill[m].pc # "off", NEW pc \in {"republishing", "discarding", "releasing"},
         pc # "releasing" => fill[m].sandbox # None,
         fill' = [fill EXCEPT ![m].pc = pc]
  PROVE  FillOK' /\ FillGoes(m, pc)
<1>1. fill' = [fill EXCEPT ![m].pc = pc, ![m].sandbox = fill[m].sandbox]
  BY DEF FillOK, Fills
<1>2. fill[m].sandbox \in Names
  BY DEF FillOK, Fills
<1> QED
  BY <1>1, <1>2, FillMoves, ZenonT(40) DEF FillGoes

LEMMA GiveUpSlotDoes ==
  ASSUME Typed, NEW m \in Managers, GiveUpSlot(m)
  PROVE  Typed' /\ fill[m].pc # "off" /\ FillGoes(m, "releasing") /\ fill[m].pc # "publishing"
<1>1. FillOK' /\ FillGoes(m, "releasing")
  BY FillGoto DEF Typed, GiveUpSlot
<1> QED
  BY <1>1, StayTyped DEF Typed, GiveUpSlot, FillOnly, rows, memory

LEMMA CreateWarmDoes ==
  ASSUME Typed, NEW m \in Managers, CreateWarm(m)
  PROVE  /\ Typed' /\ fill[m].pc = "creating"
         /\ \E s \in Sandboxes :
              /\ remote[s] = "unused" /\ remote'[s] = "running"
              /\ \A x \in Sandboxes : x # s => remote'[x] = remote[x]
              /\ FillIs(m, "publishing", s)
<1>1. PICK s \in NewSandbox :
         /\ remote' = [remote EXCEPT ![s] = "running"]
         /\ fill' = [fill EXCEPT ![m].pc = "publishing", ![m].sandbox = s]
  BY DEF CreateWarm
<1>2. s \in Sandboxes /\ remote[s] = "unused" /\ s # None /\ s \in Names
  BY NamesAssumption DEF NewSandbox, Names
<1>3. RemoteOK' /\ remote'[s] = "running" /\ \A x \in Sandboxes : x # s => remote'[x] = remote[x]
  BY <1>1, <1>2 DEF Typed, RemoteOK
<1>4. FillOK' /\ FillIs(m, "publishing", s)
  BY <1>1, <1>2, FillMoves DEF Typed, CreateWarm
<1> QED
  BY <1>1, <1>2, <1>3, <1>4, StayTyped DEF Typed, CreateWarm, FillOnly, rows, memory

\* A slot is given a sandbox, or none, and loses its claim.
Stored(i, s) ==
  /\ slot'[i].sandbox = s /\ slot'[i].claim = None
  /\ \A j \in Slots : j # i => slot'[j] = slot[j]

LEMMA PublishedDoes ==
  ASSUME SlotOK, NEW i \in Slots, NEW s \in Names, Published(i, s)
  PROVE  SlotOK' /\ Stored(i, s)
<1>1. [EmptyRow EXCEPT !.sandbox = s] \in Rows /\ [EmptyRow EXCEPT !.sandbox = s].sandbox = s
      /\ [EmptyRow EXCEPT !.sandbox = s].claim = None /\ ~[EmptyRow EXCEPT !.sandbox = s].live
  BY DEF EmptyRow, Rows
<1> QED
  BY <1>1 DEF SlotOK, RowsOK, Published, Stored

LEMMA PublishWarmDoes ==
  ASSUME Typed, NEW m \in Managers, PublishWarm(m)
  PROVE  /\ Typed' /\ fill[m].pc = "publishing" /\ fill[m].slot \in Slots /\ fill[m].sandbox \in Sandboxes
         /\ \/ slot[fill[m].slot].claim = m /\ Stored(fill[m].slot, fill[m].sandbox)
            \/ slot' = slot
         /\ \/ Filled(m, NoJob) /\ retiring' = retiring /\ slot[fill[m].slot].claim = m
               /\ Stored(fill[m].slot, fill[m].sandbox)
            \/ /\ FillGoes(m, "releasing")
               /\ UncertainPublish \/ slot' = slot
               /\ retiring'[m] = retiring[m] \cup {fill[m].sandbox}
               /\ \A n \in Managers : n # m => retiring'[n] = retiring[n]
<1> DEFINE f == fill[m]
<1>0. /\ f.pc = "publishing" /\ f.slot \in Slots /\ f.sandbox \in Sandboxes /\ f.sandbox \in Names
      /\ UNCHANGED <<remote, owner, cleanup, task, drain, pending, up>>
  BY DEF PublishWarm, Typed, FillOK, FillShape, Fills, Names, FillOnly
<1>1. CASE /\ Current(slot[f.slot], m)
           /\ Published(f.slot, f.sandbox)
           /\ fill' = [fill EXCEPT ![m] = NoJob]
           /\ UNCHANGED <<retiring, faults>>
  <2>1. FillOK' /\ Filled(m, NoJob)
    BY <1>1, Idle, FillUpdate DEF Typed
  <2>2. SlotOK' /\ Stored(f.slot, f.sandbox)
    BY <1>0, <1>1, PublishedDoes DEF Typed
  <2> QED
    BY <1>0, <1>1, <2>1, <2>2, StayTyped DEF Typed, Current
<1>2. CASE /\ \/ ~Current(slot[f.slot], m) /\ UNCHANGED <<slot, faults>>
              \/ UncertainPublish /\ Fault /\ Current(slot[f.slot], m) /\ Published(f.slot, f.sandbox)
              \/ Fault /\ UNCHANGED slot
           /\ retiring' = [retiring EXCEPT ![m] = @ \cup {f.sandbox}]
           /\ fill' = [fill EXCEPT ![m].pc = "releasing"]
  <2>1. FillOK' /\ FillGoes(m, "releasing")
    BY <1>0, <1>2, FillGoto DEF Typed
  <2>2. \/ SlotOK' /\ slot' = slot
        \/ SlotOK' /\ UncertainPublish /\ Stored(f.slot, f.sandbox) /\ slot[f.slot].claim = m
    BY <1>0, <1>2, PublishedDoes, StayTyped DEF Typed, Current
  <2>3. /\ MemoryOK' /\ retiring'[m] = retiring[m] \cup {fill[m].sandbox}
        /\ \A n \in Managers : n # m => retiring'[n] = retiring[n]
    BY <1>0, <1>2 DEF Typed, MemoryOK
  <2> QED
    BY <1>0, <2>1, <2>2, <2>3, StayTyped DEF Typed
<1> QED
  BY <1>1, <1>2 DEF PublishWarm

LEMMA ProbeDoes ==
  ASSUME Typed, NEW m \in Managers, Probe(m)
  PROVE  /\ Typed' /\ fill[m].pc = "probing"
         /\ \E pc \in {"republishing", "discarding"} : FillGoes(m, pc)
<1>0. fill[m].pc = "probing" /\ fill[m].sandbox # None
  BY DEF Probe, Typed, FillOK, FillShape
<1>1. PICK pc \in {"republishing", "discarding"} : fill' = [fill EXCEPT ![m].pc = pc]
  BY DEF Probe
<1>2. FillOK' /\ FillGoes(m, pc)
  BY <1>0, <1>1, FillGoto DEF Typed
<1> QED
  BY <1>0, <1>2, StayTyped DEF Typed, Probe, FillOnly, rows, memory

LEMMA RepublishDoes ==
  ASSUME Typed, NEW m \in Managers, Republish(m)
  PROVE  /\ Typed' /\ fill[m].pc = "republishing" /\ fill[m].slot \in Slots
         /\ \/ slot[fill[m].slot].claim = m /\ Stored(fill[m].slot, fill[m].sandbox) /\ Filled(m, NoJob)
            \/ slot' = slot /\ FillGoes(m, "releasing")
<1> DEFINE f == fill[m]
<1>0. /\ f.pc = "republishing" /\ f.slot \in Slots /\ f.sandbox \in Names
      /\ UNCHANGED <<remote, owner, cleanup, task, drain, retiring, pending, up>>
  BY DEF Republish, Typed, FillOK, FillShape, Fills, FillOnly, memory
<1>1. CASE Current(slot[f.slot], m) /\ Published(f.slot, f.sandbox) /\ fill' = [fill EXCEPT ![m] = NoJob]
  <2>1. FillOK' /\ Filled(m, NoJob)
    BY <1>1, Idle, FillUpdate DEF Typed
  <2>2. SlotOK' /\ Stored(f.slot, f.sandbox)
    BY <1>0, <1>1, PublishedDoes DEF Typed
  <2> QED
    BY <1>0, <1>1, <2>1, <2>2, StayTyped DEF Typed, Current
<1>2. CASE UNCHANGED slot /\ fill' = [fill EXCEPT ![m].pc = "releasing"]
  <2>1. FillOK' /\ FillGoes(m, "releasing")
    BY <1>0, <1>2, FillGoto DEF Typed
  <2> QED
    BY <1>0, <1>2, <2>1, StayTyped DEF Typed
<1> QED
  BY <1>1, <1>2 DEF Republish

\* A sandbox is in the queue of those to clean up, and the others stay as they were.
Enlisted(s) ==
  /\ cleanup'[s].sandbox # None
  /\ \A x \in Sandboxes : x # s => cleanup'[x] = cleanup[x]

LEMMA EnqueuedDoes ==
  ASSUME CleanupOK, NEW s \in Sandboxes, cleanup' = Enqueued(s)
  PROVE  CleanupOK' /\ Enlisted(s)
<1>1. [EmptyRow EXCEPT !.sandbox = s] \in Rows /\ [EmptyRow EXCEPT !.sandbox = s].sandbox = s
      /\ ~[EmptyRow EXCEPT !.sandbox = s].live /\ s # None
  BY NamesAssumption DEF EmptyRow, Rows, Names
<1>2. CASE Queued(s)
  BY <1>2 DEF CleanupOK, RowsOK, Enqueued, Queued, Enlisted
<1>3. CASE ~Queued(s)
  BY <1>1, <1>3 DEF CleanupOK, RowsOK, Enqueued, Enlisted
<1> QED
  BY <1>2, <1>3

LEMMA DiscardDoes ==
  ASSUME Typed, NEW m \in Managers, Discard(m)
  PROVE  /\ Typed' /\ fill[m].pc = "discarding" /\ fill[m].slot \in Slots /\ fill[m].sandbox \in Sandboxes
         /\ \/ /\ slot[fill[m].slot].claim = m /\ Stored(fill[m].slot, None) /\ Enlisted(fill[m].sandbox)
               /\ Filled(m, NoJob)
            \/ slot' = slot /\ cleanup' = cleanup /\ FillGoes(m, "releasing")
<1> DEFINE f == fill[m]
<1>0. /\ f.pc = "discarding" /\ f.slot \in Slots /\ f.sandbox \in Sandboxes
      /\ UNCHANGED <<remote, owner, task, drain, retiring, pending, up>>
  BY DEF Discard, Typed, FillOK, FillShape, Fills, Names, FillOnly, memory
<1>1. CASE /\ Current(slot[f.slot], m)
           /\ slot' = [slot EXCEPT ![f.slot] = EmptyRow] /\ cleanup' = Enqueued(f.sandbox)
           /\ fill' = [fill EXCEPT ![m] = NoJob]
  <2>1. FillOK' /\ Filled(m, NoJob)
    BY <1>1, Idle, FillUpdate DEF Typed
  <2>2. SlotOK' /\ Stored(f.slot, None)
    BY <1>0, <1>1, Idle DEF Typed, SlotOK, RowsOK, Stored
  <2>3. CleanupOK' /\ Enlisted(f.sandbox)
    BY <1>0, <1>1, EnqueuedDoes DEF Typed
  <2> QED
    BY <1>0, <1>1, <2>1, <2>2, <2>3, StayTyped DEF Typed, Current
<1>2. CASE UNCHANGED <<slot, cleanup>> /\ fill' = [fill EXCEPT ![m].pc = "releasing"]
  <2>1. FillOK' /\ FillGoes(m, "releasing")
    BY <1>0, <1>2, FillGoto DEF Typed
  <2> QED
    BY <1>0, <1>2, <2>1, StayTyped DEF Typed
<1> QED
  BY <1>1, <1>2 DEF Discard

LEMMA ReleaseSlotDoes ==
  ASSUME Typed, NEW m \in Managers, ReleaseSlot(m)
  PROVE  /\ Typed' /\ fill[m].pc = "releasing" /\ Filled(m, NoJob)
         /\ \A i \in Slots : slot'[i].sandbox = slot[i].sandbox /\ slot'[i].claim \in {slot[i].claim, None}
<1>0. fill[m].pc = "releasing" /\ fill[m].slot \in Slots
  BY DEF ReleaseSlot, Typed, FillOK, FillShape
<1>1. FillOK' /\ Filled(m, NoJob)
  BY Idle, FillUpdate DEF Typed, ReleaseSlot
<1>2. SlotOK' /\ \A i \in Slots : slot'[i].sandbox = slot[i].sandbox /\ slot'[i].claim \in {slot[i].claim, None}
  BY <1>0, ReleasedRow DEF Typed, SlotOK, RowsOK, ReleaseSlot
<1> QED
  BY <1>0, <1>1, <1>2, StayTyped DEF Typed, ReleaseSlot, FillOnly, memory

LEMMA RetireDoes ==
  ASSUME Typed, NEW m \in Managers, NEW s \in Sandboxes, Retire(m, s)
  PROVE  /\ Typed' /\ s \in retiring[m] /\ Gone(s)
         /\ retiring'[m] = retiring[m] \ {s} /\ \A n \in Managers : n # m => retiring'[n] = retiring[n]
         /\ \/ remote'[s] = "gone" /\ UNCHANGED <<cleanup, histories>>
            \/ Enlisted(s) /\ UNCHANGED histories
            \/ cleanup' = cleanup /\ Forget({s})
<1>0. s \in retiring[m] /\ UNCHANGED <<owner, slot, task, fill, drain, pending, up>>
  BY DEF Retire, jobs
<1>1. MemoryOK' /\ retiring'[m] = retiring[m] \ {s} /\ \A n \in Managers : n # m => retiring'[n] = retiring[n]
  BY <1>0 DEF Typed, MemoryOK, Retire
<1>2. CASE Destroyed(s) /\ UNCHANGED <<cleanup, histories, faults>>
  <2>1. RemoteOK' /\ Gone(s) /\ remote'[s] = "gone"
    BY <1>2, DestroyDoes DEF Typed
  <2> QED
    BY <1>0, <1>1, <1>2, <2>1, StayTyped DEF Typed
<1>3. CASE DestroyFails(s) /\ cleanup' = Enqueued(s) /\ UNCHANGED histories
  <2>1. RemoteOK' /\ Gone(s)
    BY <1>3, DestroyDoes DEF Typed
  <2>2. CleanupOK' /\ Enlisted(s)
    BY <1>3, EnqueuedDoes DEF Typed
  <2> QED
    BY <1>0, <1>1, <1>3, <2>1, <2>2, StayTyped DEF Typed
<1>4. CASE DestroyFails(s) /\ UNCHANGED cleanup /\ Forget({s})
  <2>1. RemoteOK' /\ Gone(s)
    BY <1>4, DestroyDoes DEF Typed
  <2> QED
    BY <1>0, <1>1, <1>4, <2>1, StayTyped DEF Typed
<1> QED
  BY <1>2, <1>3, <1>4 DEF Retire

LEMMA ClaimCleanupDoes ==
  ASSUME Typed, NEW m \in Managers, NEW s \in Sandboxes, ClaimCleanup(m, s)
  PROVE  /\ Typed'
         /\ \A x \in Sandboxes : cleanup'[x].sandbox = cleanup[x].sandbox
         /\ drain'[m].pc = "destroying" /\ \A n \in Managers : n # m => drain'[n] = drain[n]
<1> DEFINE d == [NoJob EXCEPT !.pc = "destroying", !.sandbox = s]
<1>1. CleanupOK' /\ \A x \in Sandboxes : cleanup'[x].sandbox = cleanup[x].sandbox
  BY ClaimedRow, NamesAssumption DEF Typed, CleanupOK, RowsOK, ClaimCleanup
<1>2. d \in Drains /\ d.pc = "destroying" /\ d.sandbox # None
  BY NamesAssumption DEF NoJob, Drains, Names, None
<1>3. drain' = [drain EXCEPT ![m] = d]
  BY DEF ClaimCleanup
<1>4. DrainOK' /\ Drained(m, d)
  BY <1>2, <1>3, DrainUpdate DEF Typed
<1> QED
  BY <1>1, <1>2, <1>4, StayTyped DEF Typed, ClaimCleanup, DrainOnly, memory, Drained

LEMMA DrainMoves ==
  ASSUME DrainOK, NEW m \in Managers, drain[m].pc # "off", NEW pc \in {"completing", "releasing"},
         drain' = [drain EXCEPT ![m].pc = pc]
  PROVE  /\ DrainOK' /\ drain'[m].pc = pc /\ drain'[m].sandbox = drain[m].sandbox
         /\ \A n \in Managers : n # m => drain'[n] = drain[n]
<1> DEFINE d == [drain[m] EXCEPT !.pc = pc]
<1>1. drain[m] \in Drains /\ drain[m].sandbox # None
  BY DEF DrainOK
<1>2. d \in Drains /\ d.pc = pc /\ d.sandbox = drain[m].sandbox
  BY <1>1 DEF Drains
<1>3. drain' = [drain EXCEPT ![m] = d]
  BY <1>1 DEF DrainOK
<1> HIDE DEF d
<1>4. DrainOK' /\ Drained(m, d)
  BY <1>1, <1>2, <1>3, DrainUpdate
<1> QED
  BY <1>2, <1>4 DEF Drained

LEMMA DestroyQueuedDoes ==
  ASSUME Typed, NEW m \in Managers, DestroyQueued(m)
  PROVE  /\ Typed' /\ drain[m].sandbox \in Sandboxes /\ Gone(drain[m].sandbox)
         /\ drain'[m].sandbox = drain[m].sandbox
         /\ drain'[m].pc = "completing" => remote'[drain[m].sandbox] = "gone"
         /\ \A n \in Managers : n # m => drain'[n] = drain[n]
<1> DEFINE s == drain[m].sandbox
<1>0. /\ drain[m].pc = "destroying" /\ s \in Sandboxes
      /\ UNCHANGED <<owner, slot, cleanup, task, fill, retiring, pending, up>>
  BY DEF DestroyQueued, Typed, DrainOK, Drains, Names, DrainOnly, rows, memory
<1> HIDE DEF s
<1>1. CASE Destroyed(s) /\ drain' = [drain EXCEPT ![m].pc = "completing"]
  <2>1. RemoteOK' /\ Gone(s) /\ remote'[s] = "gone"
    BY <1>0, <1>1, DestroyDoes DEF Typed
  <2> QED
    BY <1>0, <1>1, <2>1, DrainMoves, StayTyped DEF Typed, s
<1>2. CASE DestroyFails(s) /\ drain' = [drain EXCEPT ![m].pc = "releasing"]
  <2>1. RemoteOK' /\ Gone(s)
    BY <1>0, <1>2, DestroyDoes DEF Typed
  <2> QED
    BY <1>0, <1>2, <2>1, DrainMoves, StayTyped DEF Typed, s
<1>3. CASE drain' = [drain EXCEPT ![m].pc = "releasing"] /\ remote' = remote
  BY <1>0, <1>3, DrainMoves, StayTyped DEF Typed, s, Gone
<1> QED
  BY <1>1, <1>2, <1>3 DEF DestroyQueued, s

LEMMA CompleteDoes ==
  ASSUME Typed, NEW m \in Managers, Complete(m)
  PROVE  /\ Typed' /\ drain[m].pc = "completing" /\ drain[m].sandbox \in Sandboxes /\ Drained(m, NoJob)
         /\ \A x \in Sandboxes : cleanup'[x] = cleanup[x] \/ (x = drain[m].sandbox /\ cleanup'[x].sandbox = None)
<1>0. drain[m].pc = "completing" /\ drain[m].sandbox \in Sandboxes
  BY DEF Complete, Typed, DrainOK, Drains, Names
<1>1. DrainOK' /\ Drained(m, NoJob)
  BY Idle, DrainUpdate DEF Typed, Complete
<1>2. /\ CleanupOK'
      /\ \A x \in Sandboxes : cleanup'[x] = cleanup[x] \/ (x = drain[m].sandbox /\ cleanup'[x].sandbox = None)
  BY <1>0, Idle DEF Typed, CleanupOK, RowsOK, Complete
<1> QED
  BY <1>0, <1>1, <1>2, StayTyped DEF Typed, Complete, DrainOnly, memory

LEMMA ReleaseCleanupDoes ==
  ASSUME Typed, NEW m \in Managers, ReleaseCleanup(m)
  PROVE  /\ Typed' /\ Drained(m, NoJob)
         /\ \A x \in Sandboxes : cleanup'[x].sandbox = cleanup[x].sandbox
<1>0. drain[m].sandbox \in Sandboxes
  BY DEF ReleaseCleanup, Typed, DrainOK, Drains, Names
<1>1. DrainOK' /\ Drained(m, NoJob)
  BY Idle, DrainUpdate DEF Typed, ReleaseCleanup
<1>2. CleanupOK' /\ \A x \in Sandboxes : cleanup'[x].sandbox = cleanup[x].sandbox
  BY <1>0, ReleasedRow DEF Typed, CleanupOK, RowsOK, ReleaseCleanup
<1> QED
  BY <1>0, <1>1, <1>2, StayTyped DEF Typed, ReleaseCleanup, DrainOnly, memory

\* A process is gone with all its memory.
Vanished(m) ==
  /\ Tasked(m, NoTask) /\ Filled(m, NoJob) /\ Drained(m, NoJob)
  /\ retiring'[m] = {} /\ \A n \in Managers : n # m => retiring'[n] = retiring[n]
  /\ \A o \in Owners : pending'[m][o] = {}
  /\ \A n \in Managers : n # m => pending'[n] = pending[n]

LEMMA ForgetProcessDoes ==
  ASSUME Typed, NEW m \in Managers, ForgetProcess(m), UNCHANGED <<remote, rows>>
  PROVE  Typed' /\ Vanished(m)
<1>1. TaskOK' /\ Tasked(m, NoTask)
  BY Idle, TaskUpdate DEF Typed, ForgetProcess
<1>2. FillOK' /\ Filled(m, NoJob)
  BY Idle, FillUpdate DEF Typed, ForgetProcess
<1>3. DrainOK' /\ Drained(m, NoJob)
  BY Idle, DrainUpdate DEF Typed, ForgetProcess
<1>4. /\ MemoryOK' /\ retiring'[m] = {} /\ \A n \in Managers : n # m => retiring'[n] = retiring[n]
      /\ \A o \in Owners : pending'[m][o] = {}
      /\ \A n \in Managers : n # m => pending'[n] = pending[n]
  BY DEF Typed, MemoryOK, ForgetProcess
<1> QED
  BY <1>1, <1>2, <1>3, <1>4, StayTyped DEF Typed, Vanished, rows

LEMMA BeginCloseDoes ==
  ASSUME Typed, NEW m \in Managers, BeginClose(m)
  PROVE  Typed'
<1>1. MemoryOK'
  BY DEF Typed, MemoryOK, BeginClose
<1> QED
  BY <1>1, StayTyped DEF Typed, BeginClose, rows, jobs

LEMMA ClosePendingDoes ==
  ASSUME Typed, NEW m \in Managers, NEW o \in Owners, NEW s \in Sandboxes, ClosePending(m, o, s)
  PROVE  /\ Typed' /\ s \in pending[m][o] /\ Gone(s) /\ condemned' = condemned \cup {s}
         /\ task[m] = NoTask
         /\ pending'[m][o] = pending[m][o] \ {s}
         /\ \A n \in Managers, p \in Owners : n # m \/ p # o => pending'[n][p] = pending[n][p]
         /\ (remote'[s] = "gone" /\ cleanup' = cleanup) \/ Enlisted(s)
<1>0. /\ s \in pending[m][o] /\ condemned' = condemned \cup {s} /\ task[m] = NoTask
      /\ UNCHANGED <<owner, slot, task, fill, drain, retiring, up>>
  BY DEF ClosePending, jobs, Settled
<1>1. /\ MemoryOK' /\ pending'[m][o] = pending[m][o] \ {s}
      /\ \A n \in Managers, p \in Owners : n # m \/ p # o => pending'[n][p] = pending[n][p]
  BY <1>0 DEF Typed, MemoryOK, ClosePending
<1>2. CASE Destroyed(s) /\ UNCHANGED <<cleanup, faults>>
  <2>1. RemoteOK' /\ Gone(s) /\ remote'[s] = "gone"
    BY <1>2, DestroyDoes DEF Typed
  <2> QED
    BY <1>0, <1>1, <1>2, <2>1, StayTyped DEF Typed
<1>3. CASE DestroyFails(s) /\ cleanup' = Enqueued(s)
  <2>1. RemoteOK' /\ Gone(s)
    BY <1>3, DestroyDoes DEF Typed
  <2>2. CleanupOK' /\ Enlisted(s)
    BY <1>3, EnqueuedDoes DEF Typed
  <2> QED
    BY <1>0, <1>1, <2>1, <2>2, StayTyped DEF Typed
<1> QED
  BY <1>2, <1>3 DEF ClosePending

\* A lease that runs out changes no claim and no sandbox.
LEMMA ExpireDoes ==
  ASSUME Typed
  PROVE  /\ \A o \in Owners : ExpireOwner(o) =>
              Typed' /\ \A p \in Owners : owner'[p].sandbox = owner[p].sandbox /\ owner'[p].claim = owner[p].claim
         /\ \A i \in Slots : ExpireSlot(i) =>
              Typed' /\ \A j \in Slots : slot'[j].sandbox = slot[j].sandbox /\ slot'[j].claim = slot[j].claim
         /\ \A s \in Sandboxes : ExpireCleanup(s) =>
              Typed' /\ \A x \in Sandboxes : cleanup'[x].sandbox = cleanup[x].sandbox
<1>1. ASSUME NEW o \in Owners, ExpireOwner(o)
      PROVE  Typed' /\ \A p \in Owners : owner'[p].sandbox = owner[p].sandbox /\ owner'[p].claim = owner[p].claim
  <2>1. OwnerOK' /\ \A p \in Owners : owner'[p].sandbox = owner[p].sandbox /\ owner'[p].claim = owner[p].claim
    BY <1>1 DEF Typed, OwnerOK, RowsOK, Rows, ExpireOwner
  <2> QED
    BY <1>1, <2>1, StayTyped DEF Typed, ExpireOwner, jobs, memory
<1>2. ASSUME NEW i \in Slots, ExpireSlot(i)
      PROVE  Typed' /\ \A j \in Slots : slot'[j].sandbox = slot[j].sandbox /\ slot'[j].claim = slot[j].claim
  <2>1. SlotOK' /\ \A j \in Slots : slot'[j].sandbox = slot[j].sandbox /\ slot'[j].claim = slot[j].claim
    BY <1>2 DEF Typed, SlotOK, RowsOK, Rows, ExpireSlot
  <2> QED
    BY <1>2, <2>1, StayTyped DEF Typed, ExpireSlot, jobs, memory
<1>3. ASSUME NEW s \in Sandboxes, ExpireCleanup(s)
      PROVE  Typed' /\ \A x \in Sandboxes : cleanup'[x].sandbox = cleanup[x].sandbox
  <2>1. CleanupOK' /\ \A x \in Sandboxes : cleanup'[x].sandbox = cleanup[x].sandbox
    BY <1>3 DEF Typed, CleanupOK, RowsOK, Rows, ExpireCleanup
  <2> QED
    BY <1>3, <2>1, StayTyped DEF Typed, ExpireCleanup, jobs, memory
<1> QED
  BY <1>1, <1>2, <1>3

LEMMA BreakDoes ==
  ASSUME Typed, NEW s \in Sandboxes, Break(s)
  PROVE  /\ Typed' /\ remote[s] = "running" /\ remote'[s] \in {"broken", "gone"}
         /\ \A x \in Sandboxes : x # s => remote'[x] = remote[x]
<1>1. /\ RemoteOK' /\ remote[s] = "running" /\ remote'[s] \in {"broken", "gone"}
      /\ \A x \in Sandboxes : x # s => remote'[x] = remote[x]
  BY DEF Typed, RemoteOK, Break
<1> QED
  BY <1>1, StayTyped DEF Typed, Break, rows, jobs, memory

-----------------------------------------------------------------------------
(* Steps that give no sandbox a new home.                                   *)

\* A task stays, ends, moves on with all it has, or deletes what it or its manager had.
TaskQuiet(n) ==
  \/ task'[n] = task[n]
  \/ task'[n].pc \in {"releasing", "idle"}
  \/ /\ task'[n].owner = task[n].owner /\ task'[n].old = task[n].old /\ task'[n].current = task[n].current
     /\ \/ /\ task[n].pc \in Working \ {"reconciling"} /\ task'[n].pc \in {"acquiring", "creating", "reconciling"}
           /\ task'[n].pc = "reconciling" => task[n].pc = "binding"
           /\ task'[n].candidate = task[n].candidate /\ task'[n].retire = task[n].retire
        \/ /\ task'[n].pc = "deleting" /\ task[n].pc \in {"claimed", "deleting"}
           /\ \A s \in task'[n].retire : s \in Replaced(task[n]) \/ \E o \in Owners : s \in pending[n][o]

FillQuiet(n) ==
  \/ fill'[n] = fill[n]
  \/ fill'[n].pc \in {"off", "releasing"}
  \/ /\ fill[n].pc = "probing" /\ fill'[n].pc \in {"republishing", "discarding"}
     /\ fill'[n].slot = fill[n].slot /\ fill'[n].sandbox = fill[n].sandbox

\* A row loses at most its claim and its sandbox, the latter by the one who claims it.
RowsQuiet ==
  /\ \A o \in Owners :
       /\ owner'[o].claim \in {owner[o].claim, None}
       /\ \/ owner'[o].sandbox = owner[o].sandbox
          \/ /\ owner'[o].sandbox = None
             /\ \A n \in Managers : owner[o].claim = n => task'[n].pc \in {"releasing", "idle"}
  /\ \A i \in Slots :
       /\ slot'[i].claim \in {slot[i].claim, None}
       /\ slot'[i].sandbox = slot[i].sandbox \/ (slot'[i].sandbox = None /\ slot'[i].claim = None)

\* Pending deletions come from a deletion, and no identity is given back.
MemoryQuiet ==
  /\ \A n \in Managers, o \in Owners : \A s \in pending'[n][o] :
       s \in pending[n][o] \/ (task[n].pc = "deleting" /\ s \in task[n].retire)
  /\ \A s \in Sandboxes : remote'[s] = "unused" => remote[s] = "unused"

Quiet ==
  /\ \A n \in Managers : TaskQuiet(n)
  /\ \A n \in Managers : FillQuiet(n)
  /\ RowsQuiet /\ MemoryQuiet

LEMMA QuietLoose ==
  ASSUME Quiet, NEW s \in Sandboxes, Loose(s)'
  PROVE  Loose(s)
<1>1. \A n \in Managers : Binds(n, s)' => Binds(n, s)
  BY DEF Quiet, TaskQuiet, Binds
<1>2. \A n \in Managers : Publishes(n, s)' => Publishes(n, s)
  BY DEF Quiet, FillQuiet, Publishes
<1> QED
  BY <1>1, <1>2 DEF Quiet, MemoryQuiet, Loose

LEMMA QuietHands ==
  ASSUME Quiet, OneHand
  PROVE  OneHand'
<1>1. \A n \in Managers, s \in Sandboxes :
        (Binds(n, s)' => Binds(n, s)) /\ (Doubts(n, s)' => Doubts(n, s) \/ Binds(n, s))
  BY DEF Quiet, TaskQuiet, Binds, Doubts
<1>2. \A n \in Managers, s \in Sandboxes : Publishes(n, s)' => Publishes(n, s)
  BY DEF Quiet, FillQuiet, Publishes
<1>3. \A s \in Sandboxes : remote'[s] = "unused" => remote[s] = "unused"
  BY DEF Quiet, MemoryQuiet
<1> QED
  BY <1>1, <1>2, <1>3 DEF OneHand

LEMMA QuietFormer ==
  ASSUME Quiet, NEW s \in Sandboxes, Former(s)'
  PROVE  Former(s)
<1>1. PICK n \in Managers : \/ task'[n].pc \in Working \cup {"deleting"} /\ s \in Replaced(task[n])'
                            \/ \E o \in Owners : s \in pending'[n][o]
  BY DEF Former
<1>2. CASE \E o \in Owners : s \in pending'[n][o]
  BY <1>2 DEF Former, Quiet, MemoryQuiet, Replaced
<1>3. CASE task'[n].pc \in Working \cup {"deleting"} /\ s \in Replaced(task[n])'
  <2>1. CASE task'[n] = task[n]
    BY <1>3, <2>1 DEF Former, Replaced
  <2>2. CASE task'[n] # task[n]
    BY <1>3, <2>2 DEF Former, Replaced, Quiet, TaskQuiet, Working
  <2> QED
    BY <2>1, <2>2
<1> QED
  BY <1>1, <1>2, <1>3

LEMMA QuietHome ==
  ASSUME Quiet, NEW s \in Sandboxes, HasHome(s)'
  PROVE  HasHome(s)
BY NamesAssumption DEF Quiet, RowsQuiet, HasHome

LEMMA QuietOneHome ==
  ASSUME Quiet, OneHomeEach
  PROVE  OneHomeEach'
BY DEF Quiet, RowsQuiet, OneHomeEach

LEMMA QuietOutdated ==
  ASSUME Typed, Quiet, NEW m \in Managers, Outdated(m)
  PROVE  Outdated(m)'
<1>0. SUFFICES ASSUME task'[m].pc \in Working, NEW s \in Replaced(task[m])'
               PROVE  /\ \A i \in Slots : slot'[i].sandbox # s
                      /\ \A o \in Owners : owner'[o].sandbox = s => o = task'[m].owner /\ s = Latest(task[m])'
  BY DEF Outdated
<1>1. /\ task[m].pc \in Working /\ task'[m].owner = task[m].owner
      /\ Replaced(task[m])' = Replaced(task[m]) /\ Latest(task[m])' = Latest(task[m])
  BY <1>0 DEF Quiet, TaskQuiet, Working, Replaced, Latest
<1>2. s \in Sandboxes /\ s # None
  BY <1>0, <1>1, ReplacedSandboxes, NamesAssumption DEF Typed, TaskOK
<1> QED
  BY <1>0, <1>1, <1>2 DEF Outdated, Quiet, RowsQuiet

LEMMA QuietInDoubt ==
  ASSUME Typed, Quiet, FreshEach, NEW m \in Managers, InDoubt(m)
  PROVE  InDoubt(m)'
<1>0. SUFFICES ASSUME task'[m].pc = "reconciling"
               PROVE  /\ \A i \in Slots : slot'[i].sandbox # task'[m].candidate
                      /\ \A o \in Owners : owner'[o].sandbox = task'[m].candidate => o = task'[m].owner
  BY DEF InDoubt
<1>1. /\ task[m].pc \in {"binding", "reconciling"} /\ task'[m].owner = task[m].owner
      /\ task'[m].candidate = task[m].candidate
  BY <1>0 DEF Quiet, TaskQuiet, Working
<1>2. task[m].candidate \in Sandboxes /\ task[m].candidate # None
  BY <1>1 DEF Typed, TaskOK, TaskShape, Tasks, Names
<1>3. CASE task[m].pc = "reconciling"
  BY <1>1, <1>2, <1>3 DEF InDoubt, Quiet, RowsQuiet
<1>4. CASE task[m].pc = "binding"
  <2>1. ~HasHome(task[m].candidate)
    BY <1>2, <1>4 DEF FreshEach, Loose, Binds, Fresh
  <2> QED
    BY <1>1, <1>2, <2>1 DEF HasHome, Quiet, RowsQuiet
<1> QED
  BY <1>1, <1>3, <1>4

LEMMA QuietClaimKnows ==
  ASSUME Typed, Typed', Quiet, NEW m \in Managers, ClaimKnows(m)
  PROVE  ClaimKnows(m)'
<1>0. SUFFICES ASSUME task'[m].pc \in (Working \ {"reconciling"}) \cup {"deleting"},
                      owner'[task'[m].owner].claim = m
               PROVE  owner'[task'[m].owner].sandbox = Latest(task[m])'
  BY DEF ClaimKnows
<1>1. /\ task[m].pc \in (Working \ {"reconciling"}) \cup {"deleting"} /\ task'[m].owner = task[m].owner
      /\ Latest(task[m])' = Latest(task[m]) /\ task'[m].pc \notin {"releasing", "idle"}
  BY <1>0 DEF Quiet, TaskQuiet, Working, Latest
<1>2. task'[m].owner \in Owners
  BY <1>0 DEF Typed, TaskOK, TaskShape, Tasks, Working
<1>3. owner[task[m].owner].claim = m /\ owner'[task[m].owner].sandbox = owner[task[m].owner].sandbox
  BY <1>0, <1>1, <1>2, NamesAssumption DEF Quiet, RowsQuiet
<1> QED
  BY <1>1, <1>3 DEF ClaimKnows

LEMMA QuietSlotKnows ==
  ASSUME Typed, Typed', Quiet, NEW m \in Managers, SlotKnows(m)
  PROVE  SlotKnows(m)'
<1>0. SUFFICES ASSUME fill'[m].pc \notin {"off", "releasing"}, slot'[fill'[m].slot].claim = m
               PROVE  /\ fill'[m].pc \in {"probing", "republishing", "discarding"} =>
                           slot'[fill'[m].slot].sandbox = fill'[m].sandbox
                      /\ fill'[m].pc \in {"creating", "publishing"} => slot'[fill'[m].slot].sandbox = None
  BY DEF SlotKnows
<1>1. fill'[m].slot \in Slots /\ fill'[m].slot = fill[m].slot
  BY <1>0 DEF Typed, FillOK, FillShape, Quiet, FillQuiet
<1>2. slot[fill[m].slot].claim = m /\ slot'[fill[m].slot].sandbox = slot[fill[m].slot].sandbox
  BY <1>0, <1>1, NamesAssumption DEF Quiet, RowsQuiet
<1> QED
  BY <1>0, <1>1, <1>2 DEF SlotKnows, Quiet, FillQuiet

\* A quiet step that dooms nothing new keeps all that is known of homes.
LEMMA QuietStep ==
  ASSUME Typed, Typed', HomesOK, Quiet,
         \A s \in Sandboxes : Dooms(s)' /\ Loose(s)' => Dooms(s)
  PROVE  HomesOK'
<1>1. FreshEach'
  <2>1. SUFFICES ASSUME NEW s \in Sandboxes, Loose(s)' PROVE Fresh(s)'
    BY DEF FreshEach
  <2>2. Fresh(s)
    BY <2>1, QuietLoose DEF HomesOK, FreshEach
  <2> QED
    BY <2>1, <2>2, QuietHome, QuietFormer DEF Fresh
<1> QED
  BY <1>1, QuietHands, QuietOneHome, QuietOutdated, QuietInDoubt, QuietClaimKnows, QuietSlotKnows DEF HomesOK

-----------------------------------------------------------------------------
(* The other parts of the invariant, for steps that leave them alone.       *)

RemoteQuiet ==
  \A s \in Sandboxes :
    /\ remote'[s] = "unused" => remote[s] = "unused"
    /\ remote[s] = "gone" => remote'[s] = "gone"
    /\ remote'[s] \in {"running", "broken"} => remote[s] \in {"running", "broken"}

LEMMA GoneQuiet == ASSUME NEW s \in Sandboxes, Gone(s) PROVE RemoteQuiet
BY DEF Gone, RemoteQuiet

LEMMA KeepDestruction ==
  ASSUME DestructionOK, RemoteQuiet, Typed,
         \A n \in Managers : task'[n].pc = "deleting" =>
           /\ task'[n] = task[n]
           /\ \A o \in Owners : pending'[n][o] \subseteq pending[n][o],
         \A n \in Managers : drain'[n].pc = "completing" => drain'[n] = drain[n]
  PROVE  DestructionOK'
<1>1. ASSUME NEW m \in Managers, task'[m].pc = "deleting",
             NEW s \in pending'[m][task'[m].owner] \cup Some(task'[m].old)
      PROVE  s \in task'[m].retire \/ remote'[s] = "gone"
  <2>1. task[m].owner \in Owners /\ task[m].pc = "deleting" /\ task'[m] = task[m] /\ task[m] \in Tasks
    BY <1>1 DEF Typed, TaskOK, TaskShape, Tasks
  <2>2. s \in pending[m][task[m].owner] \cup Some(task[m].old)
    BY <1>1, <2>1
  <2>3. s \in Sandboxes
    BY <2>1, <2>2 DEF Typed, MemoryOK, Some, Tasks, Names
  <2> QED
    BY <2>1, <2>2, <2>3 DEF DestructionOK, RemoteQuiet
<1>2. ASSUME NEW m \in Managers, drain'[m].pc = "completing" PROVE remote'[drain'[m].sandbox] = "gone"
  <2>1. drain'[m] = drain[m] /\ drain[m].sandbox \in Sandboxes
    BY <1>2 DEF Typed, DrainOK, Drains, Names
  <2> QED
    BY <1>2, <2>1 DEF DestructionOK, RemoteQuiet
<1> QED
  BY <1>1, <1>2 DEF DestructionOK

Covered(s) == HasHome(s) \/ Dooms(s) \/ s \in left \/ \E m \in Managers : Answers(m, s)

LEMMA KeepAnswered ==
  ASSUME AnsweredFor, RemoteQuiet,
         \A s \in Sandboxes : remote'[s] \in {"running", "broken"} /\ Covered(s) => Covered(s)'
  PROVE  AnsweredFor'
BY DEF AnsweredFor, RemoteQuiet, Covered

LEMMA KeepKept ==
  ASSUME Kept, Quiet, condemned \subseteq condemned',
         \A s \in Sandboxes : Dooms(s)' /\ HasHome(s)' => Dooms(s) \/ s \in condemned'
  PROVE  Kept'
BY QuietHome, SandboxAssumption DEF Kept, KeptEach

\* The manager's own duties stay with its jobs and its memory.
LEMMA SameAnswers ==
  ASSUME NEW n \in Managers, NEW s \in Sandboxes, task'[n] = task[n], fill'[n] = fill[n], retiring'[n] = retiring[n],
         pending'[n] = pending[n], Answers(n, s)
  PROVE  Answers(n, s)'
BY DEF Answers, Binds, Doubts, Publishes, Replaced

\* Everybody's rows and jobs stay; only the cleanup queue, its workers and the server move.
LEMMA BackgroundStep ==
  ASSUME OInv, Typed', UNCHANGED <<task, fill, pending, retiring, histories>>,
         \A o \in Owners : owner'[o].sandbox = owner[o].sandbox /\ owner'[o].claim = owner[o].claim,
         \A i \in Slots : slot'[i].sandbox = slot[i].sandbox /\ slot'[i].claim = slot[i].claim,
         \A x \in Sandboxes : \/ cleanup'[x].sandbox = cleanup[x].sandbox
                              \/ cleanup'[x].sandbox = None /\ remote'[x] = "gone",
         RemoteQuiet,
         \A n \in Managers : drain'[n].pc = "completing" =>
           drain'[n] = drain[n] \/ remote'[drain'[n].sandbox] = "gone"
  PROVE  Safe'
<1>1. Quiet
  BY DEF Quiet, TaskQuiet, FillQuiet, RowsQuiet, MemoryQuiet, RemoteQuiet
<1>2. \A s \in Sandboxes : Dooms(s)' => Dooms(s)
  BY DEF Dooms
<1>3. HomesOK'
  BY <1>1, <1>2, QuietStep DEF OInv, Safe
<1>4. DestructionOK'
  <2>1. ASSUME NEW m \in Managers, task'[m].pc = "deleting",
               NEW s \in pending'[m][task'[m].owner] \cup Some(task'[m].old)
        PROVE  s \in task'[m].retire \/ remote'[s] = "gone"
    <3>1. task[m].owner \in Owners /\ task[m] \in Tasks
      BY <2>1 DEF OInv, Typed, TaskOK, TaskShape, Tasks
    <3>2. s \in Sandboxes
      BY <2>1, <3>1 DEF OInv, Typed, MemoryOK, Some, Tasks, Names
    <3> QED
      BY <2>1, <3>2 DEF OInv, Safe, DestructionOK, RemoteQuiet
  <2>2. ASSUME NEW m \in Managers, drain'[m].pc = "completing" PROVE remote'[drain'[m].sandbox] = "gone"
    BY <2>2 DEF OInv, Safe, DestructionOK, RemoteQuiet, Typed, DrainOK, Drains, Names
  <2> QED
    BY <2>1, <2>2 DEF DestructionOK
<1>5. AnsweredFor'
  <2>1. ASSUME NEW s \in Sandboxes, remote'[s] \in {"running", "broken"}, Covered(s) PROVE Covered(s)'
    <3>1. HasHome(s) => HasHome(s)'
      BY DEF HasHome
    <3>2. Dooms(s) => Dooms(s)'
      BY <2>1 DEF Dooms
    <3>3. \A n \in Managers : Answers(n, s) => Answers(n, s)'
      BY SameAnswers
    <3> QED
      BY <2>1, <3>1, <3>2, <3>3 DEF Covered, histories
  <2> QED
    BY <2>1, KeepAnswered DEF OInv, Safe
<1>6. Kept'
  BY <1>1, <1>2, KeepKept DEF OInv, Safe, histories
<1> QED
  BY <1>3, <1>4, <1>5, <1>6 DEF Safe

LEMMA CleanupSteps ==
  ASSUME OInv
  PROVE  /\ \A m \in Managers, s \in Sandboxes : ClaimCleanup(m, s) => OInv'
         /\ \A m \in Managers : DestroyQueued(m) \/ Complete(m) \/ ReleaseCleanup(m) \/ BeginClose(m) => OInv'
         /\ \A o \in Owners : ExpireOwner(o) => OInv'
         /\ \A i \in Slots : ExpireSlot(i) => OInv'
         /\ \A s \in Sandboxes : ExpireCleanup(s) \/ Break(s) => OInv'
<1>0. Typed
  BY DEF OInv
<1>1. ASSUME NEW m \in Managers, NEW s \in Sandboxes, ClaimCleanup(m, s) PROVE OInv'
  <2>1. UNCHANGED <<remote, owner, slot, task, fill, pending, retiring, histories>>
    BY <1>1 DEF ClaimCleanup, DrainOnly, memory
  <2>2. /\ Typed' /\ \A x \in Sandboxes : cleanup'[x].sandbox = cleanup[x].sandbox
        /\ drain'[m].pc = "destroying" /\ \A n \in Managers : n # m => drain'[n] = drain[n]
    BY <1>0, <1>1, ClaimCleanupDoes
  <2>3. Safe'
    BY <2>1, <2>2, BackgroundStep DEF RemoteQuiet
  <2> QED
    BY <2>2, <2>3 DEF OInv
<1>2. ASSUME NEW m \in Managers, DestroyQueued(m) PROVE OInv'
  <2>1. UNCHANGED <<owner, slot, cleanup, task, fill, pending, retiring, histories>>
    BY <1>2 DEF DestroyQueued, DrainOnly, memory, rows
  <2>2. /\ Typed' /\ drain[m].sandbox \in Sandboxes /\ Gone(drain[m].sandbox)
        /\ drain'[m].sandbox = drain[m].sandbox
        /\ drain'[m].pc = "completing" => remote'[drain[m].sandbox] = "gone"
        /\ \A n \in Managers : n # m => drain'[n] = drain[n]
    BY <1>0, <1>2, DestroyQueuedDoes
  <2>3. RemoteQuiet
    BY <2>2, GoneQuiet
  <2>4. Safe'
    BY <2>1, <2>2, <2>3, BackgroundStep
  <2> QED
    BY <2>2, <2>4 DEF OInv
<1>3. ASSUME NEW m \in Managers, Complete(m) PROVE OInv'
  <2>1. UNCHANGED <<remote, owner, slot, task, fill, pending, retiring, histories>>
    BY <1>3 DEF Complete, DrainOnly, memory
  <2>2. /\ Typed' /\ drain[m].pc = "completing" /\ Drained(m, NoJob)
        /\ \A x \in Sandboxes : cleanup'[x] = cleanup[x] \/ (x = drain[m].sandbox /\ cleanup'[x].sandbox = None)
    BY <1>0, <1>3, CompleteDoes
  <2>3. remote[drain[m].sandbox] = "gone"
    BY <2>2 DEF OInv, Safe, DestructionOK
  <2>4. Safe'
    BY <2>1, <2>2, <2>3, Idle, BackgroundStep DEF RemoteQuiet, Drained
  <2> QED
    BY <2>2, <2>4 DEF OInv
<1>4. ASSUME NEW m \in Managers, ReleaseCleanup(m) PROVE OInv'
  <2>1. UNCHANGED <<remote, owner, slot, task, fill, pending, retiring, histories>>
    BY <1>4 DEF ReleaseCleanup, DrainOnly, memory
  <2>2. Typed' /\ Drained(m, NoJob) /\ \A x \in Sandboxes : cleanup'[x].sandbox = cleanup[x].sandbox
    BY <1>0, <1>4, ReleaseCleanupDoes
  <2>3. Safe'
    BY <2>1, <2>2, Idle, BackgroundStep DEF RemoteQuiet, Drained
  <2> QED
    BY <2>2, <2>3 DEF OInv
<1>5. ASSUME NEW m \in Managers, BeginClose(m) PROVE OInv'
  <2>1. UNCHANGED <<remote, owner, slot, cleanup, drain, task, fill, pending, retiring, histories>>
    BY <1>5 DEF BeginClose, rows, jobs
  <2>2. Typed'
    BY <1>0, <1>5, BeginCloseDoes
  <2>3. Safe'
    BY <2>1, <2>2, BackgroundStep DEF RemoteQuiet
  <2> QED
    BY <2>2, <2>3 DEF OInv
<1>6. ASSUME NEW o \in Owners, ExpireOwner(o) PROVE OInv'
  <2>1. UNCHANGED <<remote, slot, cleanup, drain, task, fill, pending, retiring, histories>>
    BY <1>6 DEF ExpireOwner, jobs, memory
  <2>2. Typed' /\ \A p \in Owners : owner'[p].sandbox = owner[p].sandbox /\ owner'[p].claim = owner[p].claim
    BY <1>0, <1>6, ExpireDoes
  <2>3. Safe'
    BY <2>1, <2>2, BackgroundStep DEF RemoteQuiet
  <2> QED
    BY <2>2, <2>3 DEF OInv
<1>7. ASSUME NEW i \in Slots, ExpireSlot(i) PROVE OInv'
  <2>1. UNCHANGED <<remote, owner, cleanup, drain, task, fill, pending, retiring, histories>>
    BY <1>7 DEF ExpireSlot, jobs, memory
  <2>2. Typed' /\ \A j \in Slots : slot'[j].sandbox = slot[j].sandbox /\ slot'[j].claim = slot[j].claim
    BY <1>0, <1>7, ExpireDoes
  <2>3. Safe'
    BY <2>1, <2>2, BackgroundStep DEF RemoteQuiet
  <2> QED
    BY <2>2, <2>3 DEF OInv
<1>8. ASSUME NEW s \in Sandboxes, ExpireCleanup(s) PROVE OInv'
  <2>1. UNCHANGED <<remote, owner, slot, drain, task, fill, pending, retiring, histories>>
    BY <1>8 DEF ExpireCleanup, jobs, memory
  <2>2. Typed' /\ \A x \in Sandboxes : cleanup'[x].sandbox = cleanup[x].sandbox
    BY <1>0, <1>8, ExpireDoes
  <2>3. Safe'
    BY <2>1, <2>2, BackgroundStep DEF RemoteQuiet
  <2> QED
    BY <2>2, <2>3 DEF OInv
<1>9. ASSUME NEW s \in Sandboxes, Break(s) PROVE OInv'
  <2>1. UNCHANGED <<owner, slot, cleanup, drain, task, fill, pending, retiring, histories>>
    BY <1>9 DEF Break, rows, jobs, memory
  <2>2. /\ Typed' /\ remote[s] = "running" /\ remote'[s] \in {"broken", "gone"}
        /\ \A x \in Sandboxes : x # s => remote'[x] = remote[x]
    BY <1>0, <1>9, BreakDoes
  <2>3. RemoteQuiet
    BY <2>2 DEF RemoteQuiet
  <2>4. Safe'
    BY <2>1, <2>2, <2>3, BackgroundStep
  <2> QED
    BY <2>2, <2>4 DEF OInv
<1> QED
  BY <1>1, <1>2, <1>3, <1>4, <1>5, <1>6, <1>7, <1>8, <1>9

-----------------------------------------------------------------------------
(* Destruction, and the end of a process.                                   *)

LEMMA ForgetDoes ==
  ASSUME NEW lost, Forget(lost)
  PROVE  /\ condemned' = condemned /\ left \subseteq left'
         /\ \A s \in Sandboxes : s \in lost => HasHome(s)' \/ Dooms(s)' \/ s \in left'
<1>1. condemned' = condemned /\ left' = left \cup (lost \ (Bound' \cup Warm' \cup Doomed'))
  BY DEF Forget
<1>2. \A s \in Sandboxes : s \in Bound' \cup Warm' => HasHome(s)'
  BY DEF Bound, Warm, HasHome
<1>3. \A s \in Sandboxes : s \in Doomed' => Dooms(s)'
  BY DEF Doomed, Dooms, Queued
<1> QED
  BY <1>1, <1>2, <1>3

LEMMA RetireStep ==
  ASSUME OInv, NEW m \in Managers, NEW s \in Sandboxes, Retire(m, s)
  PROVE  OInv'
<1>1. UNCHANGED <<owner, slot, drain, task, fill, pending>>
  BY DEF Retire, jobs
<1>2. /\ Typed' /\ s \in retiring[m] /\ Gone(s)
      /\ retiring'[m] = retiring[m] \ {s} /\ \A n \in Managers : n # m => retiring'[n] = retiring[n]
      /\ \/ remote'[s] = "gone" /\ UNCHANGED <<cleanup, histories>>
         \/ Enlisted(s) /\ UNCHANGED histories
         \/ cleanup' = cleanup /\ Forget({s})
  BY RetireDoes DEF OInv
<1>3. RemoteQuiet
  BY <1>2, GoneQuiet
<1>4. Quiet
  BY <1>1, <1>3 DEF Quiet, TaskQuiet, FillQuiet, RowsQuiet, MemoryQuiet, RemoteQuiet
<1>5. \A x \in Sandboxes : Dooms(x)' => Dooms(x)
  BY <1>2 DEF Dooms, Enlisted
<1>6. HomesOK'
  BY <1>2, <1>4, <1>5, QuietStep DEF OInv, Safe
<1>7. DestructionOK'
  BY <1>1, <1>3, KeepDestruction DEF OInv, Safe
<1>8. condemned' = condemned /\ left \subseteq left'
  BY <1>2, ForgetDoes DEF histories
<1>9. ASSUME NEW x \in Sandboxes, remote'[x] \in {"running", "broken"}, Covered(x) PROVE Covered(x)'
  <2>1. CASE x = s
    <3>1. Enlisted(s) => Dooms(s)'
      BY DEF Enlisted, Dooms
    <3> QED
      BY <1>2, <1>9, <2>1, <3>1, ForgetDoes DEF Covered
  <2>2. CASE x # s
    <3>1. HasHome(x) => HasHome(x)'
      BY <1>1 DEF HasHome
    <3>2. Dooms(x) => Dooms(x)'
      BY <1>2, <2>2 DEF Dooms, Enlisted
    <3>3. \A n \in Managers : Answers(n, x) => Answers(n, x)'
      BY <1>1, <1>2, <2>2 DEF Answers, Binds, Doubts, Publishes, Replaced
    <3> QED
      BY <1>8, <1>9, <3>1, <3>2, <3>3 DEF Covered
  <2> QED
    BY <2>1, <2>2
<1>10. AnsweredFor'
  BY <1>3, <1>9, KeepAnswered DEF OInv, Safe
<1>11. Kept'
  BY <1>4, <1>5, <1>8, KeepKept DEF OInv, Safe
<1> QED
  BY <1>2, <1>6, <1>7, <1>10, <1>11 DEF OInv, Safe

LEMMA ClosePendingStep ==
  ASSUME OInv, NEW m \in Managers, NEW o \in Owners, NEW s \in Sandboxes, ClosePending(m, o, s)
  PROVE  OInv'
<1>1. UNCHANGED <<owner, slot, drain, task, fill, retiring, left>>
  BY DEF ClosePending, jobs
<1>2. /\ Typed' /\ s \in pending[m][o] /\ Gone(s) /\ condemned' = condemned \cup {s}
      /\ task[m] = NoTask
      /\ pending'[m][o] = pending[m][o] \ {s}
      /\ \A n \in Managers, p \in Owners : n # m \/ p # o => pending'[n][p] = pending[n][p]
      /\ (remote'[s] = "gone" /\ cleanup' = cleanup) \/ Enlisted(s)
  BY ClosePendingDoes DEF OInv
<1>3. RemoteQuiet
  BY <1>2, GoneQuiet
<1>4. Quiet
  BY <1>1, <1>2, <1>3 DEF Quiet, TaskQuiet, FillQuiet, RowsQuiet, MemoryQuiet, RemoteQuiet
<1>5. \A x \in Sandboxes : Dooms(x)' => Dooms(x) \/ x = s
  BY <1>1, <1>2 DEF Dooms, Enlisted
<1>6. ~Loose(s)
  <2>1. Former(s)
    BY <1>2 DEF Former
  <2> QED
    BY <2>1 DEF OInv, Safe, HomesOK, FreshEach, Fresh
<1>7. HomesOK'
  BY <1>2, <1>4, <1>5, <1>6, QuietStep, QuietLoose DEF OInv, Safe
<1>8. DestructionOK'
  BY <1>1, <1>2, <1>3, KeepDestruction DEF OInv, Safe
<1>9. ASSUME NEW x \in Sandboxes, remote'[x] \in {"running", "broken"}, Covered(x) PROVE Covered(x)'
  <2>1. CASE x = s
    BY <1>2, <1>9, <2>1 DEF Covered, Enlisted, Dooms
  <2>2. CASE x # s
    <3>1. HasHome(x) => HasHome(x)'
      BY <1>1 DEF HasHome
    <3>2. Dooms(x) => Dooms(x)'
      BY <1>1, <1>2, <2>2 DEF Dooms, Enlisted
    <3>3. \A n \in Managers : Answers(n, x) => Answers(n, x)'
      BY <1>1, <1>2, <2>2 DEF Answers, Binds, Doubts, Publishes, Replaced
    <3> QED
      BY <1>1, <1>9, <3>1, <3>2, <3>3 DEF Covered
  <2> QED
    BY <2>1, <2>2
<1>10. AnsweredFor'
  BY <1>3, <1>9, KeepAnswered DEF OInv, Safe
<1>11. Kept'
  BY <1>2, <1>4, <1>5, KeepKept DEF OInv, Safe
<1> QED
  BY <1>2, <1>7, <1>8, <1>10, <1>11 DEF OInv, Safe

LEMMA VanishStep ==
  ASSUME OInv, NEW m \in Managers, ForgetProcess(m), UNCHANGED <<remote, rows>>,
         condemned' = condemned, left \subseteq left',
         \A s \in Sandboxes : s \in InMemory(m) => HasHome(s)' \/ Dooms(s)' \/ s \in left'
  PROVE  OInv'
<1>1. Typed' /\ Vanished(m)
  BY ForgetProcessDoes DEF OInv
<1>2. RemoteQuiet /\ UNCHANGED <<owner, slot, cleanup>>
  BY DEF RemoteQuiet, rows
<1>3. Quiet
  BY <1>1, <1>2, Idle DEF Quiet, TaskQuiet, FillQuiet, RowsQuiet, MemoryQuiet, RemoteQuiet, Vanished, Tasked, Filled
<1>4. \A x \in Sandboxes : Dooms(x)' => Dooms(x)
  BY <1>1, <1>2 DEF Dooms, Vanished
<1>5. HomesOK'
  BY <1>1, <1>3, <1>4, QuietStep DEF OInv, Safe
<1>6. DestructionOK'
  BY <1>1, <1>2, Idle, KeepDestruction DEF OInv, Safe, Vanished, Tasked, Drained
<1>7. ASSUME NEW x \in Sandboxes, Covered(x) PROVE Covered(x)'
  <2>1. HasHome(x) => HasHome(x)'
    BY <1>2 DEF HasHome
  <2>2. Dooms(x) => Dooms(x)' \/ x \in InMemory(m)
    BY <1>1, <1>2 DEF Dooms, Vanished, InMemory
  <2>3. x # None
    BY NamesAssumption
  <2>4. Answers(m, x) => x \in InMemory(m)
    BY <2>3 DEF Answers, Binds, Doubts, Publishes, InMemory, KnownTo, Replaced, Some
  <2>5. \A n \in Managers : n # m /\ Answers(n, x) => Answers(n, x)'
    BY <1>1, SameAnswers DEF Vanished, Tasked, Filled
  <2> QED
    BY <1>7, <2>1, <2>2, <2>4, <2>5 DEF Covered
<1>8. AnsweredFor'
  BY <1>2, <1>7, KeepAnswered DEF OInv, Safe
<1>9. Kept'
  BY <1>3, <1>4, KeepKept DEF OInv, Safe
<1> QED
  BY <1>1, <1>5, <1>6, <1>8, <1>9 DEF OInv, Safe

LEMMA ProcessSteps ==
  ASSUME OInv, NEW m \in Managers, Crash(m) \/ EndClose(m)
  PROVE  OInv'
<1>1. CASE Crash(m)
  <2>1. ForgetProcess(m) /\ Forget(InMemory(m)) /\ UNCHANGED <<remote, rows>>
    BY <1>1 DEF Crash
  <2> QED
    BY <2>1, ForgetDoes, VanishStep
<1>2. CASE EndClose(m)
  <2>1. /\ ForgetProcess(m) /\ UNCHANGED <<remote, rows>> /\ UNCHANGED histories
        /\ task[m] = NoTask /\ fill[m] = NoJob /\ retiring[m] = {}
        /\ \A o \in Owners : pending[m][o] = {}
    BY <1>2 DEF EndClose, Settled
  <2>2. InMemory(m) = {}
    BY <2>1 DEF InMemory, KnownTo, Some, NoTask, NoJob
  <2> QED
    BY <2>1, <2>2, VanishStep DEF histories
<1> QED
  BY <1>1, <1>2

-----------------------------------------------------------------------------
(* The warm pool.                                                           *)

LEMMA SlotStep ==
  ASSUME OInv, Typed', UNCHANGED <<remote, owner, cleanup, task, drain, retiring, pending, histories>>,
         \A n \in Managers : FillQuiet(n) /\ (fill[n].pc = "publishing" => fill'[n] = fill[n]),
         \A i \in Slots : slot'[i].sandbox = slot[i].sandbox /\ slot'[i].claim \in {slot[i].claim, None}
  PROVE  Safe'
<1>1. RemoteQuiet
  BY DEF RemoteQuiet
<1>2. Quiet
  BY DEF Quiet, TaskQuiet, RowsQuiet, MemoryQuiet
<1>3. \A x \in Sandboxes : (Dooms(x)' <=> Dooms(x)) /\ (HasHome(x)' <=> HasHome(x))
  BY DEF Dooms, HasHome
<1>4. HomesOK'
  BY <1>2, <1>3, QuietStep DEF OInv, Safe
<1>5. DestructionOK'
  BY <1>1, KeepDestruction DEF OInv, Safe
<1>6. \A n \in Managers, x \in Sandboxes : Answers(n, x) => Answers(n, x)'
  BY DEF Answers, Binds, Doubts, Publishes, Replaced
<1>7. AnsweredFor'
  BY <1>1, <1>3, <1>6, KeepAnswered DEF OInv, Safe, Covered, histories
<1>8. Kept'
  BY <1>2, <1>3, KeepKept DEF OInv, Safe, histories
<1> QED
  BY <1>4, <1>5, <1>7, <1>8 DEF Safe

LEMMA QuietSlotSteps ==
  ASSUME OInv, NEW m \in Managers, GiveUpSlot(m) \/ Probe(m) \/ Republish(m) \/ ReleaseSlot(m)
  PROVE  OInv'
<1>0. Typed
  BY DEF OInv
<1>1. CASE GiveUpSlot(m)
  <2>1. UNCHANGED <<remote, owner, slot, cleanup, task, drain, retiring, pending, histories>>
    BY <1>1 DEF GiveUpSlot, FillOnly, rows, memory
  <2>2. Typed' /\ FillGoes(m, "releasing") /\ fill[m].pc # "publishing"
    BY <1>0, <1>1, GiveUpSlotDoes
  <2>3. Safe'
    BY <2>1, <2>2, SlotStep DEF FillGoes, FillIs, FillQuiet
  <2> QED
    BY <2>2, <2>3 DEF OInv
<1>2. CASE Probe(m)
  <2>1. UNCHANGED <<remote, owner, slot, cleanup, task, drain, retiring, pending, histories>>
    BY <1>2 DEF Probe, FillOnly, rows, memory
  <2>2. /\ Typed' /\ fill[m].pc = "probing"
        /\ \E pc \in {"republishing", "discarding"} : FillGoes(m, pc)
    BY <1>0, <1>2, ProbeDoes
  <2>3. Safe'
    BY <2>1, <2>2, SlotStep DEF FillGoes, FillIs, FillQuiet
  <2> QED
    BY <2>2, <2>3 DEF OInv
<1>3. CASE ReleaseSlot(m)
  <2>1. UNCHANGED <<remote, owner, cleanup, task, drain, retiring, pending, histories>>
    BY <1>3 DEF ReleaseSlot, FillOnly, memory
  <2>2. /\ Typed' /\ fill[m].pc = "releasing" /\ Filled(m, NoJob)
        /\ \A i \in Slots : slot'[i].sandbox = slot[i].sandbox /\ slot'[i].claim \in {slot[i].claim, None}
    BY <1>0, <1>3, ReleaseSlotDoes
  <2>3. Safe'
    BY <2>1, <2>2, Idle, SlotStep DEF Filled, FillQuiet
  <2> QED
    BY <2>2, <2>3 DEF OInv
<1>4. CASE Republish(m)
  <2>1. UNCHANGED <<remote, owner, cleanup, task, drain, retiring, pending, histories>>
    BY <1>4 DEF Republish, FillOnly, memory
  <2>2. /\ Typed' /\ fill[m].pc = "republishing" /\ fill[m].slot \in Slots
        /\ \/ slot[fill[m].slot].claim = m /\ Stored(fill[m].slot, fill[m].sandbox) /\ Filled(m, NoJob)
           \/ slot' = slot /\ FillGoes(m, "releasing")
    BY <1>0, <1>4, RepublishDoes
  <2>3. \A i \in Slots : slot'[i].sandbox = slot[i].sandbox /\ slot'[i].claim \in {slot[i].claim, None}
    BY <2>2 DEF Stored, OInv, Safe, HomesOK, SlotKnows
  <2>4. Safe'
    BY <2>1, <2>2, <2>3, Idle, SlotStep DEF Filled, FillGoes, FillIs, FillQuiet
  <2> QED
    BY <2>2, <2>4 DEF OInv
<1> QED
  BY <1>1, <1>2, <1>3, <1>4

LEMMA DiscardStep ==
  ASSUME OInv, NEW m \in Managers, Discard(m)
  PROVE  OInv'
<1> DEFINE f == fill[m]
<1>1. UNCHANGED <<remote, owner, task, drain, retiring, pending, histories>>
  BY DEF Discard, FillOnly, memory
<1>2. /\ Typed' /\ f.pc = "discarding" /\ f.slot \in Slots /\ f.sandbox \in Sandboxes
      /\ \/ slot[f.slot].claim = m /\ Stored(f.slot, None) /\ Enlisted(f.sandbox) /\ Filled(m, NoJob)
         \/ slot' = slot /\ cleanup' = cleanup /\ FillGoes(m, "releasing")
  BY DiscardDoes DEF OInv
<1>3. CASE slot' = slot /\ cleanup' = cleanup /\ FillGoes(m, "releasing")
  <2>1. Safe'
    BY <1>1, <1>2, <1>3, SlotStep DEF FillGoes, FillIs, FillQuiet
  <2> QED
    BY <1>2, <2>1 DEF OInv
<1>4. CASE slot[f.slot].claim = m /\ Stored(f.slot, None) /\ Enlisted(f.sandbox) /\ Filled(m, NoJob)
  <2>0. RemoteQuiet
    BY <1>1 DEF RemoteQuiet
  <2>1. Quiet
    BY <1>1, <1>4, Idle DEF Quiet, TaskQuiet, FillQuiet, RowsQuiet, MemoryQuiet, Filled, Stored
  <2>2. slot[f.slot].sandbox = f.sandbox
    BY <1>2, <1>4 DEF OInv, Safe, HomesOK, SlotKnows
  <2>3. \A x \in Sandboxes : Dooms(x)' => Dooms(x) \/ x = f.sandbox
    BY <1>1, <1>4 DEF Dooms, Enlisted
  <2>4. ~Loose(f.sandbox)
    <3>1. HasHome(f.sandbox)
      BY <1>2, <2>2 DEF HasHome
    <3> QED
      BY <1>2, <3>1 DEF OInv, Safe, HomesOK, FreshEach, Fresh
  <2>5. HomesOK'
    BY <1>2, <2>1, <2>3, <2>4, QuietStep, QuietLoose DEF OInv, Safe
  <2>6. DestructionOK'
    BY <1>1, <2>0, KeepDestruction DEF OInv, Safe
  <2>7. ASSUME NEW x \in Sandboxes, Covered(x) PROVE Covered(x)'
    <3>1. HasHome(x) => HasHome(x)' \/ x = f.sandbox
      BY <1>1, <1>4, <2>2 DEF HasHome, Stored
    <3>2. Dooms(x) \/ x = f.sandbox => Dooms(x)'
      BY <1>1, <1>4 DEF Dooms, Enlisted
    <3>3. \A n \in Managers : Answers(n, x) => Answers(n, x)'
      BY <1>1, <1>2, <1>4 DEF Answers, Binds, Doubts, Publishes, Replaced, Filled
    <3> QED
      BY <1>1, <2>7, <3>1, <3>2, <3>3 DEF Covered, histories
  <2>8. AnsweredFor'
    BY <2>0, <2>7, KeepAnswered DEF OInv, Safe
  <2>9. \A x \in Sandboxes : x = f.sandbox => ~HasHome(x)'
    BY <1>1, <1>2, <1>4, <2>2, NamesAssumption DEF HasHome, Stored, OInv, Safe, HomesOK, OneHomeEach
  <2>10. Kept'
    BY <1>1, <2>1, <2>3, <2>9, KeepKept DEF OInv, Safe, histories
  <2> QED
    BY <1>2, <2>5, <2>6, <2>8, <2>10 DEF OInv, Safe
<1> QED
  BY <1>2, <1>3, <1>4

LEMMA ClaimSlotStep ==
  ASSUME OInv, NEW m \in Managers, NEW i \in Slots, ClaimSlot(m, i)
  PROVE  OInv'
<1>1. UNCHANGED <<remote, owner, cleanup, task, drain, retiring, pending, histories>>
  BY DEF ClaimSlot, FillOnly, memory
<1>2. /\ Typed' /\ fill[m].pc = "off"
      /\ slot'[i].sandbox = slot[i].sandbox /\ slot'[i].claim = m
      /\ \A j \in Slots : j # i => slot'[j] = slot[j]
      /\ fill'[m].slot = i /\ fill'[m].sandbox = slot[i].sandbox
      /\ fill'[m].pc = IF slot[i].sandbox = None THEN "creating" ELSE "probing"
      /\ \A n \in Managers : n # m => fill'[n] = fill[n]
  BY ClaimSlotDoes DEF OInv
<1>3. RemoteQuiet
  BY <1>1 DEF RemoteQuiet
<1>4. \A x \in Sandboxes : (Dooms(x)' <=> Dooms(x)) /\ (HasHome(x)' <=> HasHome(x)) /\ (Former(x)' <=> Former(x))
  <2>1. \A x \in Sandboxes : HasHome(x)' <=> HasHome(x)
    BY <1>1, <1>2 DEF HasHome
  <2>2. \A x \in Sandboxes : (Dooms(x)' <=> Dooms(x)) /\ (Former(x)' <=> Former(x))
    BY <1>1 DEF Dooms, Former, Replaced
  <2> QED
    BY <2>1, <2>2
<1>5. \A n \in Managers, x \in Sandboxes :
        /\ Binds(n, x)' <=> Binds(n, x)
        /\ Doubts(n, x)' <=> Doubts(n, x)
        /\ Publishes(n, x)' <=> Publishes(n, x)
  BY <1>1, <1>2 DEF Binds, Doubts, Publishes
<1>6. FreshEach' /\ OneHand'
  BY <1>1, <1>4, <1>5 DEF FreshEach, Fresh, Loose, OneHand, OInv, Safe, HomesOK
<1>7. OneHomeEach' /\ \A n \in Managers : Outdated(n)' /\ InDoubt(n)' /\ ClaimKnows(n)'
  <2>1. \A j \in Slots : slot'[j].sandbox = slot[j].sandbox
    BY <1>2
  <2>2. OneHomeEach'
    BY <1>1, <2>1 DEF OneHomeEach, OInv, Safe, HomesOK
  <2>3. \A n \in Managers : Outdated(n)'
    BY <1>1, <2>1 DEF Outdated, Replaced, Latest, OInv, Safe, HomesOK
  <2>4. \A n \in Managers : InDoubt(n)' /\ ClaimKnows(n)'
    BY <1>1, <2>1 DEF InDoubt, ClaimKnows, Latest, OInv, Safe, HomesOK
  <2> QED
    BY <2>2, <2>3, <2>4
<1>8. \A n \in Managers : SlotKnows(n)'
  BY <1>2 DEF SlotKnows, OInv, Safe, HomesOK, Typed, FillOK, FillShape
<1>9. HomesOK'
  BY <1>6, <1>7, <1>8 DEF HomesOK
<1>10. DestructionOK'
  BY <1>1, <1>3, KeepDestruction DEF OInv, Safe
<1>11. \A n \in Managers, x \in Sandboxes : Answers(n, x) => Answers(n, x)'
  BY <1>1, <1>5 DEF Answers, Binds, Doubts, Replaced
<1>12. AnsweredFor'
  BY <1>1, <1>3, <1>4, <1>11, KeepAnswered DEF OInv, Safe, Covered, histories
<1>13. Kept'
  BY <1>1, <1>4 DEF OInv, Safe, Kept, KeptEach, histories
<1> QED
  BY <1>2, <1>9, <1>10, <1>12, <1>13 DEF OInv, Safe

\* A new sandbox changes hands only: it is fresh until it is bound or published.
LEMMA CreateWarmStep ==
  ASSUME OInv, NEW m \in Managers, CreateWarm(m)
  PROVE  OInv'
<1>1. UNCHANGED <<owner, slot, cleanup, task, drain, retiring, pending, histories>>
  BY DEF CreateWarm, FillOnly, rows, memory
<1>2. /\ Typed' /\ fill[m].pc = "creating"
      /\ \E s \in Sandboxes :
           /\ remote[s] = "unused" /\ remote'[s] = "running"
           /\ \A x \in Sandboxes : x # s => remote'[x] = remote[x]
           /\ FillIs(m, "publishing", s)
  BY CreateWarmDoes DEF OInv
<1>3. PICK s \in Sandboxes :
           /\ remote[s] = "unused" /\ remote'[s] = "running"
           /\ \A x \in Sandboxes : x # s => remote'[x] = remote[x]
           /\ FillIs(m, "publishing", s)
  BY <1>2
<1>4. \A x \in Sandboxes : (Dooms(x)' <=> Dooms(x)) /\ (HasHome(x)' <=> HasHome(x)) /\ (Former(x)' <=> Former(x))
  BY <1>1 DEF Dooms, HasHome, Former, Replaced
<1>5. \A n \in Managers, x \in Sandboxes :
        /\ Binds(n, x)' <=> Binds(n, x)
        /\ Doubts(n, x)' <=> Doubts(n, x)
        /\ Publishes(n, x)' <=> Publishes(n, x) \/ (n = m /\ x = s)
  BY <1>1, <1>2, <1>3 DEF Binds, Doubts, Publishes, FillIs
<1>6. FreshEach'
  <2>1. \A x \in Sandboxes : Loose(x)' => Loose(x)
    BY <1>3, <1>5 DEF Loose
  <2> QED
    BY <1>4, <2>1 DEF FreshEach, Fresh, OInv, Safe, HomesOK
<1>7. OneHand'
  BY <1>3, <1>5 DEF OneHand, OInv, Safe, HomesOK
<1>8. OneHomeEach' /\ \A n \in Managers : Outdated(n)' /\ InDoubt(n)' /\ ClaimKnows(n)'
  <2>1. \A n \in Managers : Outdated(n)'
    BY <1>1 DEF Outdated, Replaced, Latest, OInv, Safe, HomesOK
  <2> QED
    BY <1>1, <2>1 DEF OneHomeEach, InDoubt, ClaimKnows, Latest, OInv, Safe, HomesOK
<1>9. \A n \in Managers : SlotKnows(n)'
  BY <1>1, <1>2, <1>3 DEF SlotKnows, FillIs, OInv, Safe, HomesOK
<1>10. HomesOK'
  BY <1>6, <1>7, <1>8, <1>9 DEF HomesOK
<1>11. DestructionOK'
  <2>1. \A n \in Managers : task[n].pc = "deleting" =>
          \A x \in pending[n][task[n].owner] \cup Some(task[n].old) : x \in Sandboxes
    BY DEF OInv, Typed, TaskOK, TaskShape, Tasks, MemoryOK, Some, Names
  <2>2. \A n \in Managers : drain[n].pc = "completing" => drain[n].sandbox \in Sandboxes
    BY DEF OInv, Typed, DrainOK, Drains, Names
  <2> QED
    BY <1>1, <1>3, <2>1, <2>2 DEF DestructionOK, OInv, Safe
<1>12. AnsweredFor'
  <2>1. \A n \in Managers, x \in Sandboxes : Answers(n, x) => Answers(n, x)'
    BY <1>1, <1>5 DEF Answers, Binds, Doubts, Replaced
  <2>2. Answers(m, s)'
    BY <1>5 DEF Answers
  <2> QED
    BY <1>1, <1>3, <1>4, <2>1, <2>2 DEF AnsweredFor, OInv, Safe, histories
<1>13. Kept'
  BY <1>1, <1>4 DEF OInv, Safe, Kept, KeptEach, histories
<1> QED
  BY <1>2, <1>10, <1>11, <1>12, <1>13 DEF OInv, Safe

LEMMA PublishWarmStep ==
  ASSUME OInv, NEW m \in Managers, PublishWarm(m)
  PROVE  OInv'
<1>1. UNCHANGED <<remote, owner, cleanup, task, drain, pending, histories>>
  BY DEF PublishWarm, FillOnly
<1>2. /\ Typed' /\ fill[m].pc = "publishing" /\ fill[m].slot \in Slots /\ fill[m].sandbox \in Sandboxes
      /\ \/ slot[fill[m].slot].claim = m /\ Stored(fill[m].slot, fill[m].sandbox)
         \/ slot' = slot
      /\ \/ Filled(m, NoJob) /\ retiring' = retiring /\ slot[fill[m].slot].claim = m
            /\ Stored(fill[m].slot, fill[m].sandbox)
         \/ /\ FillGoes(m, "releasing")
            /\ UncertainPublish \/ slot' = slot
            /\ retiring'[m] = retiring[m] \cup {fill[m].sandbox}
            /\ \A n \in Managers : n # m => retiring'[n] = retiring[n]
  BY PublishWarmDoes DEF OInv
<1>3. PICK i \in Slots, s \in Sandboxes : i = fill[m].slot /\ s = fill[m].sandbox
  BY <1>2
<1>4. RemoteQuiet /\ s # None
  BY <1>1, NamesAssumption DEF RemoteQuiet
<1>5. /\ Publishes(m, s) /\ Fresh(s) /\ remote[s] # "unused"
      /\ \A n \in Managers : ~Binds(n, s) /\ ~Doubts(n, s)
      /\ \A n \in Managers : n # m => ~Publishes(n, s)
  BY <1>2, <1>3 DEF Publishes, Loose, FreshEach, OneHand, OInv, Safe, HomesOK
<1>6. \A n \in Managers, x \in Sandboxes :
        /\ Binds(n, x)' <=> Binds(n, x)
        /\ Doubts(n, x)' <=> Doubts(n, x)
        /\ Publishes(n, x)' <=> Publishes(n, x) /\ n # m
  <2>1. \A n \in Managers, x \in Sandboxes : (Binds(n, x)' <=> Binds(n, x)) /\ (Doubts(n, x)' <=> Doubts(n, x))
    BY <1>1 DEF Binds, Doubts
  <2>2. fill'[m].pc \in {"off", "releasing"} /\ \A n \in Managers : n # m => fill'[n] = fill[n]
    BY <1>2, Idle DEF Filled, FillGoes, FillIs
  <2>3. \A n \in Managers, x \in Sandboxes : Publishes(n, x)' <=> Publishes(n, x) /\ n # m
    BY <2>2 DEF Publishes
  <2> QED
    BY <2>1, <2>3
<1>7. ~Loose(s)' /\ \A x \in Sandboxes : Loose(x)' => Loose(x)
  BY <1>1, <1>5, <1>6 DEF Loose
<1>8. /\ \A x \in Sandboxes : x # s => (Dooms(x)' <=> Dooms(x))
      /\ Dooms(s)' => retiring'[m] = retiring[m] \cup {s}
  BY <1>1, <1>2, <1>3, <1>5 DEF Dooms, Fresh
<1>9. slot' = slot \/ (slot[i].claim = m /\ slot[i].sandbox = None /\ Stored(i, s))
  BY <1>2, <1>3 DEF SlotKnows, OInv, Safe, HomesOK
<1>10. \A x \in Sandboxes : x # s => (HasHome(x)' <=> HasHome(x))
  BY <1>1, <1>9, NamesAssumption DEF HasHome, Stored
<1>11. \A x \in Sandboxes : Former(x)' <=> Former(x)
  BY <1>1 DEF Former, Replaced
<1>12. FreshEach'
  BY <1>7, <1>8, <1>10, <1>11 DEF FreshEach, Fresh, OInv, Safe, HomesOK
<1>13. OneHand'
  BY <1>1, <1>6 DEF OneHand, OInv, Safe, HomesOK
<1>14. OneHomeEach'
  <2>1. \A o \in Owners : owner[o].sandbox # s
    BY <1>5 DEF Fresh, HasHome
  <2>2. \A j \in Slots : slot[j].sandbox # s
    BY <1>5 DEF Fresh, HasHome
  <2> QED
    BY <1>1, <1>9, <2>1, <2>2 DEF OneHomeEach, Stored, OInv, Safe, HomesOK
<1>15. \A n \in Managers : Outdated(n)'
  <2>1. \A n \in Managers : task[n].pc \in Working => s \notin Replaced(task[n])
    BY <1>5 DEF Fresh, Former
  <2>2. \A n \in Managers : None \notin Replaced(task[n])
    BY NamesAssumption, ReplacedSandboxes DEF OInv, Typed, TaskOK
  <2> QED
    BY <1>1, <1>9, <2>1, <2>2 DEF Outdated, Replaced, Latest, Stored, OInv, Safe, HomesOK
<1>16. \A n \in Managers : InDoubt(n)'
  <2>1. \A n \in Managers : task[n].pc = "reconciling" => task[n].candidate # s
    BY <1>5 DEF Doubts
  <2> QED
    BY <1>1, <1>9, <2>1 DEF InDoubt, Stored, OInv, Safe, HomesOK
<1>17. \A n \in Managers : ClaimKnows(n)'
  BY <1>1 DEF ClaimKnows, Latest, OInv, Safe, HomesOK
<1>18. \A n \in Managers : SlotKnows(n)'
  <2>1. fill'[m].pc \in {"off", "releasing"} /\ \A n \in Managers : n # m => fill'[n] = fill[n]
    BY <1>2, Idle DEF Filled, FillGoes, FillIs
  <2> QED
    BY <1>9, <2>1, NamesAssumption DEF SlotKnows, Stored, OInv, Safe, HomesOK, Typed, FillOK, FillShape
<1>19. HomesOK'
  BY <1>12, <1>13, <1>14, <1>15, <1>16, <1>17, <1>18 DEF HomesOK
<1>20. DestructionOK'
  BY <1>1, <1>4, KeepDestruction DEF OInv, Safe
<1>21. ASSUME NEW x \in Sandboxes, Covered(x) PROVE Covered(x)'
  <2>1. CASE x = s
    <3>1. CASE Stored(i, s)
      BY <2>1, <3>1 DEF Covered, HasHome, Stored
    <3>2. CASE retiring'[m] = retiring[m] \cup {fill[m].sandbox}
      BY <1>3, <2>1, <3>2 DEF Covered, Dooms
    <3> QED
      BY <1>2, <1>3, <3>1, <3>2
  <2>2. CASE x # s
    <3>1. \A n \in Managers : Answers(n, x) => Answers(n, x)'
      <4>1. \A n \in Managers : Publishes(n, x) => Publishes(n, x)'
        BY <1>3, <1>6, <2>2 DEF Publishes
      <4>2. \A n \in Managers : retiring[n] \subseteq retiring'[n]
        BY <1>2
      <4> QED
        BY <1>1, <4>1, <4>2 DEF Answers, Binds, Doubts, Replaced
    <3> QED
      BY <1>1, <1>8, <1>10, <1>21, <2>2, <3>1 DEF Covered, histories
  <2> QED
    BY <2>1, <2>2
<1>22. AnsweredFor'
  BY <1>4, <1>21, KeepAnswered DEF OInv, Safe
<1>23. Kept'
  <2>1. ~UncertainPublish => ~(Dooms(s)' /\ HasHome(s)')
    <3>1. CASE Filled(m, NoJob) /\ retiring' = retiring
      <4>1. ~Dooms(s)'
        BY <1>1, <1>5, <3>1 DEF Dooms, Fresh
      <4> QED
        BY <4>1
    <3>2. CASE slot' = slot
      <4>1. ~HasHome(s)'
        BY <1>1, <1>5, <3>2 DEF HasHome, Fresh
      <4> QED
        BY <4>1
    <3> QED
      BY <1>2, <3>1, <3>2
  <2> QED
    BY <1>1, <1>8, <1>10, <2>1, SandboxAssumption DEF OInv, Safe, Kept, KeptEach, histories
<1> QED
  BY <1>2, <1>19, <1>20, <1>22, <1>23 DEF OInv, Safe

-----------------------------------------------------------------------------
(* get, recreate and delete, where they give no sandbox a new home.         *)

LEMMA TaskStep ==
  ASSUME OInv, Typed', NEW m \in Managers, UNCHANGED <<slot, cleanup, fill, drain, condemned>>, left \subseteq left',
         RowsQuiet, MemoryQuiet, RemoteQuiet,
         TaskQuiet(m),
         \A n \in Managers : n # m => task'[n] = task[n] /\ retiring'[n] = retiring[n] /\ pending'[n] = pending[n],
         retiring[m] \subseteq retiring'[m],
         \A s \in Sandboxes : s \in retiring'[m] \ retiring[m] => ~Loose(s) /\ ~HasHome(s)',
         task'[m].pc = "deleting" =>
           \A s \in pending'[m][task'[m].owner] \cup Some(task'[m].old) : s \in task'[m].retire \/ remote'[s] = "gone",
         \A s \in Sandboxes :
           remote'[s] \in {"running", "broken"} /\ (Answers(m, s) \/ (HasHome(s) /\ ~HasHome(s)')) => Covered(s)'
  PROVE  OInv'
<1>1. Quiet
  BY DEF Quiet, TaskQuiet, FillQuiet
<1>2. \A s \in Sandboxes : Dooms(s)' => Dooms(s) \/ s \in retiring'[m] \ retiring[m]
  BY DEF Dooms
<1>3. \A s \in Sandboxes : Dooms(s) => Dooms(s)'
  BY DEF Dooms
<1>4. HomesOK'
  BY <1>1, <1>2, QuietStep, QuietLoose DEF OInv, Safe
<1>5. DestructionOK'
  <2>1. ASSUME NEW n \in Managers, n # m, task'[n].pc = "deleting",
               NEW s \in pending'[n][task'[n].owner] \cup Some(task'[n].old)
        PROVE  s \in task'[n].retire \/ remote'[s] = "gone"
    <3>1. task[n].owner \in Owners /\ task[n] \in Tasks
      BY <2>1 DEF OInv, Typed, TaskOK, TaskShape, Tasks
    <3>2. s \in Sandboxes
      BY <2>1, <3>1 DEF OInv, Typed, MemoryOK, Some, Tasks, Names
    <3> QED
      BY <2>1, <3>2 DEF OInv, Safe, DestructionOK, RemoteQuiet
  <2>2. ASSUME NEW n \in Managers, drain'[n].pc = "completing" PROVE remote'[drain'[n].sandbox] = "gone"
    BY <2>2 DEF OInv, Safe, DestructionOK, RemoteQuiet, Typed, DrainOK, Drains, Names
  <2> QED
    BY <2>1, <2>2 DEF DestructionOK
<1>6. ASSUME NEW s \in Sandboxes, remote'[s] \in {"running", "broken"}, Covered(s) PROVE Covered(s)'
  <2>1. \A n \in Managers : n # m /\ Answers(n, s) => Answers(n, s)'
    BY SameAnswers
  <2> QED
    BY <1>3, <1>6, <2>1 DEF Covered
<1>7. AnsweredFor'
  BY <1>6, KeepAnswered DEF OInv, Safe
<1>8. Kept'
  BY <1>1, <1>2, KeepKept DEF OInv, Safe
<1> QED
  BY <1>4, <1>5, <1>7, <1>8 DEF OInv, Safe

\* A task that fails without a change of the rows.
LEMMA FailStep ==
  ASSUME OInv, Typed', NEW m \in Managers, task[m].pc \in Working,
         UNCHANGED <<remote, owner, slot, cleanup, fill, drain, pending>>, Fails(m),
         \A n \in Managers : n # m => retiring'[n] = retiring[n],
         retiring[m] \subseteq retiring'[m],
         \A s \in Sandboxes : s \in retiring'[m] \ retiring[m] => ~Loose(s) /\ ~HasHome(s)'
  PROVE  OInv'
<1>1. Tasked(m, Moved(task[m], "releasing")) /\ Forget(KnownTo(task[m]))
  BY DEF Fails
<1>2. task'[m].pc = "releasing" /\ \A n \in Managers : n # m => task'[n] = task[n]
  BY <1>1, MovedTask DEF OInv, Typed, TaskOK, Tasked, Places
<1>3. /\ condemned' = condemned /\ left \subseteq left'
      /\ \A s \in Sandboxes : s \in KnownTo(task[m]) => HasHome(s)' \/ Dooms(s)' \/ s \in left'
  BY <1>1, ForgetDoes
<1>4. RowsQuiet /\ MemoryQuiet /\ RemoteQuiet /\ TaskQuiet(m)
  BY <1>2 DEF RowsQuiet, MemoryQuiet, RemoteQuiet, TaskQuiet
<1>5. ASSUME NEW s \in Sandboxes, Answers(m, s) \/ (HasHome(s) /\ ~HasHome(s)') PROVE Covered(s)'
  <2>1. ~(HasHome(s) /\ ~HasHome(s)')
    BY DEF HasHome
  <2>2. CASE s \in retiring[m]
    BY <2>2 DEF Covered, Dooms
  <2>3. CASE \E o \in Owners : s \in pending[m][o]
    BY <2>3 DEF Covered, Answers
  <2>4. CASE Publishes(m, s)
    BY <2>4 DEF Covered, Answers, Publishes
  <2>5. CASE s \in KnownTo(task[m])
    BY <1>3, <2>5 DEF Covered
  <2> QED
    BY <1>5, <2>1, <2>2, <2>3, <2>4, <2>5, NamesAssumption DEF Answers, Binds, Doubts, KnownTo, Replaced, Some
<1> QED
  BY <1>2, <1>3, <1>4, <1>5, TaskStep

\* A task that publishes a sandbox that the owner has or had, without a change of the rows.
LEMMA PublishStep ==
  ASSUME OInv, Typed', NEW m \in Managers, task[m].pc \in {"checking", "reconciling"}, NEW s \in Sandboxes,
         UNCHANGED <<remote, owner, slot, cleanup, fill, drain, pending, histories>>, Publishing(m, s),
         \A x \in Replaced(task[m]) : x # s => ~HasHome(x),
         task[m].pc = "checking" => s = task[m].current,
         task[m].pc = "reconciling" => s = task[m].candidate /\ HasHome(s)
  PROVE  OInv'
<1>1. /\ Tasked(m, Moved(task[m], "releasing"))
      /\ retiring'[m] = retiring[m] \cup (Replaced(task[m]) \ {s})
      /\ \A n \in Managers : n # m => retiring'[n] = retiring[n]
  BY DEF Publishing
<1>2. task'[m].pc = "releasing" /\ \A n \in Managers : n # m => task'[n] = task[n]
  BY <1>1, MovedTask DEF OInv, Typed, TaskOK, Tasked, Places
<1>3. RowsQuiet /\ MemoryQuiet /\ RemoteQuiet /\ TaskQuiet(m)
  BY <1>2 DEF RowsQuiet, MemoryQuiet, RemoteQuiet, TaskQuiet
<1>4. \A x \in Sandboxes : HasHome(x)' <=> HasHome(x)
  BY DEF HasHome
<1>5. \A x \in Sandboxes : x \in Replaced(task[m]) => ~Loose(x)
  BY DEF OInv, Safe, HomesOK, FreshEach, Fresh, Former, Working
<1>6. ASSUME NEW x \in Sandboxes, Answers(m, x) PROVE Covered(x)'
  <2>1. CASE x \in retiring[m] \/ x \in Replaced(task[m]) \ {s}
    BY <1>1, <2>1 DEF Covered, Dooms
  <2>2. CASE \E o \in Owners : x \in pending[m][o]
    BY <2>2 DEF Covered, Answers
  <2>3. CASE Publishes(m, x)
    BY <2>3 DEF Covered, Answers, Publishes
  <2>4. CASE task[m].pc = "reconciling" /\ x = s
    BY <1>4, <2>4 DEF Covered
  <2>5. CASE task[m].pc = "reconciling" /\ x \in KnownTo(task[m]) /\ x # s
    BY <2>1, <2>5 DEF KnownTo, Replaced, Some
  <2>6. CASE task[m].pc = "checking" /\ x \in task[m].retire \cup Some(task[m].old) /\ x # s
    BY <2>1, <2>6 DEF Replaced
  <2> QED
    BY <1>6, <2>1, <2>2, <2>3, <2>4, <2>5, <2>6 DEF Answers, Binds, Doubts, KnownTo, Replaced
<1> QED
  BY <1>1, <1>2, <1>3, <1>4, <1>5, <1>6, TaskStep DEF histories

\* A task that moves on with all it has, without a change of the rows.
LEMMA GoStep ==
  ASSUME OInv, Typed', NEW m \in Managers, NEW pc \in {"acquiring", "creating", "reconciling", "releasing"},
         UNCHANGED <<remote, owner, slot, cleanup, fill, drain, retiring, pending, histories>>,
         Tasked(m, Moved(task[m], pc)),
         \/ task[m].pc = "claimed" /\ pc \in {"acquiring", "releasing"}
         \/ task[m].pc = "acquiring" /\ pc = "creating"
         \/ task[m].pc = "checking" /\ pc = "acquiring"
         \/ task[m].pc = "binding" /\ pc = "reconciling"
  PROVE  OInv'
<1>1. /\ task'[m].pc = pc /\ task'[m].owner = task[m].owner /\ task'[m].old = task[m].old
      /\ task'[m].current = task[m].current /\ task'[m].candidate = task[m].candidate
      /\ task'[m].retire = task[m].retire
      /\ \A n \in Managers : n # m => task'[n] = task[n]
  BY MovedTask DEF OInv, Typed, TaskOK, Tasked, Places
<1>2. RowsQuiet /\ MemoryQuiet /\ RemoteQuiet /\ TaskQuiet(m)
  BY <1>1 DEF RowsQuiet, MemoryQuiet, RemoteQuiet, TaskQuiet, Working
<1>3. \A s \in Sandboxes : HasHome(s)' <=> HasHome(s)
  BY DEF HasHome
<1>4. \A s \in Sandboxes : Answers(m, s) => Answers(m, s)'
  BY <1>1 DEF Answers, Binds, Doubts, Publishes, Replaced
<1> QED
  BY <1>1, <1>2, <1>3, <1>4, TaskStep DEF Covered, histories

LEMMA GetOrRecreateStep ==
  ASSUME OInv, NEW m \in Managers, GetOrRecreate(m)
  PROVE  OInv'
<1>1. UNCHANGED <<remote, owner, slot, cleanup, fill, drain, retiring, pending, histories>>
  BY DEF GetOrRecreate, TaskOnly, rows, memory
<1>2. /\ Typed' /\ task[m].pc = "claimed"
      /\ \E pc \in {"releasing", "acquiring"} : Tasked(m, Moved(task[m], pc))
  BY GetOrRecreateDoes DEF OInv
<1> QED
  BY <1>1, <1>2, GoStep

LEMMA CheckConsumedStep ==
  ASSUME OInv, NEW m \in Managers, CheckConsumed(m)
  PROVE  OInv'
<1>1. UNCHANGED <<remote, owner, slot, cleanup, fill, drain, pending>>
  BY DEF CheckConsumed, TaskOnly, rows
<1>2. /\ Typed' /\ task[m].pc = "checking"
      /\ \/ Publishing(m, task[m].current) /\ UNCHANGED histories
         \/ Tasked(m, Moved(task[m], "acquiring")) /\ UNCHANGED <<retiring, histories>>
         \/ retiring' = retiring /\ Fails(m)
  BY CheckConsumedDoes DEF OInv
<1>3. CASE Publishing(m, task[m].current) /\ UNCHANGED histories
  <2>1. task[m].current \in Sandboxes /\ task[m].current # None /\ task[m] \in Tasks
    BY <1>2 DEF OInv, Typed, TaskOK, TaskShape, Tasks, Names
  <2>2. Latest(task[m]) = task[m].current
    BY <2>1 DEF Latest
  <2>3. \A x \in Replaced(task[m]) : x # task[m].current => ~HasHome(x)
    BY <1>2, <2>2 DEF HasHome, Outdated, Working, OInv, Safe, HomesOK
  <2> QED
    BY <1>1, <1>2, <1>3, <2>1, <2>3, PublishStep
<1>4. CASE Tasked(m, Moved(task[m], "acquiring")) /\ UNCHANGED <<retiring, histories>>
  BY <1>1, <1>2, <1>4, GoStep
<1>5. CASE retiring' = retiring /\ Fails(m)
  BY <1>1, <1>2, <1>5, FailStep DEF Working
<1> QED
  BY <1>2, <1>3, <1>4, <1>5

LEMMA ReconcileStep ==
  ASSUME OInv, NEW m \in Managers, Reconcile(m)
  PROVE  OInv'
<1>1. UNCHANGED <<remote, owner, slot, cleanup, fill, drain, pending>>
  BY DEF Reconcile, TaskOnly, rows
<1>2. /\ Typed' /\ task[m].pc = "reconciling" /\ task[m].owner \in Owners /\ task[m].candidate \in Sandboxes
      /\ \/ /\ owner[task[m].owner].sandbox = task[m].candidate
            /\ Publishing(m, task[m].candidate) /\ UNCHANGED histories
         \/ /\ owner[task[m].owner].sandbox # task[m].candidate
            /\ retiring'[m] = retiring[m] \cup {task[m].candidate}
            /\ \A n \in Managers : n # m => retiring'[n] = retiring[n]
            /\ Fails(m)
         \/ retiring' = retiring /\ Fails(m)
  BY ReconcileDoes DEF OInv
<1>3. CASE /\ owner[task[m].owner].sandbox = task[m].candidate
           /\ Publishing(m, task[m].candidate) /\ UNCHANGED histories
  <2>1. HasHome(task[m].candidate)
    BY <1>2, <1>3 DEF HasHome
  <2>2. \A x \in Replaced(task[m]) : x # task[m].candidate => ~HasHome(x)
    BY <1>2, <1>3 DEF HasHome, Outdated, Working, OInv, Safe, HomesOK
  <2> QED
    BY <1>1, <1>2, <1>3, <2>1, <2>2, PublishStep
<1>4. CASE /\ owner[task[m].owner].sandbox # task[m].candidate
           /\ retiring'[m] = retiring[m] \cup {task[m].candidate}
           /\ \A n \in Managers : n # m => retiring'[n] = retiring[n]
           /\ Fails(m)
  <2>1. PICK c \in Sandboxes : c = task[m].candidate
    BY <1>2
  <2>2. Doubts(m, c)
    BY <1>2, <2>1 DEF Doubts
  <2>3. ~Loose(c)
    <3>1. \A n \in Managers : ~Publishes(n, c) /\ ~Binds(n, c)
      BY <2>2 DEF Binds, Doubts, OneHand, OInv, Safe, HomesOK
    <3>2. remote[c] # "unused"
      BY <2>2 DEF OneHand, OInv, Safe, HomesOK
    <3> QED
      BY <3>1, <3>2 DEF Loose
  <2>4. ~HasHome(c)'
    BY <1>1, <1>2, <1>4, <2>1 DEF HasHome, InDoubt, OInv, Safe, HomesOK
  <2>5. \A s \in Sandboxes : s \in retiring'[m] \ retiring[m] => s = c
    BY <1>4, <2>1
  <2> QED
    BY <1>1, <1>2, <1>4, <2>3, <2>4, <2>5, FailStep DEF Working
<1>5. CASE retiring' = retiring /\ Fails(m)
  BY <1>1, <1>2, <1>5, FailStep DEF Working
<1> QED
  BY <1>2, <1>3, <1>4, <1>5

LEMMA DeleteStep ==
  ASSUME OInv, NEW m \in Managers, Delete(m)
  PROVE  OInv'
<1>1. UNCHANGED <<remote, owner, slot, cleanup, fill, drain, retiring, pending, histories>>
  BY DEF Delete, TaskOnly, rows
<1>2. /\ Typed' /\ task[m].pc = "claimed" /\ task[m].owner \in Owners
      /\ task'[m].pc = "deleting" /\ task'[m].owner = task[m].owner /\ task'[m].old = task[m].old
      /\ task'[m].current = task[m].current
      /\ task'[m].retire = pending[m][task[m].owner] \cup Some(task[m].old)
      /\ \A n \in Managers : n # m => task'[n] = task[n]
  BY DeleteDoes DEF OInv
<1>3. RowsQuiet /\ MemoryQuiet /\ RemoteQuiet
  BY <1>1, <1>2 DEF RowsQuiet, MemoryQuiet, RemoteQuiet
<1>4. TaskQuiet(m)
  BY <1>2 DEF TaskQuiet, Replaced
<1>5. \A s \in Sandboxes : HasHome(s)' <=> HasHome(s)
  BY <1>1 DEF HasHome
<1>6. \A s \in Sandboxes : Answers(m, s) => Answers(m, s)'
  BY <1>1, <1>2 DEF Answers, Binds, Doubts, Publishes
<1> QED
  BY <1>1, <1>2, <1>3, <1>4, <1>5, <1>6, TaskStep DEF Covered, histories

LEMMA DeleteOneStep ==
  ASSUME OInv, NEW m \in Managers, DeleteOne(m)
  PROVE  OInv'
<1>1. UNCHANGED <<owner, slot, cleanup, fill, drain, retiring, histories>>
  BY DEF DeleteOne, TaskOnly, rows
<1>2. /\ Typed' /\ task[m].pc = "deleting" /\ task[m].owner \in Owners
      /\ \E s \in Sandboxes :
           /\ Gone(s)
           /\ \/ /\ remote'[s] = "gone" /\ pending' = pending
                 /\ task'[m].pc = "deleting" /\ task'[m].owner = task[m].owner /\ task'[m].old = task[m].old
                 /\ task'[m].current = task[m].current /\ task'[m].retire = task[m].retire \ {s}
                 /\ \A n \in Managers : n # m => task'[n] = task[n]
              \/ /\ Tasked(m, Moved(task[m], "releasing"))
                 /\ pending'[m][task[m].owner] = task[m].retire
                 /\ \A n \in Managers, o \in Owners :
                      n # m \/ o # task[m].owner => pending'[n][o] = pending[n][o]
  BY DeleteOneDoes DEF OInv
<1>3. PICK s \in Sandboxes :
           /\ Gone(s)
           /\ \/ /\ remote'[s] = "gone" /\ pending' = pending
                 /\ task'[m].pc = "deleting" /\ task'[m].owner = task[m].owner /\ task'[m].old = task[m].old
                 /\ task'[m].current = task[m].current /\ task'[m].retire = task[m].retire \ {s}
                 /\ \A n \in Managers : n # m => task'[n] = task[n]
              \/ /\ Tasked(m, Moved(task[m], "releasing"))
                 /\ pending'[m][task[m].owner] = task[m].retire
                 /\ \A n \in Managers, o \in Owners :
                      n # m \/ o # task[m].owner => pending'[n][o] = pending[n][o]
  BY <1>2
<1>4. RemoteQuiet
  BY <1>3, GoneQuiet
<1>5. RowsQuiet
  BY <1>1 DEF RowsQuiet
<1>6. \A x \in Sandboxes : HasHome(x)' <=> HasHome(x)
  BY <1>1 DEF HasHome
<1>7. \A x \in pending[m][task[m].owner] \cup Some(task[m].old) :
        x \in Sandboxes /\ (x \in task[m].retire \/ remote[x] = "gone")
  BY <1>2 DEF OInv, Safe, DestructionOK, Typed, TaskOK, Tasks, MemoryOK, Some, Names
<1>8. CASE /\ remote'[s] = "gone" /\ pending' = pending
           /\ task'[m].pc = "deleting" /\ task'[m].owner = task[m].owner /\ task'[m].old = task[m].old
           /\ task'[m].current = task[m].current /\ task'[m].retire = task[m].retire \ {s}
           /\ \A n \in Managers : n # m => task'[n] = task[n]
  <2>1. MemoryQuiet /\ TaskQuiet(m)
    BY <1>2, <1>4, <1>8 DEF MemoryQuiet, RemoteQuiet, TaskQuiet, Replaced
  <2>2. \A x \in pending'[m][task'[m].owner] \cup Some(task'[m].old) : x \in task'[m].retire \/ remote'[x] = "gone"
    BY <1>4, <1>7, <1>8 DEF RemoteQuiet
  <2>3. \A x \in Sandboxes : Answers(m, x) => Answers(m, x)'
    BY <1>1, <1>2, <1>8 DEF Answers, Binds, Doubts, Publishes
  <2> QED
    BY <1>1, <1>2, <1>4, <1>5, <1>6, <1>8, <2>1, <2>2, <2>3, TaskStep DEF Covered, histories
<1>9. CASE /\ Tasked(m, Moved(task[m], "releasing"))
           /\ pending'[m][task[m].owner] = task[m].retire
           /\ \A n \in Managers, o \in Owners :
                n # m \/ o # task[m].owner => pending'[n][o] = pending[n][o]
  <2>1. task'[m].pc = "releasing" /\ \A n \in Managers : n # m => task'[n] = task[n]
    BY <1>9, MovedTask DEF OInv, Typed, TaskOK, Tasked, Places
  <2>2. MemoryQuiet /\ TaskQuiet(m)
    BY <1>2, <1>4, <1>9, <2>1 DEF MemoryQuiet, RemoteQuiet, TaskQuiet
  <2>3. \A n \in Managers : n # m => pending'[n] = pending[n]
    BY <1>2, <1>9 DEF OInv, Typed, MemoryOK
  <2>4. \A x \in Sandboxes : Answers(m, x) => Answers(m, x)' \/ remote[x] = "gone"
    <3>1. ASSUME NEW x \in Sandboxes, NEW o \in Owners, x \in pending[m][o]
          PROVE  Answers(m, x)' \/ remote[x] = "gone"
      BY <1>2, <1>7, <1>9, <3>1 DEF Answers
    <3> QED
      BY <1>1, <1>2, <3>1 DEF Answers, Binds, Doubts, Publishes
  <2> QED
    BY <1>1, <1>2, <1>4, <1>5, <1>6, <2>1, <2>2, <2>3, <2>4, TaskStep DEF Covered, histories, RemoteQuiet
<1> QED
  BY <1>3, <1>8, <1>9

LEMMA UnbindStep ==
  ASSUME OInv, NEW m \in Managers, Unbind(m)
  PROVE  OInv'
<1>1. UNCHANGED <<remote, slot, cleanup, fill, drain, retiring, histories>>
  BY DEF Unbind, TaskOnly
<1>2. /\ Typed' /\ task[m].pc = "deleting" /\ task[m].retire = {} /\ task[m].owner \in Owners
      /\ Tasked(m, Moved(task[m], "releasing"))
      /\ pending'[m][task[m].owner] = {}
      /\ \A n \in Managers, o \in Owners : n # m \/ o # task[m].owner => pending'[n][o] = pending[n][o]
      /\ \/ owner' = owner
         \/ owner[task[m].owner].claim = m /\ Rebound(task[m].owner, None)
  BY UnbindDoes DEF OInv
<1>3. task'[m].pc = "releasing" /\ \A n \in Managers : n # m => task'[n] = task[n]
  BY <1>2, MovedTask DEF OInv, Typed, TaskOK, Tasked, Places
<1>4. RowsQuiet
  BY <1>1, <1>2, <1>3 DEF RowsQuiet, Rebound
<1>5. MemoryQuiet /\ TaskQuiet(m) /\ RemoteQuiet
  BY <1>1, <1>2, <1>3 DEF MemoryQuiet, RemoteQuiet, TaskQuiet
<1>6. \A n \in Managers : n # m => pending'[n] = pending[n]
  BY <1>2 DEF OInv, Typed, MemoryOK
<1>7. \A x \in pending[m][task[m].owner] \cup Some(task[m].old) : remote[x] = "gone"
  BY <1>2 DEF OInv, Safe, DestructionOK
<1>8. ASSUME NEW x \in Sandboxes, HasHome(x), ~HasHome(x)' PROVE remote[x] = "gone"
  <2>1. owner[task[m].owner].claim = m /\ owner[task[m].owner].sandbox = x
    BY <1>1, <1>2, <1>8 DEF HasHome, Rebound
  <2>2. x = task[m].old /\ x # None
    BY <1>2, <2>1, NamesAssumption DEF OInv, Safe, HomesOK, ClaimKnows, Latest, Typed, TaskOK, TaskShape
  <2> QED
    BY <1>7, <2>2 DEF Some
<1>9. \A x \in Sandboxes : Answers(m, x) => Answers(m, x)' \/ remote[x] = "gone"
  <2>1. ASSUME NEW x \in Sandboxes, NEW o \in Owners, x \in pending[m][o]
        PROVE  Answers(m, x)' \/ remote[x] = "gone"
    BY <1>2, <1>7, <2>1 DEF Answers
  <2> QED
    BY <1>1, <1>2, <2>1 DEF Answers, Binds, Doubts, Publishes
<1> QED
  BY <1>1, <1>2, <1>3, <1>4, <1>5, <1>6, <1>8, <1>9, TaskStep DEF Covered, histories, RemoteQuiet

LEMMA ReleaseOwnerStep ==
  ASSUME OInv, NEW m \in Managers, ReleaseOwner(m)
  PROVE  OInv'
<1>1. UNCHANGED <<remote, slot, cleanup, fill, drain, retiring, pending, histories>>
  BY DEF ReleaseOwner, TaskOnly, memory
<1>2. /\ Typed' /\ task[m].pc = "releasing" /\ Tasked(m, NoTask)
      /\ \A o \in Owners : owner'[o].sandbox = owner[o].sandbox /\ owner'[o].claim \in {owner[o].claim, None}
  BY ReleaseOwnerDoes DEF OInv
<1>3. task'[m].pc = "idle" /\ \A n \in Managers : n # m => task'[n] = task[n]
  BY <1>2, Idle DEF Tasked
<1>4. RowsQuiet /\ MemoryQuiet /\ RemoteQuiet /\ TaskQuiet(m)
  BY <1>1, <1>2, <1>3 DEF RowsQuiet, MemoryQuiet, RemoteQuiet, TaskQuiet
<1>5. \A s \in Sandboxes : HasHome(s)' <=> HasHome(s)
  BY <1>1, <1>2 DEF HasHome
<1>6. \A s \in Sandboxes : Answers(m, s) => Answers(m, s)'
  BY <1>1, <1>2, <1>3 DEF Answers, Binds, Doubts, Publishes
<1> QED
  BY <1>1, <1>2, <1>3, <1>4, <1>5, <1>6, TaskStep DEF Covered, histories

-----------------------------------------------------------------------------
(* The steps that make a task or give a sandbox its home.                   *)

LEMMA AcquireStep ==
  ASSUME OInv, NEW m \in Managers, NEW o \in Owners, NEW op \in {"get", "recreate", "delete"}, Acquire(m, o, op)
  PROVE  OInv'
<1>1. UNCHANGED <<remote, slot, cleanup, fill, drain, retiring, pending, histories>>
  BY DEF Acquire, TaskOnly, memory
<1>2. /\ Typed'
      /\ owner'[o].sandbox = owner[o].sandbox /\ owner'[o].claim = m
      /\ \A p \in Owners : p # o => owner'[p] = owner[p]
      /\ task'[m].pc = "claimed" /\ task'[m].owner = o /\ task'[m].old = owner[o].sandbox
      /\ task'[m].current = None /\ task'[m].retire = {}
      /\ \A n \in Managers : n # m => task'[n] = task[n]
      /\ task[m].pc = "idle"
  BY AcquireDoes DEF OInv
<1>3. \A p \in Owners : owner'[p].sandbox = owner[p].sandbox
  BY <1>2
<1>4. \A x \in Sandboxes : (Dooms(x)' <=> Dooms(x)) /\ (HasHome(x)' <=> HasHome(x))
  BY <1>1, <1>3 DEF Dooms, HasHome
<1>5. \A x \in Sandboxes : Former(x)' => Former(x) \/ HasHome(x)
  <2>1. \A x \in Sandboxes : x \in Replaced(task[m])' => x = owner[o].sandbox
    BY <1>2 DEF Replaced, Some
  <2> QED
    BY <1>1, <1>2, <2>1 DEF Former, HasHome, Replaced
<1>6. \A n \in Managers, x \in Sandboxes :
        /\ Binds(n, x)' <=> Binds(n, x)
        /\ Doubts(n, x)' <=> Doubts(n, x)
        /\ Publishes(n, x)' <=> Publishes(n, x)
  BY <1>1, <1>2 DEF Binds, Doubts, Publishes
<1>7. FreshEach' /\ OneHand'
  <2>1. \A x \in Sandboxes : Loose(x)' => Loose(x)
    BY <1>1, <1>6 DEF Loose
  <2>2. FreshEach'
    BY <1>4, <1>5, <2>1 DEF FreshEach, Fresh, OInv, Safe, HomesOK
  <2> QED
    BY <1>1, <1>6, <2>2 DEF OneHand, OInv, Safe, HomesOK
<1>8. OneHomeEach'
  BY <1>1, <1>3 DEF OneHomeEach, OInv, Safe, HomesOK
<1>9. \A n \in Managers : Outdated(n)'
  <2>1. Outdated(m)'
    <3>1. Latest(task[m])' = owner[o].sandbox
      BY <1>2 DEF Latest
    <3>2. \A x \in Replaced(task[m])' : x = owner[o].sandbox /\ x # None
      BY <1>2 DEF Replaced, Some
    <3> QED
      BY <1>1, <1>2, <1>3, <3>1, <3>2 DEF Outdated, OneHomeEach, OInv, Safe, HomesOK
  <2>2. \A n \in Managers : n # m => Outdated(n)'
    BY <1>1, <1>2, <1>3 DEF Outdated, Replaced, Latest, OInv, Safe, HomesOK
  <2> QED
    BY <2>1, <2>2
<1>10. \A n \in Managers : InDoubt(n)'
  BY <1>1, <1>2, <1>3 DEF InDoubt, OInv, Safe, HomesOK
<1>11. \A n \in Managers : ClaimKnows(n)' /\ SlotKnows(n)'
  <2>1. ClaimKnows(m)'
    BY <1>2 DEF ClaimKnows, Latest
  <2>2. \A n \in Managers : n # m => ClaimKnows(n)'
    BY <1>2 DEF ClaimKnows, Latest, Working, OInv, Safe, HomesOK, Typed, TaskOK, TaskShape, Tasks
  <2> QED
    BY <1>1, <2>1, <2>2 DEF SlotKnows, OInv, Safe, HomesOK
<1>12. HomesOK'
  BY <1>7, <1>8, <1>9, <1>10, <1>11 DEF HomesOK
<1>13. RemoteQuiet
  BY <1>1 DEF RemoteQuiet
<1>14. DestructionOK'
  BY <1>1, <1>2, <1>13, KeepDestruction DEF OInv, Safe
<1>15. \A n \in Managers, x \in Sandboxes : Answers(n, x) => Answers(n, x)'
  BY <1>1, <1>2 DEF Answers, Binds, Doubts, Publishes, Replaced
<1>16. AnsweredFor'
  BY <1>1, <1>4, <1>13, <1>15, KeepAnswered DEF OInv, Safe, Covered, histories
<1>17. Kept'
  BY <1>1, <1>4 DEF OInv, Safe, Kept, KeptEach, histories
<1> QED
  BY <1>2, <1>12, <1>14, <1>16, <1>17 DEF OInv, Safe

LEMMA CreateStep ==
  ASSUME OInv, NEW m \in Managers, Create(m)
  PROVE  OInv'
<1>1. UNCHANGED <<owner, slot, cleanup, fill, drain, retiring, pending>>
  BY DEF Create, TaskOnly, rows, memory
<1>2. /\ Typed' /\ task[m].pc = "creating"
      /\ \/ /\ UNCHANGED histories
            /\ \E s \in Sandboxes :
                 /\ remote[s] = "unused" /\ remote'[s] = "running"
                 /\ \A x \in Sandboxes : x # s => remote'[x] = remote[x]
                 /\ task'[m].pc = "binding" /\ task'[m].candidate = s
                 /\ task'[m].owner = task[m].owner /\ task'[m].old = task[m].old
                 /\ task'[m].current = task[m].current /\ task'[m].retire = task[m].retire
                 /\ \A n \in Managers : n # m => task'[n] = task[n]
         \/ remote' = remote /\ Fails(m)
  BY CreateDoes DEF OInv
<1>3. CASE remote' = remote /\ Fails(m)
  BY <1>1, <1>2, <1>3, FailStep DEF Working
<1>4. CASE /\ UNCHANGED histories
           /\ \E s \in Sandboxes :
                /\ remote[s] = "unused" /\ remote'[s] = "running"
                /\ \A x \in Sandboxes : x # s => remote'[x] = remote[x]
                /\ task'[m].pc = "binding" /\ task'[m].candidate = s
                /\ task'[m].owner = task[m].owner /\ task'[m].old = task[m].old
                /\ task'[m].current = task[m].current /\ task'[m].retire = task[m].retire
                /\ \A n \in Managers : n # m => task'[n] = task[n]
  <2>1. PICK s \in Sandboxes :
                /\ remote[s] = "unused" /\ remote'[s] = "running"
                /\ \A x \in Sandboxes : x # s => remote'[x] = remote[x]
                /\ task'[m].pc = "binding" /\ task'[m].candidate = s
                /\ task'[m].owner = task[m].owner /\ task'[m].old = task[m].old
                /\ task'[m].current = task[m].current /\ task'[m].retire = task[m].retire
                /\ \A n \in Managers : n # m => task'[n] = task[n]
    BY <1>4
  <2>2. \A n \in Managers : /\ Replaced(task[n])' = Replaced(task[n]) /\ Latest(task[n])' = Latest(task[n])
                            /\ task'[n].pc \in Working <=> task[n].pc \in Working
                            /\ task'[n].owner = task[n].owner
                            /\ task'[n].pc = "deleting" <=> task[n].pc = "deleting"
    BY <1>2, <2>1 DEF Replaced, Latest, Working
  <2>3. \A x \in Sandboxes : (Dooms(x)' <=> Dooms(x)) /\ (HasHome(x)' <=> HasHome(x))
    BY <1>1 DEF Dooms, HasHome
  <2>4. \A x \in Sandboxes : Former(x)' <=> Former(x)
    BY <1>1, <2>2 DEF Former
  <2>5. \A n \in Managers, x \in Sandboxes :
          /\ Binds(n, x)' <=> Binds(n, x) \/ (n = m /\ x = s)
          /\ Doubts(n, x)' <=> Doubts(n, x)
          /\ Publishes(n, x)' <=> Publishes(n, x)
    BY <1>1, <1>2, <2>1 DEF Binds, Doubts, Publishes
  <2>6. FreshEach'
    <3>1. \A x \in Sandboxes : Loose(x)' => Loose(x)
      BY <2>1, <2>5 DEF Loose
    <3> QED
      BY <2>3, <2>4, <3>1 DEF FreshEach, Fresh, OInv, Safe, HomesOK
  <2>7. OneHand'
    BY <2>1, <2>5 DEF OneHand, OInv, Safe, HomesOK
  <2>8. OneHomeEach' /\ \A n \in Managers : SlotKnows(n)'
    BY <1>1 DEF OneHomeEach, SlotKnows, OInv, Safe, HomesOK
  <2>9. \A n \in Managers : Outdated(n)'
    BY <1>1, <2>2 DEF Outdated, OInv, Safe, HomesOK
  <2>10. \A n \in Managers : InDoubt(n)' /\ ClaimKnows(n)'
    <3>1. \A n \in Managers : InDoubt(n)'
      BY <1>1, <1>2, <2>1 DEF InDoubt, OInv, Safe, HomesOK
    <3>2. \A n \in Managers : ClaimKnows(n)'
      BY <1>1, <1>2, <2>1, <2>2 DEF ClaimKnows, Working, OInv, Safe, HomesOK
    <3> QED
      BY <3>1, <3>2
  <2>11. HomesOK'
    BY <2>6, <2>7, <2>8, <2>9, <2>10 DEF HomesOK
  <2>12. DestructionOK'
    <3>1. \A n \in Managers : task[n].pc = "deleting" =>
            \A x \in pending[n][task[n].owner] \cup Some(task[n].old) : x \in Sandboxes
      BY DEF OInv, Typed, TaskOK, TaskShape, Tasks, MemoryOK, Some, Names
    <3>2. \A n \in Managers : drain[n].pc = "completing" => drain[n].sandbox \in Sandboxes
      BY DEF OInv, Typed, DrainOK, Drains, Names
    <3> QED
      BY <1>1, <2>1, <3>1, <3>2 DEF DestructionOK, OInv, Safe
  <2>13. AnsweredFor'
    <3>1. \A n \in Managers : n # m => \A x \in Sandboxes : Answers(n, x) => Answers(n, x)'
      BY <1>1, <2>1, SameAnswers
    <3>2. \A x \in Sandboxes : Answers(m, x) => Answers(m, x)'
      BY <1>1, <1>2, <2>1, <2>2, <2>5 DEF Answers
    <3>3. Answers(m, s)'
      BY <2>5 DEF Answers
    <3> QED
      BY <1>4, <2>1, <2>3, <3>1, <3>2, <3>3 DEF AnsweredFor, OInv, Safe, histories
  <2>14. Kept'
    BY <1>4, <2>3 DEF OInv, Safe, Kept, KeptEach, histories
  <2> QED
    BY <1>2, <2>11, <2>12, <2>13, <2>14 DEF OInv, Safe
<1> QED
  BY <1>2, <1>3, <1>4

\* consume_warm: a slot's sandbox becomes the owner's, and the task has its last binding to replace.
LEMMA TakeStep ==
  ASSUME OInv, Typed', NEW m \in Managers, NEW i \in Slots, NEW o \in Owners, o = task[m].owner,
         task[m].pc = "acquiring", owner[o].claim = m, slot[i].sandbox # None, slot[i].claim = None,
         Handed(o, i), UNCHANGED <<remote, cleanup, fill, drain, retiring, pending>>,
         (TookWarm(m, i) /\ UNCHANGED histories) \/ Fails(m)
  PROVE  OInv'
<1>1. PICK s \in Sandboxes : s = slot[i].sandbox
  BY DEF OInv, Typed, SlotOK, Rows, Names
<1>2. task[m] \in Tasks /\ task'[m] \in Tasks
  BY DEF OInv, Typed, TaskOK
<1>3. /\ task'[m].pc \in {"checking", "releasing"}
      /\ \A n \in Managers : n # m => task'[n] = task[n]
      /\ task'[m].pc = "checking" =>
           /\ task'[m].owner = o /\ task'[m].old = task[m].old /\ task'[m].current = s
           /\ task'[m].retire = task[m].retire \cup Some(task[m].current)
           /\ UNCHANGED histories
  <2>1. CASE Fails(m)
    BY <1>2, <2>1, MovedTask DEF Fails, Tasked, Places
  <2>2. CASE TookWarm(m, i) /\ UNCHANGED histories
    BY <1>1, <2>2 DEF TookWarm
  <2> QED
    BY <2>1, <2>2
<1>4. condemned' = condemned /\ left \subseteq left'
  BY ForgetDoes DEF Fails, histories
<1>5. s # None /\ owner[o].sandbox = Latest(task[m])
  BY <1>1 DEF Working, ClaimKnows, OInv, Safe, HomesOK
<1>6. \A p \in Owners : owner[p].sandbox # s
  BY <1>1, <1>5 DEF OneHomeEach, OInv, Safe, HomesOK
<1>7. \A j \in Slots : j # i => slot[j].sandbox # s
  BY <1>1, <1>5 DEF OneHomeEach, OInv, Safe, HomesOK
<1>8. OneHomeEach'
  BY <1>1, <1>6, <1>7 DEF Handed, OneHomeEach, OInv, Safe, HomesOK
<1>9. \A x \in Sandboxes : HasHome(x)' => HasHome(x)
  BY <1>1, NamesAssumption DEF HasHome, Handed
<1>10. \A x \in Sandboxes : HasHome(x) => HasHome(x)' \/ x = Latest(task[m])
  <2>1. HasHome(s)'
    BY <1>1 DEF HasHome, Handed
  <2> QED
    BY <1>1, <1>5, <2>1 DEF HasHome, Handed
<1>11. \A x \in Sandboxes : Dooms(x)' <=> Dooms(x)
  BY DEF Dooms
<1>12. task'[m].pc = "checking" => Replaced(task[m])' = Replaced(task[m]) \cup {s}
  BY <1>3, <1>5 DEF Replaced, Some
<1>13. \A x \in Sandboxes : Former(x)' => Former(x) \/ HasHome(x)
  <2>1. HasHome(s)
    BY <1>1 DEF HasHome
  <2> QED
    BY <1>3, <1>12, <2>1 DEF Former, Replaced, Working
<1>14. \A n \in Managers, x \in Sandboxes :
        /\ Binds(n, x)' <=> Binds(n, x)
        /\ Doubts(n, x)' <=> Doubts(n, x)
        /\ Publishes(n, x)' <=> Publishes(n, x)
  BY <1>3 DEF Binds, Doubts, Publishes
<1>15. FreshEach' /\ OneHand'
  <2>1. \A x \in Sandboxes : Loose(x)' => Loose(x)
    BY <1>14 DEF Loose
  <2>2. FreshEach'
    BY <1>9, <1>11, <1>13, <2>1 DEF FreshEach, Fresh, OInv, Safe, HomesOK
  <2> QED
    BY <1>14, <2>2 DEF OneHand, OInv, Safe, HomesOK
<1>16. \A n \in Managers : Outdated(n)'
  <2>1. ASSUME NEW n \in Managers, task[n].pc \in Working PROVE s \notin Replaced(task[n])
    BY <1>1, <2>1 DEF Outdated, OInv, Safe, HomesOK
  <2>2. \A n \in Managers : Replaced(task[n]) \subseteq Sandboxes /\ None \notin Replaced(task[n])
    BY NamesAssumption, ReplacedSandboxes DEF OInv, Typed, TaskOK
  <2>3. \A n \in Managers : n # m => Outdated(n)'
    BY <1>1, <1>3, <2>1, <2>2 DEF Outdated, Handed, Replaced, Latest, OInv, Safe, HomesOK
  <2>4. Outdated(m)'
    <3>1. SUFFICES ASSUME task'[m].pc = "checking", NEW x \in Replaced(task[m])'
                   PROVE  /\ \A j \in Slots : slot'[j].sandbox # x
                          /\ \A p \in Owners : owner'[p].sandbox = x => p = task'[m].owner /\ x = Latest(task[m])'
      BY <1>3 DEF Outdated, Working
    <3>2. Latest(task[m])' = s /\ task'[m].owner = o
      BY <1>3, <1>5, <3>1 DEF Latest
    <3>3. CASE x = s
      BY <1>1, <1>5, <1>6, <1>7, <3>2, <3>3 DEF Handed
    <3>4. CASE x \in Replaced(task[m]) /\ x # s
      <4>1. /\ \A j \in Slots : slot[j].sandbox # x
            /\ \A p \in Owners : owner[p].sandbox = x => p = o
        BY <3>4 DEF Outdated, Working, OInv, Safe, HomesOK
      <4>2. x # None
        BY <2>2, <3>4
      <4> QED
        BY <1>1, <3>4, <4>1, <4>2 DEF Handed
    <3> QED
      BY <1>12, <3>1, <3>3, <3>4
  <2> QED
    BY <2>3, <2>4
<1>17. \A n \in Managers : InDoubt(n)'
  <2>1. ASSUME NEW n \in Managers, task'[n].pc = "reconciling"
        PROVE  /\ \A j \in Slots : slot'[j].sandbox # task'[n].candidate
               /\ \A p \in Owners : owner'[p].sandbox = task'[n].candidate => p = task'[n].owner
    <3>1. task'[n] = task[n] /\ task[n].candidate # None
      BY <1>3, <2>1 DEF OInv, Typed, TaskOK, TaskShape
    <3>2. /\ \A j \in Slots : slot[j].sandbox # task[n].candidate
          /\ \A p \in Owners : owner[p].sandbox = task[n].candidate => p = task[n].owner
      BY <2>1, <3>1 DEF InDoubt, OInv, Safe, HomesOK
    <3> QED
      BY <3>1, <3>2 DEF Handed
  <2> QED
    BY <2>1 DEF InDoubt
<1>18. \A n \in Managers : ClaimKnows(n)'
  <2>1. ClaimKnows(m)'
    BY <1>1, <1>3, <1>5 DEF ClaimKnows, Latest, Handed, Working
  <2>2. \A n \in Managers : n # m => ClaimKnows(n)'
    BY <1>3 DEF ClaimKnows, Latest, Handed, Working, OInv, Safe, HomesOK, Typed, TaskOK, TaskShape, Tasks
  <2> QED
    BY <2>1, <2>2
<1>19. \A n \in Managers : SlotKnows(n)'
  BY NamesAssumption DEF SlotKnows, Handed, OInv, Safe, HomesOK, Typed, FillOK, FillShape
<1>20. HomesOK'
  BY <1>8, <1>15, <1>16, <1>17, <1>18, <1>19 DEF HomesOK
<1>21. RemoteQuiet
  BY DEF RemoteQuiet
<1>22. DestructionOK'
  BY <1>3, <1>21, KeepDestruction DEF OInv, Safe
<1>23. ASSUME NEW x \in Sandboxes, Covered(x) PROVE Covered(x)'
  <2>1. \A n \in Managers : n # m /\ Answers(n, x) => Answers(n, x)'
    BY <1>3, SameAnswers
  <2>2. HasHome(s)'
    BY <1>1 DEF HasHome, Handed
  <2>3. x \in Replaced(task[m]) => Covered(x)'
    <3>1. CASE Fails(m)
      <4>1. x \in Replaced(task[m]) => x \in KnownTo(task[m])
        BY <1>2, ReplacedSandboxes
      <4> QED
        BY <3>1, <4>1, ForgetDoes DEF Fails, Covered
    <3>2. CASE TookWarm(m, i)
      BY <1>3, <2>2, <3>2 DEF TookWarm, Covered, Answers, Replaced
    <3> QED
      BY <3>1, <3>2
  <2>4. Answers(m, x) => x \in Replaced(task[m]) \/ Covered(x)'
    <3>1. Answers(m, x) => \/ x \in Replaced(task[m]) \/ x \in retiring[m] \/ Publishes(m, x)
                           \/ \E p \in Owners : x \in pending[m][p]
      BY DEF Answers, Binds, Doubts
    <3> QED
      BY <1>14, <3>1 DEF Covered, Answers
  <2>5. x = Latest(task[m]) => x \in Replaced(task[m])
    BY NamesAssumption DEF Latest, Replaced, Some
  <2> QED
    BY <1>4, <1>10, <1>11, <1>23, <2>1, <2>3, <2>4, <2>5 DEF Covered
<1>24. AnsweredFor'
  BY <1>21, <1>23, KeepAnswered DEF OInv, Safe
<1>25. Kept'
  BY <1>4, <1>9, <1>11 DEF OInv, Safe, Kept, KeptEach
<1> QED
  BY <1>20, <1>22, <1>24, <1>25 DEF OInv, Safe

LEMMA ConsumeStep ==
  ASSUME OInv, NEW m \in Managers, Consume(m)
  PROVE  OInv'
<1>1. UNCHANGED <<remote, cleanup, fill, drain, retiring, pending>>
  BY DEF Consume, TaskOnly, memory
<1>2. /\ Typed' /\ task[m].pc = "acquiring"
      /\ \/ owner' = owner /\ slot' = slot /\ Fails(m)
         \/ /\ owner' = owner /\ slot' = slot /\ UNCHANGED histories
            /\ Tasked(m, Moved(task[m], "creating"))
         \/ /\ owner[task[m].owner].claim = m /\ task[m].owner \in Owners
            /\ \E i \in Slots :
                 /\ slot[i].sandbox # None /\ slot[i].claim = None
                 /\ Handed(task[m].owner, i)
                 /\ \/ TookWarm(m, i) /\ UNCHANGED histories
                    \/ Fails(m)
  BY ConsumeDoes DEF OInv
<1>3. CASE owner' = owner /\ slot' = slot /\ Fails(m)
  BY <1>1, <1>2, <1>3, FailStep DEF Working
<1>4. CASE /\ owner' = owner /\ slot' = slot /\ UNCHANGED histories
           /\ Tasked(m, Moved(task[m], "creating"))
  BY <1>1, <1>2, <1>4, GoStep
<1>5. CASE /\ owner[task[m].owner].claim = m /\ task[m].owner \in Owners
           /\ \E i \in Slots :
                /\ slot[i].sandbox # None /\ slot[i].claim = None
                /\ Handed(task[m].owner, i)
                /\ \/ TookWarm(m, i) /\ UNCHANGED histories
                   \/ Fails(m)
  <2>1. PICK i \in Slots :
                /\ slot[i].sandbox # None /\ slot[i].claim = None
                /\ Handed(task[m].owner, i)
                /\ \/ TookWarm(m, i) /\ UNCHANGED histories
                   \/ Fails(m)
    BY <1>5
  <2>2. PICK o \in Owners : o = task[m].owner
    BY <1>5
  <2>3. Handed(o, i)
    BY <2>1, <2>2
  <2> QED
    BY <1>1, <1>2, <1>5, <2>1, <2>2, <2>3, TakeStep
<1> QED
  BY <1>2, <1>3, <1>4, <1>5

\* bind_owner that commits, whether its answer arrives or not.
LEMMA RebindStep ==
  ASSUME OInv, Typed', NEW m \in Managers, NEW o \in Owners, NEW c \in Sandboxes, o = task[m].owner,
         c = task[m].candidate, task[m].pc = "binding", owner[o].claim = m, Rebound(o, c),
         UNCHANGED <<remote, slot, cleanup, fill, drain, pending, histories>>,
         \/ Publishing(m, c)
         \/ Tasked(m, Moved(task[m], "reconciling")) /\ retiring' = retiring
  PROVE  OInv'
<1>1. /\ task'[m].pc \in {"releasing", "reconciling"} /\ task'[m].owner = o /\ task'[m].old = task[m].old
      /\ task'[m].current = task[m].current /\ task'[m].candidate = c /\ task'[m].retire = task[m].retire
      /\ \A n \in Managers : n # m => task'[n] = task[n]
  BY MovedTask DEF OInv, Typed, TaskOK, Tasked, Places, Publishing
<1>2. /\ \A n \in Managers : retiring[n] \subseteq retiring'[n]
      /\ \A n \in Managers : n # m => retiring'[n] = retiring[n]
      /\ \A x \in Sandboxes : x \in retiring'[m] => x \in retiring[m] \/ (x \in Replaced(task[m]) /\ x # c)
      /\ task'[m].pc = "releasing" => Replaced(task[m]) \ {c} \subseteq retiring'[m]
  <2>1. CASE Publishing(m, c)
    BY <2>1 DEF Publishing
  <2>2. CASE Tasked(m, Moved(task[m], "reconciling")) /\ retiring' = retiring
    <3>1. task'[m].pc = "reconciling"
      BY <2>2, MovedTask DEF OInv, Typed, TaskOK, Tasked, Places
    <3> QED
      BY <2>2, <3>1
  <2> QED
    BY <2>1, <2>2
<1>3. condemned' = condemned /\ left' = left
  BY DEF histories
<1>4. Binds(m, c)
  BY DEF Binds
<1>5. ~HasHome(c) /\ ~Dooms(c) /\ ~Former(c)
  BY <1>4 DEF OInv, Safe, HomesOK, FreshEach, Fresh, Loose
<1>6. \A n \in Managers : task[n].pc \in Working => c \notin Replaced(task[n])
  BY <1>5 DEF Former
<1>7. Replaced(task[m])' = Replaced(task[m]) /\ Latest(task[m])' = Latest(task[m])
  BY <1>1 DEF Replaced, Latest
<1>8. owner[o].sandbox = Latest(task[m])
  BY DEF ClaimKnows, Working, OInv, Safe, HomesOK
<1>9. \A x \in Sandboxes : HasHome(x)' => HasHome(x) \/ x = c
  BY DEF HasHome, Rebound
<1>10. HasHome(c)' /\ \A x \in Sandboxes : HasHome(x) => HasHome(x)' \/ x = Latest(task[m])
  BY <1>8 DEF HasHome, Rebound
<1>11. \A x \in Sandboxes : x \in Replaced(task[m]) => ~HasHome(x)'
  <2>1. ASSUME NEW x \in Sandboxes, x \in Replaced(task[m]) PROVE ~HasHome(x)'
    <3>1. /\ \A i \in Slots : slot[i].sandbox # x
          /\ \A p \in Owners : owner[p].sandbox = x => p = o
      BY <2>1 DEF Outdated, Working, OInv, Safe, HomesOK
    <3>2. x # c
      BY <1>6, <2>1 DEF Working
    <3> QED
      BY <3>1, <3>2 DEF HasHome, Rebound
  <2> QED
    BY <2>1
<1>12. \A x \in Sandboxes : Dooms(x) => Dooms(x)'
  BY <1>2 DEF Dooms
<1>13. \A x \in Sandboxes : Dooms(x)' => Dooms(x) \/ (x \in Replaced(task[m]) /\ x # c)
  BY <1>2 DEF Dooms
<1>14. \A n \in Managers, x \in Sandboxes :
        /\ Binds(n, x)' <=> Binds(n, x) /\ n # m
        /\ Doubts(n, x)' => Doubts(n, x) \/ (n = m /\ x = c)
        /\ Publishes(n, x)' <=> Publishes(n, x)
  BY <1>1 DEF Binds, Doubts, Publishes
<1>15. FreshEach'
  <2>1. ASSUME NEW x \in Sandboxes, Loose(x)' PROVE Loose(x) /\ x # c
    <3>1. Loose(x)
      BY <1>14, <2>1 DEF Loose
    <3>2. ~Loose(c)'
      <4>1. remote[c] # "unused"
        BY <1>4 DEF OneHand, OInv, Safe, HomesOK
      <4>2. \A n \in Managers : ~Publishes(n, c) /\ (n # m => ~Binds(n, c))
        BY <1>4 DEF OneHand, OInv, Safe, HomesOK
      <4> QED
        BY <1>14, <4>1, <4>2 DEF Loose
    <3> QED
      BY <2>1, <3>1, <3>2
  <2>2. \A x \in Sandboxes : Former(x)' => Former(x)
    BY <1>1, <1>7 DEF Former, Replaced, Working
  <2>3. \A x \in Sandboxes : x \in Replaced(task[m]) => Former(x)
    BY DEF Former, Working
  <2> QED
    BY <1>9, <1>13, <2>1, <2>2, <2>3 DEF FreshEach, Fresh, OInv, Safe, HomesOK
<1>16. OneHand'
  BY <1>4, <1>14 DEF OneHand, OInv, Safe, HomesOK
<1>17. OneHomeEach'
  <2>1. (\A p \in Owners : owner[p].sandbox # c) /\ (\A i \in Slots : slot[i].sandbox # c)
    BY <1>5 DEF HasHome
  <2> QED
    BY <2>1 DEF Rebound, OneHomeEach, OInv, Safe, HomesOK
<1>18. \A n \in Managers : Outdated(n)'
  <2>1. \A n \in Managers : n # m => Outdated(n)'
    BY <1>1, <1>6 DEF Outdated, Rebound, Replaced, Latest, OInv, Safe, HomesOK
  <2>2. Outdated(m)'
    <3>1. \A x \in Replaced(task[m]) : /\ \A i \in Slots : slot[i].sandbox # x
                                       /\ \A p \in Owners : owner'[p].sandbox # x
      BY <1>6 DEF Outdated, Rebound, Working, OInv, Safe, HomesOK
    <3> QED
      BY <1>7, <3>1 DEF Outdated
  <2> QED
    BY <2>1, <2>2
<1>19. \A n \in Managers : InDoubt(n)'
  <2>1. InDoubt(m)'
    BY <1>1, <1>5 DEF InDoubt, HasHome, Rebound
  <2>2. ASSUME NEW n \in Managers, n # m PROVE InDoubt(n)'
    <3>1. task[n].pc = "reconciling" => task[n].candidate # c
      BY <1>4, <2>2 DEF OneHand, Doubts, OInv, Safe, HomesOK
    <3> QED
      BY <1>1, <2>2, <3>1 DEF InDoubt, Rebound, OInv, Safe, HomesOK
  <2> QED
    BY <2>1, <2>2
<1>20. \A n \in Managers : ClaimKnows(n)' /\ SlotKnows(n)'
  <2>1. ClaimKnows(m)'
    BY <1>1 DEF ClaimKnows, Working
  <2>2. \A n \in Managers : n # m => ClaimKnows(n)'
    BY <1>1 DEF ClaimKnows, Latest, Rebound, Working, OInv, Safe, HomesOK, Typed, TaskOK, TaskShape, Tasks
  <2> QED
    BY <2>1, <2>2 DEF SlotKnows, OInv, Safe, HomesOK
<1>21. HomesOK'
  BY <1>15, <1>16, <1>17, <1>18, <1>19, <1>20 DEF HomesOK
<1>22. RemoteQuiet
  BY DEF RemoteQuiet
<1>23. DestructionOK'
  BY <1>1, <1>22, KeepDestruction DEF OInv, Safe
<1>24. ASSUME NEW x \in Sandboxes, Covered(x) PROVE Covered(x)'
  <2>1. \A n \in Managers : n # m /\ Answers(n, x) => Answers(n, x)'
    BY <1>1, <1>2, SameAnswers
  <2>2. x \in Replaced(task[m]) => Covered(x)'
    <3>1. CASE task'[m].pc = "releasing"
      BY <1>2, <1>10, <3>1 DEF Covered, Dooms
    <3>2. CASE task'[m].pc = "reconciling"
      BY <1>7, <3>2 DEF Covered, Answers
    <3> QED
      BY <1>1, <3>1, <3>2
  <2>3. Answers(m, x) => x \in Replaced(task[m]) \/ Covered(x)'
    <3>1. Answers(m, x) => \/ x \in Replaced(task[m]) \/ x \in retiring[m] \/ Publishes(m, x) \/ x = c
                           \/ \E p \in Owners : x \in pending[m][p]
      BY DEF Answers, Binds, Doubts
    <3> QED
      BY <1>2, <1>10, <1>14, <3>1 DEF Covered, Answers
  <2>4. x = Latest(task[m]) => x \in Replaced(task[m])
    BY NamesAssumption DEF Latest, Replaced, Some
  <2> QED
    BY <1>3, <1>10, <1>12, <1>24, <2>1, <2>2, <2>3, <2>4 DEF Covered
<1>25. AnsweredFor'
  BY <1>22, <1>24, KeepAnswered DEF OInv, Safe
<1>26. Kept'
  BY <1>3, <1>5, <1>9, <1>11, <1>13 DEF OInv, Safe, Kept, KeptEach
<1> QED
  BY <1>21, <1>23, <1>25, <1>26 DEF OInv, Safe

LEMMA BindStep ==
  ASSUME OInv, NEW m \in Managers, Bind(m)
  PROVE  OInv'
<1>1. UNCHANGED <<remote, slot, cleanup, fill, drain, pending, histories>>
  BY DEF Bind, TaskOnly
<1>2. /\ Typed' /\ task[m].pc = "binding" /\ task[m].owner \in Owners /\ task[m].candidate \in Sandboxes
      /\ \/ /\ owner[task[m].owner].claim = m /\ Rebound(task[m].owner, task[m].candidate)
            /\ \/ Publishing(m, task[m].candidate)
               \/ Tasked(m, Moved(task[m], "reconciling")) /\ retiring' = retiring
         \/ Tasked(m, Moved(task[m], "reconciling")) /\ owner' = owner /\ retiring' = retiring
  BY BindDoes DEF OInv
<1>3. CASE Tasked(m, Moved(task[m], "reconciling")) /\ owner' = owner /\ retiring' = retiring
  BY <1>1, <1>2, <1>3, GoStep
<1>4. CASE /\ owner[task[m].owner].claim = m /\ Rebound(task[m].owner, task[m].candidate)
           /\ \/ Publishing(m, task[m].candidate)
              \/ Tasked(m, Moved(task[m], "reconciling")) /\ retiring' = retiring
  <2>1. PICK o \in Owners, c \in Sandboxes : o = task[m].owner /\ c = task[m].candidate
    BY <1>2
  <2>2. Rebound(o, c) /\ (Publishing(m, c) \/ (Tasked(m, Moved(task[m], "reconciling")) /\ retiring' = retiring))
    BY <1>4, <2>1
  <2> QED
    BY <1>1, <1>2, <1>4, <2>1, <2>2, RebindStep
<1> QED
  BY <1>2, <1>3, <1>4

-----------------------------------------------------------------------------
(* The specification.                                                       *)

LEMMA OwnershipStarts == OwnershipInit => OInv
<1> SUFFICES ASSUME OwnershipInit PROVE OInv
  OBVIOUS
<1>1. EmptyRow \in Rows /\ EmptyRow.live = FALSE /\ EmptyRow.sandbox = None /\ EmptyRow.claim = None
  BY DEF EmptyRow, Rows, Names
<1>2. NoTask \in Tasks /\ TaskShape(NoTask) /\ NoTask.pc = "idle" /\ NoJob \in Fills /\ FillShape(NoJob)
      /\ NoJob \in Drains /\ NoJob.pc = "off"
  BY DEF NoTask, Tasks, TaskShape, NoJob, Fills, FillShape, Drains, Names, Places
<1>3. RemoteOK /\ MemoryOK
  BY DEF OwnershipInit, RemoteOK, MemoryOK
<1>4. OwnerOK /\ SlotOK /\ CleanupOK
  BY <1>1 DEF OwnershipInit, OwnerOK, SlotOK, CleanupOK, RowsOK
<1>5. TaskOK /\ FillOK /\ DrainOK
  BY <1>2 DEF OwnershipInit, TaskOK, FillOK, DrainOK
<1>6. Typed
  BY <1>3, <1>4, <1>5 DEF Typed
<1>7. /\ \A m \in Managers : task[m].pc = "idle" /\ fill[m].pc = "off" /\ drain[m].pc = "off"
      /\ \A o \in Owners : owner[o].sandbox = None
      /\ \A i \in Slots : slot[i].sandbox = None
      /\ \A s \in Sandboxes : cleanup[s].sandbox = None /\ remote[s] = "unused"
      /\ \A m \in Managers : retiring[m] = {} /\ \A o \in Owners : pending[m][o] = {}
  BY <1>1, <1>2 DEF OwnershipInit
<1>8. \A s \in Sandboxes : ~HasHome(s) /\ ~Dooms(s) /\ ~Former(s)
  BY <1>7, NamesAssumption DEF HasHome, Dooms, Former, Working
<1>9. OneHomeEach /\ OneHand /\ FreshEach
  BY <1>7, <1>8 DEF OneHomeEach, OneHand, FreshEach, Fresh, Binds, Doubts, Publishes
<1>10. \A m \in Managers : ClaimKnows(m) /\ SlotKnows(m) /\ Outdated(m) /\ InDoubt(m)
  BY <1>7 DEF ClaimKnows, SlotKnows, Outdated, InDoubt, Working
<1>11. DestructionOK /\ AnsweredFor /\ Kept
  BY <1>7, <1>8 DEF DestructionOK, AnsweredFor, Kept, KeptEach
<1> QED
  BY <1>6, <1>9, <1>10, <1>11 DEF OInv, Safe, HomesOK

LEMMA OwnershipSteps == OInv /\ [OwnershipNext]_sandboxVars => OInv'
<1> SUFFICES ASSUME OInv, [OwnershipNext]_sandboxVars PROVE OInv'
  OBVIOUS
<1>1. ASSUME NEW m \in Managers, NEW o \in Owners, NEW op \in {"get", "recreate", "delete"}, Acquire(m, o, op)
      PROVE  OInv'
  BY <1>1, AcquireStep
<1>2. ASSUME NEW m \in Managers,
             \/ GetOrRecreate(m) \/ Consume(m) \/ CheckConsumed(m) \/ Create(m) \/ Bind(m) \/ Reconcile(m)
             \/ Delete(m) \/ DeleteOne(m) \/ Unbind(m) \/ ReleaseOwner(m)
      PROVE  OInv'
  BY <1>2, GetOrRecreateStep, ConsumeStep, CheckConsumedStep, CreateStep, BindStep, ReconcileStep, DeleteStep,
     DeleteOneStep, UnbindStep, ReleaseOwnerStep
<1>3. ASSUME NEW m \in Managers,
             \/ GiveUpSlot(m) \/ CreateWarm(m) \/ PublishWarm(m) \/ Probe(m) \/ Republish(m) \/ Discard(m)
             \/ ReleaseSlot(m)
      PROVE  OInv'
  BY <1>3, QuietSlotSteps, CreateWarmStep, PublishWarmStep, DiscardStep
<1>4. ASSUME NEW m \in Managers,
             \/ DestroyQueued(m) \/ Complete(m) \/ ReleaseCleanup(m) \/ Crash(m) \/ BeginClose(m) \/ EndClose(m)
      PROVE  OInv'
  BY <1>4, CleanupSteps, ProcessSteps
<1>5. ASSUME NEW m \in Managers, NEW i \in Slots, ClaimSlot(m, i) PROVE OInv'
  BY <1>5, ClaimSlotStep
<1>6. ASSUME NEW m \in Managers, NEW s \in Sandboxes, Retire(m, s) \/ ClaimCleanup(m, s) PROVE OInv'
  BY <1>6, RetireStep, CleanupSteps
<1>7. ASSUME NEW m \in Managers, NEW o \in Owners, NEW s \in Sandboxes, ClosePending(m, o, s) PROVE OInv'
  BY <1>7, ClosePendingStep
<1>8. ASSUME \/ \E o \in Owners : ExpireOwner(o)
             \/ \E i \in Slots : ExpireSlot(i)
             \/ \E s \in Sandboxes : ExpireCleanup(s) \/ Break(s)
      PROVE  OInv'
  BY <1>8, CleanupSteps
<1>9. CASE UNCHANGED sandboxVars
  <2>1. UNCHANGED <<remote, owner, slot, cleanup, task, fill, drain, retiring, pending, up, left, condemned>>
    BY <1>9 DEF sandboxVars, rows, jobs, memory, histories
  <2>2. Typed'
    BY <2>1 DEF OInv, Typed, RemoteOK, OwnerOK, SlotOK, CleanupOK, TaskOK, FillOK, DrainOK, MemoryOK, RowsOK
  <2>3. Safe'
    BY <2>1, <2>2, BackgroundStep DEF RemoteQuiet, histories
  <2> QED
    BY <2>2, <2>3 DEF OInv
<1> QED
  BY <1>1, <1>2, <1>3, <1>4, <1>5, <1>6, <1>7, <1>8, <1>9 DEF OwnershipNext

\* The inductive invariant: beside the homes it says what each operation, maintenance pass
\* and cleanup pass may still believe when its claim is gone.
THEOREM OwnershipInductive == OwnershipSpec => []OInv
<1> QED
  BY OwnershipStarts, OwnershipSteps, PTL DEF OwnershipSpec

\* Every sandbox that runs is bound, warm, queued for cleanup, known to a live manager or
\* counted among those that a crash, a lost answer or a failed operation has left: no
\* interleaving of claims that expire, uncertain bindings and failed destructions forgets one.
THEOREM NothingLeaks == OwnershipSpec => []NothingIsLost
<1>1. ASSUME OInv PROVE NothingIsLost
  <2>1. ASSUME NEW s \in Sandboxes, remote[s] \in {"running", "broken"}
        PROVE  s \in Bound \cup Warm \cup Doomed \cup left \cup UNION {InMemory(m) : m \in Managers}
    <3>1. HasHome(s) \/ Dooms(s) \/ s \in left \/ \E m \in Managers : Answers(m, s)
      BY <1>1, <2>1 DEF OInv, Safe, AnsweredFor
    <3>2. HasHome(s) => s \in Bound \cup Warm
      BY NamesAssumption DEF HasHome, Bound, Warm
    <3>3. Dooms(s) => s \in Doomed
      BY DEF Dooms, Doomed, Queued
    <3>4. ASSUME NEW m \in Managers, Answers(m, s) PROVE s \in InMemory(m)
      <4>1. s \in retiring[m] \/ (\E o \in Owners : s \in pending[m][o]) => s \in InMemory(m)
        BY DEF InMemory
      <4>2. s \in KnownTo(task[m]) \/ s = fill[m].sandbox => s \in InMemory(m)
        BY NamesAssumption DEF InMemory, Some
      <4> QED
        BY <3>4, <4>1, <4>2, NamesAssumption DEF Answers, Binds, Doubts, Publishes, KnownTo, Replaced, Some
    <3> QED
      BY <3>1, <3>2, <3>3, <3>4
  <2> QED
    BY <2>1 DEF NothingIsLost
<1> QED
  BY <1>1, OwnershipInductive, PTL

LEMMA OneHomeHolds ==
  ASSUME OInv PROVE OwnershipTypeOK /\ OneHome
<1>1. OwnershipTypeOK
  <2>1. ASSUME NEW table, NEW keys, table \in [keys -> Rows], RowsOK(table), NEW k \in DOMAIN table
        PROVE  /\ table[k].sandbox \in Sandboxes \cup {None}
               /\ table[k].claim \in Managers \cup {None}
               /\ table[k].live => table[k].claim # None
    BY <2>1 DEF Rows, Names, RowsOK
  <2>2. \A table \in {owner, slot, cleanup} : \A k \in DOMAIN table :
          /\ table[k].sandbox \in Sandboxes \cup {None}
          /\ table[k].claim \in Managers \cup {None}
          /\ table[k].live => table[k].claim # None
    BY <2>1 DEF OInv, Typed, OwnerOK, SlotOK, CleanupOK
  <2>3. \A m \in Managers : task[m].pc # "idle" <=> task[m].owner \in Owners
    BY NamesAssumption DEF OInv, Typed, TaskOK, TaskShape, Tasks
  <2> QED
    BY <2>2, <2>3 DEF OwnershipTypeOK, OInv, Typed, RemoteOK, MemoryOK
<1>2. OneHome
  <2>1. OneHomeEach
    BY DEF OInv, Safe, HomesOK
  <2>2. Bound \cap Warm = {}
    BY <2>1 DEF OneHomeEach, Bound, Warm
  <2> QED
    BY <2>1, <2>2 DEF OneHomeEach, OneHome
<1> QED
  BY <1>1, <1>2

\* Whatever leases run out and whatever answers are lost, also the one to a publication, no
\* sandbox is bound to two owners, published in two slots, or bound and published at once.
THEOREM OneHomeAlways == OwnershipSpec => [](OwnershipTypeOK /\ OneHome)
<1> QED
  BY OneHomeHolds, OwnershipInductive, PTL

\* Where a publication of a warm sandbox has a certain answer, a sandbox has one home, and
\* what is queued for cleanup or in a cleanup task is neither bound nor warm, except the
\* sandbox of a failed deletion that its manager tried again at its close.
THEOREM HomesStaySafe == ASSUME ~UncertainPublish PROVE OwnershipSpec => []HomesAreSafe
<1>1. ASSUME OInv PROVE HomesAreSafe
  <2>1. OwnershipTypeOK /\ OneHome
    BY <1>1, OneHomeHolds
  <2>2. BoundIsKept
    <3>1. KeptEach
      BY <1>1 DEF OInv, Safe, Kept
    <3>2. ASSUME NEW s \in Doomed, s \in Bound \cup Warm PROVE s \in condemned
      <4>1. s \in Sandboxes /\ Dooms(s)
        BY <1>1, <3>2 DEF Doomed, Dooms, Queued, OInv, Typed, MemoryOK
      <4>2. HasHome(s)
        BY <3>2 DEF Bound, Warm, HasHome
      <4> QED
        BY <3>1, <4>1, <4>2 DEF KeptEach
    <3> QED
      BY <3>2 DEF BoundIsKept
  <2> QED
    BY <2>1, <2>2 DEF HomesAreSafe
<1> QED
  BY <1>1, OwnershipInductive, PTL
=============================================================================
