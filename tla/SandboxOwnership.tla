-------------------------- MODULE SandboxOwnership --------------------------
(***************************************************************************)
(* Ownership of remote sandboxes (tinkerfin-sandbox, lifecycle).  Managers *)
(* in several processes share a State with one row per owner, per warm     *)
(* slot and per sandbox to clean up.  A row is changed under a claim with  *)
(* a lease; the sandboxes themselves are created and destroyed at a remote *)
(* server that knows nothing of the claims.                                *)
(*                                                                         *)
(* A manager has one owner operation, one maintenance pass and one cleanup *)
(* pass at a time, so the token and the generation of a claim are the name *)
(* of the manager.  Handles are left out: a handle on a replaced sandbox   *)
(* only makes get and recreate fail, and makes delete destroy once more a  *)
(* sandbox that its replacement has given to cleanup.  So are purposes,    *)
(* expiry dates of sandboxes and notifications.                            *)
(***************************************************************************)
EXTENDS Naturals, FiniteSets

CONSTANTS
  Managers,
  Owners,
  Slots,
  Sandboxes,         \* bound: the identities the server will give out
  MaxFaults,         \* bound: lost leases, failed requests and crashes
  UncertainPublish   \* whether the answer to publish_warm may be lost

ASSUME SandboxAssumption == MaxFaults \in Nat /\ UncertainPublish \in BOOLEAN

VARIABLES
  remote,     \* [Sandboxes -> {unused, running, broken, gone}]
  owner,      \* [Owners -> row]: sandbox bound, manager that claims, lease alive
  slot,       \* [Slots -> row]: sandbox published
  cleanup,    \* [Sandboxes -> row]: sandbox, when it is queued
  task,       \* [Managers -> the owner operation]
  fill,       \* [Managers -> the warm maintenance]
  drain,      \* [Managers -> the cleanup pass]
  retiring,   \* [Managers -> sandboxes that a cleanup task will destroy]
  pending,    \* [Managers -> [Owners -> _pending_destroy_ids]]
  up,         \* [Managers -> {up, closing, down}]
  left,       \* history: sandboxes that an operation or a process forgot
  condemned,  \* history: sandboxes of failed deletions that a close has tried again
  faults

rows == <<owner, slot, cleanup>>
jobs == <<task, fill, drain>>
memory == <<retiring, pending, up>>
histories == <<left, condemned>>
sandboxVars == <<remote, rows, jobs, memory, histories, faults>>

None == "none"
ASSUME NamesAssumption == None \notin Managers \cup Owners \cup Slots \cup Sandboxes

EmptyRow == [sandbox |-> None, claim |-> None, live |-> FALSE]
NoTask == [op |-> None, pc |-> "idle", owner |-> None, old |-> None, current |-> None,
           candidate |-> None, retire |-> {}]
NoJob == [pc |-> "off", slot |-> None, sandbox |-> None]

OwnershipInit ==
  /\ remote = [s \in Sandboxes |-> "unused"]
  /\ owner = [o \in Owners |-> EmptyRow]
  /\ slot = [i \in Slots |-> EmptyRow]
  /\ cleanup = [s \in Sandboxes |-> EmptyRow]
  /\ task = [m \in Managers |-> NoTask]
  /\ fill = [m \in Managers |-> NoJob]
  /\ drain = [m \in Managers |-> NoJob]
  /\ retiring = [m \in Managers |-> {}]
  /\ pending = [m \in Managers |-> [o \in Owners |-> {}]]
  /\ up = [m \in Managers |-> "up"]
  /\ left = {}
  /\ condemned = {}
  /\ faults = 0

Fault == faults < MaxFaults /\ faults' = faults + 1
Some(s) == {s} \ {None}

Queued(s) == cleanup[s].sandbox # None
Bound == {owner[o].sandbox : o \in Owners} \ {None}
Warm == {slot[i].sandbox : i \in Slots} \ {None}
Doomed == {s \in Sandboxes : Queued(s)} \cup UNION {retiring[m] : m \in Managers}

\* What is forgotten is lost unless a row or a cleanup task still has it.
Forget(lost) ==
  /\ left' = left \cup (lost \ (Bound' \cup Warm' \cup Doomed'))
  /\ UNCHANGED condemned

-----------------------------------------------------------------------------
(* The rows.                                                                *)

Claimable(row) == row.claim = None \/ ~row.live
Claimed(row, m) == [row EXCEPT !.claim = m, !.live = TRUE]

\* current_claim_time: the claim is the row's and its lease has not run out.
Current(row, m) == row.claim = m /\ row.live

\* A release asks for the claim only, not for its lease.
Released(row, m) == IF row.claim = m THEN [row EXCEPT !.claim = None, !.live = FALSE] ELSE row

Enqueued(s) == IF Queued(s) THEN cleanup ELSE [cleanup EXCEPT ![s] = [EmptyRow EXCEPT !.sandbox = s]]

\* A lease runs out because its manager is slow, cut off or dead.
ExpireOwner(o) ==
  /\ owner[o].live /\ Fault
  /\ owner' = [owner EXCEPT ![o].live = FALSE]
  /\ UNCHANGED <<remote, slot, cleanup, jobs, memory, histories>>

ExpireSlot(i) ==
  /\ slot[i].live /\ Fault
  /\ slot' = [slot EXCEPT ![i].live = FALSE]
  /\ UNCHANGED <<remote, owner, cleanup, jobs, memory, histories>>

ExpireCleanup(s) ==
  /\ cleanup[s].live /\ Fault
  /\ cleanup' = [cleanup EXCEPT ![s].live = FALSE]
  /\ UNCHANGED <<remote, owner, slot, jobs, memory, histories>>

-----------------------------------------------------------------------------
(* get, recreate and delete under the owner's claim.                        *)

Goto(m, pc) == task' = [task EXCEPT ![m].pc = pc]
TaskOnly == UNCHANGED <<fill, drain>>

Acquire(m, o, op) ==
  /\ up[m] = "up" /\ task[m] = NoTask
  /\ Claimable(owner[o])
  /\ owner' = [owner EXCEPT ![o] = Claimed(@, m)]
  /\ task' = [task EXCEPT ![m] = [NoTask EXCEPT !.op = op, !.pc = "claimed", !.owner = o,
                                                !.old = owner[o].sandbox]]
  /\ TaskOnly /\ UNCHANGED <<remote, slot, cleanup, memory, histories, faults>>

\* _get_locked and recover_binding: the bound sandbox answers, or it is preserved, or the
\* recovery policy replaces it.  recreate always replaces it.  Both fail when the manager
\* has a handle and the owner no binding.
GetOrRecreate(m) ==
  /\ task[m].op \in {"get", "recreate"} /\ task[m].pc = "claimed"
  /\ \E pc \in {"releasing", "acquiring"} : Goto(m, pc)
  /\ TaskOnly /\ UNCHANGED <<remote, rows, memory, histories, faults>>

KnownTo(t) == t.retire \cup Some(t.old) \cup Some(t.current) \cup Some(t.candidate)

\* An operation that fails forgets every sandbox it knew of; the binding and the candidate
\* that was given to a cleanup task survive it.
FailTask(m) == Goto(m, "releasing") /\ Forget(KnownTo(task[m]))

\* consume_warm: the slot's sandbox becomes the owner's binding in one transaction.
TakeWarm(o, i) ==
  /\ owner' = [owner EXCEPT ![o].sandbox = slot[i].sandbox]
  /\ slot' = [slot EXCEPT ![i].sandbox = None]

Consume(m) ==
  LET t == task[m]
      ready == {i \in Slots : slot[i].sandbox # None /\ slot[i].claim = None} IN
  /\ t.pc = "acquiring"
  /\ TaskOnly /\ UNCHANGED <<remote, cleanup, memory>>
  /\ \/ /\ ~Current(owner[t.owner], m)
        /\ UNCHANGED <<owner, slot, faults>>
        /\ FailTask(m)
     \/ /\ Current(owner[t.owner], m) /\ ready = {}
        /\ Goto(m, "creating")
        /\ UNCHANGED <<owner, slot, histories, faults>>
     \/ /\ Current(owner[t.owner], m)
        /\ \E i \in ready :
             /\ TakeWarm(t.owner, i)
             /\ \/ /\ task' = [task EXCEPT ![m].pc = "checking", ![m].current = slot[i].sandbox,
                                          ![m].retire = @ \cup Some(t.current)]
                   /\ UNCHANGED <<histories, faults>>
                \/ Fault /\ FailTask(m)      \* committed, and the answer is lost

\* Faulty variant: the warm sandbox that the new one follows is not retired.
ReplacedOnce(t) == t.retire \cup Some(t.old)

\* What a sandbox that has been acquired replaces: the binding, and unusable warm sandboxes.
Replaced(t) == t.retire \cup Some(t.old) \cup Some(t.current)

\* _replace: what the new sandbox replaces belongs to cleanup tasks before anything else.
Publish(m, s) ==
  LET t == task[m] IN
  /\ retiring' = [retiring EXCEPT ![m] = @ \cup (Replaced(t) \ {s})]
  /\ Goto(m, "releasing")

\* The consumed sandbox is connected to and probed; a bad one is followed by the next.
CheckConsumed(m) ==
  LET t == task[m] IN
  /\ t.pc = "checking"
  /\ TaskOnly /\ UNCHANGED <<remote, rows, pending, up, faults>>
  /\ \/ remote[t.current] = "running" /\ Publish(m, t.current) /\ UNCHANGED histories
     \/ Goto(m, "acquiring") /\ UNCHANGED <<retiring, histories>>
     \/ UNCHANGED retiring /\ FailTask(m)

NewSandbox == {s \in Sandboxes : remote[s] = "unused"}

Create(m) ==
  /\ task[m].pc = "creating"
  /\ TaskOnly /\ UNCHANGED <<rows, memory, faults>>
  /\ \/ \E s \in NewSandbox :
          /\ remote' = [remote EXCEPT ![s] = "running"]
          /\ task' = [task EXCEPT ![m].pc = "binding", ![m].candidate = s]
          /\ UNCHANGED histories
     \/ UNCHANGED remote /\ FailTask(m)

\* bind_owner: done, refused by the fence, or of unknown outcome.
Bind(m) ==
  LET t == task[m] IN
  /\ t.pc = "binding"
  /\ \/ /\ Current(owner[t.owner], m)
        /\ owner' = [owner EXCEPT ![t.owner].sandbox = t.candidate]
        /\ \/ Publish(m, t.candidate) /\ UNCHANGED faults
           \/ Fault /\ Goto(m, "reconciling") /\ UNCHANGED retiring
     \/ /\ (~Current(owner[t.owner], m) /\ UNCHANGED faults) \/ Fault
        /\ Goto(m, "reconciling")
        /\ UNCHANGED <<owner, retiring>>
  /\ TaskOnly /\ UNCHANGED <<remote, slot, cleanup, pending, up, histories>>

\* Faulty variant: a candidate whose binding failed is destroyed without a look at the State.
Unconfirmed(m) == "not_authoritative"

\* _reconcile_candidate_binding
Resolution(m) ==
  IF owner[task[m].owner].sandbox = task[m].candidate THEN "authoritative" ELSE "not_authoritative"

Reconcile(m) ==
  LET t == task[m] IN
  /\ t.pc = "reconciling"
  /\ TaskOnly /\ UNCHANGED <<remote, rows, pending, up>>
  /\ \/ /\ Resolution(m) = "authoritative"
        /\ Publish(m, t.candidate) /\ UNCHANGED <<histories, faults>>
     \/ /\ Resolution(m) = "not_authoritative"
        /\ retiring' = [retiring EXCEPT ![m] = @ \cup {t.candidate}]
        /\ UNCHANGED faults
        /\ FailTask(m)
     \/ \* the read fails, or the caller is cancelled: the candidate is only disconnected
        Fault /\ UNCHANGED retiring /\ FailTask(m)

\* Remote destruction: confirmed, or failed whether it took effect or not.
Destroyed(s) == remote' = [remote EXCEPT ![s] = "gone"]
DestroyFails(s) == Fault /\ (UNCHANGED remote \/ Destroyed(s))

\* _delete_locked: every sandbox the owner may have is destroyed first.
Delete(m) ==
  LET t == task[m] IN
  /\ t.op = "delete" /\ t.pc = "claimed"
  /\ task' = [task EXCEPT ![m].pc = "deleting",
                          ![m].retire = pending[m][t.owner] \cup Some(t.old)]
  /\ TaskOnly /\ UNCHANGED <<remote, rows, retiring, pending, up, histories, faults>>

DeleteOne(m) ==
  LET t == task[m] IN
  /\ t.pc = "deleting"
  /\ \E s \in t.retire :
       \/ /\ Destroyed(s)
          /\ task' = [task EXCEPT ![m].retire = @ \ {s}]
          /\ UNCHANGED <<pending, faults>>
       \/ /\ DestroyFails(s)
          /\ pending' = [pending EXCEPT ![m][t.owner] = t.retire]
          /\ Goto(m, "releasing")
  /\ TaskOnly /\ UNCHANGED <<rows, retiring, up, histories>>

Unbind(m) ==
  LET t == task[m] IN
  /\ t.pc = "deleting" /\ t.retire = {}
  /\ pending' = [pending EXCEPT ![m][t.owner] = {}]
  /\ owner' = IF Current(owner[t.owner], m) THEN [owner EXCEPT ![t.owner].sandbox = None] ELSE owner
  /\ Goto(m, "releasing")
  /\ TaskOnly /\ UNCHANGED <<remote, slot, cleanup, retiring, up, histories, faults>>

ReleaseOwner(m) ==
  LET t == task[m] IN
  /\ t.pc = "releasing"
  /\ owner' = [owner EXCEPT ![t.owner] = Released(@, m)]
  /\ task' = [task EXCEPT ![m] = NoTask]
  /\ TaskOnly /\ UNCHANGED <<remote, slot, cleanup, memory, histories, faults>>

-----------------------------------------------------------------------------
(* The warm pool.                                                           *)

FillOnly == UNCHANGED <<task, drain>>

\* claim_warm_slot and claim_ready_warm_slot
ClaimSlot(m, i) ==
  /\ up[m] = "up" /\ fill[m] = NoJob
  /\ Claimable(slot[i])
  /\ slot' = [slot EXCEPT ![i] = Claimed(@, m)]
  /\ fill' = [fill EXCEPT ![m] = [pc |-> IF slot[i].sandbox = None THEN "creating" ELSE "probing",
                                  slot |-> i, sandbox |-> slot[i].sandbox]]
  /\ FillOnly /\ UNCHANGED <<remote, owner, cleanup, memory, histories, faults>>

\* A failed creation, an uncertain probe or the close of the manager ends the pass.
GiveUpSlot(m) ==
  /\ fill[m].pc \in {"creating", "probing", "republishing"}
  /\ fill' = [fill EXCEPT ![m].pc = "releasing"]
  /\ FillOnly /\ UNCHANGED <<remote, rows, memory, histories, faults>>

CreateWarm(m) ==
  /\ fill[m].pc = "creating"
  /\ \E s \in NewSandbox :
       /\ remote' = [remote EXCEPT ![s] = "running"]
       /\ fill' = [fill EXCEPT ![m].pc = "publishing", ![m].sandbox = s]
  /\ FillOnly /\ UNCHANGED <<rows, memory, histories, faults>>

Published(i, s) == slot' = [slot EXCEPT ![i] = [EmptyRow EXCEPT !.sandbox = s]]

\* publish_warm; a candidate that was not published for certain is destroyed.
PublishWarm(m) ==
  LET f == fill[m] IN
  /\ f.pc = "publishing"
  /\ \/ /\ Current(slot[f.slot], m)
        /\ Published(f.slot, f.sandbox)
        /\ fill' = [fill EXCEPT ![m] = NoJob]
        /\ UNCHANGED <<retiring, faults>>
     \/ /\ \/ ~Current(slot[f.slot], m) /\ UNCHANGED <<slot, faults>>
           \/ UncertainPublish /\ Fault /\ Current(slot[f.slot], m) /\ Published(f.slot, f.sandbox)
           \/ Fault /\ UNCHANGED slot
        /\ retiring' = [retiring EXCEPT ![m] = @ \cup {f.sandbox}]
        /\ fill' = [fill EXCEPT ![m].pc = "releasing"]
  /\ FillOnly /\ UNCHANGED <<remote, owner, cleanup, pending, up, histories>>

\* _reconcile_ready_warm_slot: published again, or discarded when it is unusable for certain.
Probe(m) ==
  LET f == fill[m] IN
  /\ f.pc = "probing"
  /\ fill' = [fill EXCEPT ![m].pc = IF remote[f.sandbox] = "running" THEN "republishing" ELSE "discarding"]
  /\ FillOnly /\ UNCHANGED <<remote, rows, memory, histories, faults>>

Republish(m) ==
  LET f == fill[m] IN
  /\ f.pc = "republishing"
  /\ IF Current(slot[f.slot], m)
     THEN Published(f.slot, f.sandbox) /\ fill' = [fill EXCEPT ![m] = NoJob]
     ELSE UNCHANGED slot /\ fill' = [fill EXCEPT ![m].pc = "releasing"]
  /\ FillOnly /\ UNCHANGED <<remote, owner, cleanup, memory, histories, faults>>

Discard(m) ==
  LET f == fill[m] IN
  /\ f.pc = "discarding"
  /\ IF Current(slot[f.slot], m)
     THEN /\ slot' = [slot EXCEPT ![f.slot] = EmptyRow]
          /\ cleanup' = Enqueued(f.sandbox)
          /\ fill' = [fill EXCEPT ![m] = NoJob]
     ELSE UNCHANGED <<slot, cleanup>> /\ fill' = [fill EXCEPT ![m].pc = "releasing"]
  /\ FillOnly /\ UNCHANGED <<remote, owner, memory, histories, faults>>

ReleaseSlot(m) ==
  /\ fill[m].pc = "releasing"
  /\ slot' = [slot EXCEPT ![fill[m].slot] = Released(@, m)]
  /\ fill' = [fill EXCEPT ![m] = NoJob]
  /\ FillOnly /\ UNCHANGED <<remote, owner, cleanup, memory, histories, faults>>

-----------------------------------------------------------------------------
(* Destruction of what nobody owns.                                         *)

\* _destroy_remote: a failure is queued for all managers; the queue is best effort.
Retire(m, s) ==
  /\ s \in retiring[m]
  /\ retiring' = [retiring EXCEPT ![m] = @ \ {s}]
  /\ UNCHANGED <<owner, slot, jobs, pending, up>>
  /\ \/ Destroyed(s) /\ UNCHANGED <<cleanup, histories, faults>>
     \/ DestroyFails(s) /\ cleanup' = Enqueued(s) /\ UNCHANGED histories
     \/ DestroyFails(s) /\ UNCHANGED cleanup /\ Forget({s})

DrainOnly == UNCHANGED <<task, fill>>

ClaimCleanup(m, s) ==
  /\ up[m] = "up" /\ drain[m] = NoJob
  /\ Queued(s) /\ Claimable(cleanup[s])
  /\ cleanup' = [cleanup EXCEPT ![s] = Claimed(@, m)]
  /\ drain' = [drain EXCEPT ![m] = [NoJob EXCEPT !.pc = "destroying", !.sandbox = s]]
  /\ DrainOnly /\ UNCHANGED <<remote, owner, slot, memory, histories, faults>>

\* A lost claim or the close of the manager stops the wait for the server, not the server.
DestroyQueued(m) ==
  LET s == drain[m].sandbox IN
  /\ drain[m].pc = "destroying"
  /\ \/ Destroyed(s) /\ drain' = [drain EXCEPT ![m].pc = "completing"] /\ UNCHANGED faults
     \/ DestroyFails(s) /\ drain' = [drain EXCEPT ![m].pc = "releasing"]
     \/ /\ ~Current(cleanup[s], m) \/ up[m] = "closing"
        /\ drain' = [drain EXCEPT ![m].pc = "releasing"]
        /\ UNCHANGED <<remote, faults>>
  /\ DrainOnly /\ UNCHANGED <<rows, memory, histories>>

\* complete_cleanup asks for the claim, not for its lease.
Complete(m) ==
  LET s == drain[m].sandbox IN
  /\ drain[m].pc = "completing"
  /\ cleanup' = IF cleanup[s].claim = m THEN [cleanup EXCEPT ![s] = EmptyRow] ELSE cleanup
  /\ drain' = [drain EXCEPT ![m] = NoJob]
  /\ DrainOnly /\ UNCHANGED <<remote, owner, slot, memory, histories, faults>>

ReleaseCleanup(m) ==
  LET s == drain[m].sandbox IN
  /\ drain[m].pc = "releasing"
  /\ cleanup' = [cleanup EXCEPT ![s] = Released(@, m)]
  /\ drain' = [drain EXCEPT ![m] = NoJob]
  /\ DrainOnly /\ UNCHANGED <<remote, owner, slot, memory, histories, faults>>

-----------------------------------------------------------------------------
(* The server and the processes.                                            *)

\* A sandbox fails or is lost at the server.
Break(s) ==
  /\ remote[s] = "running" /\ Fault
  /\ \E to \in {"broken", "gone"} : remote' = [remote EXCEPT ![s] = to]
  /\ UNCHANGED <<rows, jobs, memory, histories>>

\* What the memory of a process knows.
InMemory(m) ==
  retiring[m] \cup KnownTo(task[m]) \cup Some(fill[m].sandbox) \cup UNION {pending[m][o] : o \in Owners}

ForgetProcess(m) ==
  /\ task' = [task EXCEPT ![m] = NoTask]
  /\ fill' = [fill EXCEPT ![m] = NoJob]
  /\ drain' = [drain EXCEPT ![m] = NoJob]
  /\ retiring' = [retiring EXCEPT ![m] = {}]
  /\ pending' = [pending EXCEPT ![m] = [o \in Owners |-> {}]]
  /\ up' = [up EXCEPT ![m] = "down"]

Crash(m) ==
  /\ up[m] # "down" /\ Fault
  /\ UNCHANGED <<remote, rows>>
  /\ ForgetProcess(m)
  /\ Forget(InMemory(m))

\* aclose: operations and cleanup tasks finish first, bindings and slots stay.
BeginClose(m) ==
  /\ up[m] = "up" /\ Fault
  /\ up' = [up EXCEPT ![m] = "closing"]
  /\ UNCHANGED <<remote, rows, jobs, retiring, pending, histories>>

Settled(m) == task[m] = NoTask /\ fill[m] = NoJob /\ drain[m] = NoJob /\ retiring[m] = {}

\* The sandboxes of failed deletions are destroyed once more, bound or not.
ClosePending(m, o, s) ==
  /\ up[m] = "closing" /\ Settled(m)
  /\ s \in pending[m][o]
  /\ \/ Destroyed(s) /\ UNCHANGED <<cleanup, faults>>
     \/ DestroyFails(s) /\ cleanup' = Enqueued(s)
  /\ pending' = [pending EXCEPT ![m][o] = @ \ {s}]
  /\ condemned' = condemned \cup {s}
  /\ UNCHANGED <<owner, slot, jobs, retiring, up, left>>

EndClose(m) ==
  /\ up[m] = "closing" /\ Settled(m)
  /\ \A o \in Owners : pending[m][o] = {}
  /\ ForgetProcess(m)
  /\ UNCHANGED <<remote, rows, histories, faults>>

OwnershipNext ==
  \/ \E m \in Managers, o \in Owners, op \in {"get", "recreate", "delete"} : Acquire(m, o, op)
  \/ \E m \in Managers :
       \/ GetOrRecreate(m) \/ Consume(m) \/ CheckConsumed(m) \/ Create(m) \/ Bind(m) \/ Reconcile(m)
       \/ Delete(m) \/ DeleteOne(m) \/ Unbind(m) \/ ReleaseOwner(m)
       \/ GiveUpSlot(m) \/ CreateWarm(m) \/ PublishWarm(m) \/ Probe(m) \/ Republish(m) \/ Discard(m)
       \/ ReleaseSlot(m) \/ DestroyQueued(m) \/ Complete(m) \/ ReleaseCleanup(m)
       \/ Crash(m) \/ BeginClose(m) \/ EndClose(m)
  \/ \E m \in Managers, i \in Slots : ClaimSlot(m, i)
  \/ \E m \in Managers, s \in Sandboxes : Retire(m, s) \/ ClaimCleanup(m, s)
  \/ \E m \in Managers, o \in Owners, s \in Sandboxes : ClosePending(m, o, s)
  \/ \E o \in Owners : ExpireOwner(o)
  \/ \E i \in Slots : ExpireSlot(i)
  \/ \E s \in Sandboxes : ExpireCleanup(s) \/ Break(s)

OwnershipSpec == OwnershipInit /\ [][OwnershipNext]_sandboxVars

-----------------------------------------------------------------------------
(* Properties.                                                              *)

\* Every row and every job names what it may name.
OwnershipTypeOK ==
  /\ remote \in [Sandboxes -> {"unused", "running", "broken", "gone"}]
  /\ \A table \in {owner, slot, cleanup} : \A k \in DOMAIN table :
       /\ table[k].sandbox \in Sandboxes \cup {None}
       /\ table[k].claim \in Managers \cup {None}
       /\ table[k].live => table[k].claim # None
  /\ retiring \in [Managers -> SUBSET Sandboxes]
  /\ \A m \in Managers : task[m].pc # "idle" <=> task[m].owner \in Owners

\* No two owners, slots, or an owner and a slot have the same sandbox, whatever claims are
\* lost while warm sandboxes are handed over.
OneHome ==
  /\ \A o, p \in Owners : o # p /\ owner[o].sandbox = owner[p].sandbox => owner[o].sandbox = None
  /\ \A i, j \in Slots : i # j /\ slot[i].sandbox = slot[j].sandbox => slot[i].sandbox = None
  /\ Bound \cap Warm = {}

\* A sandbox on its way to destruction is neither bound nor warm, except the one of a failed
\* deletion that its manager tried again at its close.
BoundIsKept == Doomed \cap (Bound \cup Warm) \subseteq condemned

\* persistence-and-extensions.md: "After an uncertain network result, never destroy a Sandbox
\* that may already be the authoritative binding."
AuthoritativeIsKept == Doomed \cap Bound \subseteq condemned

\* Every sandbox that runs is bound, warm, queued, or in the hands of a live manager; the
\* others were left by a crash, a lost answer, or an operation that failed after it had
\* consumed a warm sandbox.
NothingIsLost ==
  \A s \in Sandboxes : remote[s] \in {"running", "broken"} =>
    s \in Bound \cup Warm \cup Doomed \cup left \cup UNION {InMemory(m) : m \in Managers}
\* A sandbox has one home and is safe there: OwnershipTypeOK, OneHome and BoundIsKept.
HomesAreSafe == OwnershipTypeOK /\ OneHome /\ BoundIsKept
=============================================================================
