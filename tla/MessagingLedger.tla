--------------------------- MODULE MessagingLedger ---------------------------
(***************************************************************************)
(* The durable state of one Messaging thread and the transitions on it:    *)
(* runs and their producers' leases, the log of committed messages, the    *)
(* generations of the thread and their cleanup.                            *)
(*                                                                         *)
(* Modelled from _messaging_transition.py, which decides every transition, *)
(* and sqlalchemy.py, which applies it in one serialized transaction.  A   *)
(* transition that the code refuses with an error changes nothing, and is  *)
(* not a step.  Whoever was given a reference may use it at any time, late *)
(* and repeatedly: the actions are enabled for every reference.            *)
(***************************************************************************)
EXTENDS Integers, Sequences, FiniteSets

None == "none"
Never == -1

CONSTANTS
  Runs,           \* run identities of the thread
  SourceIds,      \* message IDs that producers derive, in their order
  ExternalIds,    \* message IDs of external publications
  LeaseDuration,  \* producer_lease_seconds
  Retention,      \* terminal_ttl_seconds, Never if generations are kept
  MaxMessages,    \* limits.max_thread_messages
  PurgeBatch,     \* records removed by one purge call
  MaxFence,       \* bound: producers of one generation
  MaxGeneration,  \* bound: generations of the thread
  MaxTime         \* bound: last instant of the storage clock

ASSUME LedgerAssumption ==
  /\ IsFiniteSet(Runs)
  /\ SourceIds \cap ExternalIds = {}
  /\ None \notin Runs
  /\ LeaseDuration \in Nat \ {0}
  /\ Retention \in Nat \cup {Never}
  /\ MaxMessages \in Nat
  /\ PurgeBatch \in Nat \ {0}
  /\ MaxFence \in Nat \ {0}
  /\ MaxGeneration \in Nat \ {0}
  /\ MaxTime \in Nat

VARIABLES
  now,          \* the storage clock
  generation,   \* current_generation of the thread, 0 before the first
  disposition,  \* of the current generation; the earlier ones are tombstones
  log,          \* messages of the current generation, in sequence order
  fence,        \* next_producer_fence
  active,       \* active_run_id, or None
  expiry,       \* retention_deadline, or Never
  control,      \* control_sequence
  run           \* run -> its record in the current generation

ledgerVars == <<now, generation, disposition, log, fence, active, expiry, control, run>>

ActiveStatuses == {"running", "cancel_requested"}
FinalStatuses == {"completed", "cancelled", "failed", "owner_lost"}
Sealed == {"deleting", "expiring"}
Tombstones == {"deleted", "expired"}
Reasons == Tombstones

Generations == 1..MaxGeneration

NoRun == [status |-> None, settling |-> FALSE, cancellable |-> FALSE, recoverable |-> FALSE,
          token |-> FALSE, fence |-> 0, lease |-> Never, start |-> 0, end |-> 0,
          ready |-> FALSE, closed |-> FALSE, checkpoint |-> 0]

LedgerInit ==
  /\ now = 0
  /\ generation = 0
  /\ disposition = None
  /\ log = <<>>
  /\ fence = 1
  /\ active = None
  /\ expiry = Never
  /\ control = 0
  /\ run = [r \in Runs |-> NoRun]

-----------------------------------------------------------------------------
(* What a transition reads.                                                 *)

Exists(r) == run[r].status # None
Final(r) == run[r].status \in FinalStatuses
LeaseActive(r) == run[r].token /\ run[r].lease > now

Open == disposition = "active"
Expired == expiry # Never /\ expiry <= now

\* Faulty variant: the fence of the reference is not compared.
OwnsAnyFence(r, g, f) ==
  /\ Open
  /\ generation = g
  /\ Exists(r)
  /\ run[r].token
  /\ LeaseActive(r)
  /\ ~Final(r)

\* A reference names a run, its generation and the fence of its producer.
\* The producer token is fresh for each fence, and is not modelled apart.
Owns(r, g, f) ==
  /\ Open
  /\ generation = g
  /\ Exists(r)
  /\ run[r].token
  /\ run[r].fence = f
  /\ LeaseActive(r)
  /\ ~Final(r)

LostRun(r) ==
  [run[r] EXCEPT !.end = Len(log), !.status = "owner_lost", !.settling = TRUE,
                 !.token = FALSE, !.lease = Never]

\* retention_action "start".
TerminalExpiry == IF Retention = Never THEN Never ELSE now + Retention

\* Ownership loss of r, with the lease released and retention started.
Lose(r) ==
  /\ run' = [run EXCEPT ![r] = LostRun(r)]
  /\ active' = IF active = r THEN None ELSE active
  /\ expiry' = TerminalExpiry
  /\ control' = control + 1
  /\ UNCHANGED <<now, generation, disposition, log, fence>>

-----------------------------------------------------------------------------
(* Preparing a run.                                                         *)

\* A new generation replaces none, or one that is deleted or expired.
StartsGeneration == disposition \in Tombstones \cup {None}

\* The run records once r is created, the expired producer before it lost.
ReplaceProducer(r, rec, canc) ==
  [q \in Runs |->
     IF q = r
     THEN [NoRun EXCEPT !.status = "running", !.cancellable = canc, !.recoverable = rec,
                        !.token = TRUE, !.fence = fence, !.lease = now + LeaseDuration,
                        !.start = Len(log), !.end = Len(log)]
     ELSE IF q = active THEN LostRun(q) ELSE run[q]]

\* prepare_run of an unknown run: refused while another producer is alive.
CreateRun(r, rec, canc) ==
  /\ Open
  /\ ~Exists(r)
  /\ active # None => ~LeaseActive(active)
  /\ fence <= MaxFence
  /\ run' = ReplaceProducer(r, rec, canc)
  /\ fence' = fence + 1
  /\ active' = r
  /\ expiry' = Never
  /\ control' = IF active # None THEN control + 1 ELSE control
  /\ UNCHANGED <<now, generation, disposition, log>>

CreateGeneration(r, rec, canc) ==
  /\ StartsGeneration
  /\ generation < MaxGeneration
  /\ generation' = generation + 1
  /\ disposition' = "active"
  /\ log' = <<>>
  /\ run' = [q \in Runs |->
               IF q = r
               THEN [NoRun EXCEPT !.status = "running", !.cancellable = canc,
                                  !.recoverable = rec, !.token = TRUE, !.fence = 1,
                                  !.lease = now + LeaseDuration]
               ELSE NoRun]
  /\ fence' = 2
  /\ active' = r
  /\ expiry' = Never
  /\ control' = 0
  /\ UNCHANGED now

\* prepare_run of a run whose producer's lease has ended.
Abandoned(r) == Open /\ Exists(r) /\ ~Final(r) /\ ~LeaseActive(r)

\* Faulty variant: a cancellation that is being settled is taken over too.
TakesOverSettling(r, rec) == run[r].recoverable /\ rec

TakesOver(r, rec) ==
  /\ ~(run[r].status = "cancel_requested" /\ run[r].settling)
  /\ run[r].recoverable
  /\ rec

\* A requested cancellation survives the takeover.
RecoverRun(r, rec, canc) ==
  /\ Abandoned(r)
  /\ TakesOver(r, rec)
  /\ fence <= MaxFence
  /\ run' = [run EXCEPT ![r].settling = FALSE, ![r].cancellable = canc, ![r].token = TRUE,
                        ![r].fence = fence, ![r].lease = now + LeaseDuration]
  /\ fence' = fence + 1
  /\ active' = r
  /\ expiry' = Never
  /\ control' = control + 1
  /\ UNCHANGED <<now, generation, disposition, log>>

LoseAbandoned(r, rec) ==
  /\ Abandoned(r)
  /\ ~TakesOver(r, rec)
  /\ Lose(r)

\* The prepare calls that make their caller the producer.
AcquireRun(r, rec, canc) ==
  \/ CreateGeneration(r, rec, canc)
  \/ CreateRun(r, rec, canc)
  \/ RecoverRun(r, rec, canc)

-----------------------------------------------------------------------------
(* Messages.                                                                *)

\* An ID names one message of the generation: repeated by its run it returns the
\* stored message, used by another run it is refused.
Committed(id) == \E i \in DOMAIN log : log[i].id = id

Entry(r, f, id, opens, closes) ==
  [run |-> r, id |-> id, fence |-> f, opens |-> opens, closes |-> closes]

\* append_message by the producer.  The checkpoint of a recoverable source, known by
\* the message that carries it, moves with that message.
AppendMessage(r, g, f, id, opens, closes) ==
  /\ Owns(r, g, f)
  /\ ~Committed(id)
  /\ Len(log) < MaxMessages
  /\ log' = Append(log, Entry(r, f, id, opens, closes))
  /\ run' = [run EXCEPT ![r].end = Len(log) + 1, ![r].ready = @ \/ opens,
                        ![r].closed = @ \/ closes,
                        ![r].checkpoint = IF run[r].recoverable THEN Len(log) + 1 ELSE @]
  /\ UNCHANGED <<now, generation, disposition, fence, active, expiry, control>>

PublicationOpen(r) ==
  /\ run[r].status = "running"
  /\ ~run[r].settling
  /\ ~run[r].closed
  /\ LeaseActive(r)
  /\ run[r].ready

\* publish_message by anyone who read the run's generation.
PublishMessage(r, g, id) ==
  /\ Open
  /\ generation = g
  /\ Exists(r)
  /\ ~Committed(id)
  /\ PublicationOpen(r)
  /\ Len(log) < MaxMessages
  /\ log' = Append(log, Entry(r, run[r].fence, id, FALSE, FALSE))
  /\ run' = [run EXCEPT ![r].end = Len(log) + 1]
  /\ UNCHANGED <<now, generation, disposition, fence, active, expiry, control>>

-----------------------------------------------------------------------------
(* Settlement, cancellation and ownership.                                  *)

BeginSettlement(r, g, f) ==
  /\ Owns(r, g, f)
  /\ ~run[r].settling
  /\ run' = [run EXCEPT ![r].settling = TRUE]
  /\ UNCHANGED <<now, generation, disposition, log, fence, active, expiry, control>>

\* Faulty variant: a completion ignores the cancellation that was accepted.
OutcomeIgnoringCancel(r, final) == final

\* A completion of a run whose cancellation was accepted is a failure.
Outcome(r, final) ==
  IF run[r].status = "cancel_requested" /\ final = "completed" THEN "failed" ELSE final

\* Faulty variant: the change is not announced.
FinishRunSilently(r, g, f, final) ==
  /\ Owns(r, g, f)
  /\ run' = [run EXCEPT ![r].end = Len(log), ![r].status = Outcome(r, final),
                        ![r].settling = TRUE, ![r].token = FALSE, ![r].lease = Never]
  /\ active' = IF active = r THEN None ELSE active
  /\ expiry' = TerminalExpiry
  /\ UNCHANGED <<now, generation, disposition, log, fence, control>>

FinishRun(r, g, f, final) ==
  /\ Owns(r, g, f)
  /\ run' = [run EXCEPT ![r].end = Len(log), ![r].status = Outcome(r, final),
                        ![r].settling = TRUE, ![r].token = FALSE, ![r].lease = Never]
  /\ active' = IF active = r THEN None ELSE active
  /\ expiry' = TerminalExpiry
  /\ control' = control + 1
  /\ UNCHANGED <<now, generation, disposition, log, fence>>

\* request_cancellation; one that comes after the settlement has no effect.
RequestCancellation(r, g) ==
  /\ Open
  /\ generation = g
  /\ run[r].status = "running"
  /\ ~run[r].settling
  /\ run[r].cancellable
  /\ run' = [run EXCEPT ![r].status = "cancel_requested"]
  /\ control' = control + 1
  /\ UNCHANGED <<now, generation, disposition, log, fence, active, expiry>>

\* renew_producer_ownership does not look at the generation's disposition.
RenewLease(r, g, f) ==
  /\ generation = g
  /\ Exists(r)
  /\ run[r].token
  /\ run[r].fence = f
  /\ LeaseActive(r)
  /\ ~Final(r)
  /\ run' = [run EXCEPT ![r].lease = now + LeaseDuration]
  /\ UNCHANGED <<now, generation, disposition, log, fence, active, expiry, control>>

\* reconcile_producer_ownership, by anyone who waits for the run.
Reconcile(r, g) ==
  /\ generation = g
  /\ Abandoned(r)
  /\ Lose(r)

-----------------------------------------------------------------------------
(* Cleanup of a generation.                                                 *)

SealFor(reason) == IF reason = "deleted" THEN "deleting" ELSE "expiring"

\* begin_generation_cleanup seals an inactive generation; a producer whose lease
\* has ended is lost in the same transition.
BeginCleanup(reason) ==
  /\ Open
  /\ active # None => ~LeaseActive(active)
  /\ reason = "expired" => Expired
  /\ disposition' = SealFor(reason)
  /\ run' = [q \in Runs |-> IF q = active THEN LostRun(q) ELSE run[q]]
  /\ active' = None
  /\ expiry' = Never
  /\ control' = control + 1
  /\ UNCHANGED <<now, generation, log, fence>>

Stored == {r \in Runs : Exists(r)}

\* purge_stream_generation removes one batch: messages first, then runs.
Purge(g) ==
  /\ g = generation
  /\ disposition \in Sealed
  /\ log # <<>> \/ Stored # {}
  /\ log' = SubSeq(log, PurgeBatch + 1, Len(log))
  /\ \E gone \in SUBSET Stored :
       /\ \/ Cardinality(gone) = PurgeBatch - Len(log)
          \/ Cardinality(gone) < PurgeBatch - Len(log) /\ gone = Stored
          \/ PurgeBatch <= Len(log) /\ gone = {}
       /\ run' = [r \in Runs |-> IF r \in gone THEN NoRun ELSE run[r]]
  /\ UNCHANGED <<now, generation, disposition, fence, active, expiry, control>>

\* Faulty variant: the tombstone is written before everything is removed.
FinishCleanupEarly(g, reason) ==
  /\ g = generation
  /\ disposition = SealFor(reason)
  /\ disposition' = reason
  /\ active' = None
  /\ expiry' = Never
  /\ control' = control + 1
  /\ UNCHANGED <<now, generation, log, fence, run>>

\* finish_generation_cleanup: the tombstone replaces an empty generation.
FinishCleanup(g, reason) ==
  /\ g = generation
  /\ disposition = SealFor(reason)
  /\ log = <<>>
  /\ Stored = {}
  /\ disposition' = reason
  /\ active' = None
  /\ expiry' = Never
  /\ control' = control + 1
  /\ UNCHANGED <<now, generation, log, fence, run>>

LedgerTick ==
  /\ now < MaxTime
  /\ now' = now + 1
  /\ UNCHANGED <<generation, disposition, log, fence, active, expiry, control, run>>

LedgerNext ==
  \/ \E r \in Runs, rec, canc \in BOOLEAN : AcquireRun(r, rec, canc)
  \/ \E r \in Runs, rec \in BOOLEAN : LoseAbandoned(r, rec)
  \/ \E r \in Runs, g \in Generations, f \in 1..MaxFence :
       \/ \E id \in SourceIds, opens, closes \in BOOLEAN :
            AppendMessage(r, g, f, id, opens, closes)
       \/ BeginSettlement(r, g, f)
       \/ \E final \in {"completed", "cancelled", "failed"} : FinishRun(r, g, f, final)
       \/ RenewLease(r, g, f)
  \/ \E r \in Runs, g \in Generations :
       \/ \E id \in ExternalIds : PublishMessage(r, g, id)
       \/ RequestCancellation(r, g)
       \/ Reconcile(r, g)
  \/ \E reason \in Reasons : BeginCleanup(reason)
  \/ \E g \in Generations : Purge(g) \/ \E reason \in Reasons : FinishCleanup(g, reason)
  \/ LedgerTick

LedgerSpec == LedgerInit /\ [][LedgerNext]_ledgerVars
-----------------------------------------------------------------------------
(* Properties.                                                              *)

RunRecords ==
  [status : ActiveStatuses \cup FinalStatuses \cup {None}, settling : BOOLEAN,
   cancellable : BOOLEAN, recoverable : BOOLEAN, token : BOOLEAN, fence : Nat,
   lease : Nat \cup {Never}, start : Nat, end : Nat, ready : BOOLEAN, closed : BOOLEAN,
   checkpoint : Nat]

Messages ==
  [run : Runs, id : SourceIds \cup ExternalIds, fence : Nat, opens : BOOLEAN, closes : BOOLEAN]

\* Types of the thread's durable state.
LedgerTypeOK ==
  /\ now \in Nat
  /\ generation \in 0..MaxGeneration
  /\ disposition \in {None, "active"} \cup Sealed \cup Tombstones
  /\ log \in Seq(Messages)
  /\ fence \in Nat
  /\ active \in Runs \cup {None}
  /\ expiry \in Nat \cup {Never}
  /\ control \in Nat
  /\ run \in [Runs -> RunRecords]

\* The thread's active_run_id names the one run that is not final, and nothing else
\* does: a run that another one replaced, or whose generation is being cleaned up,
\* has lost its producer.  prepare_run and begin_generation_cleanup rely on it.
OneProducer ==
  /\ active # None => Open /\ Exists(active) /\ ~Final(active)
  /\ \A r \in Runs : Exists(r) /\ ~Final(r) => active = r

\* An open generation without a producer always has a deadline by which it expires
\* (where the policy sets one), and one with a producer has none: neither is a thread
\* kept for ever, nor is one removed while messages are still being written.
IdleExpires ==
  Open => (expiry # Never <=> active = None /\ Retention # Never)

\* The messages of a run are exactly the positions of its slice, which is what a
\* follower of the run reads: nothing is written into the slice of another run.
SlicesArePartition ==
  Open =>
    \A r \in Runs :
      {i \in DOMAIN log : log[i].run = r} =
        IF Exists(r) THEN run[r].start + 1 .. run[r].end ELSE {}

\* Within a generation producers write one after the other: once a later producer has
\* written, one that was replaced never does, however late its call arrives.
ProducersInTurn ==
  \A i, j \in DOMAIN log : i < j => log[i].fence <= log[j].fence

\* External messages lie between the message that opens publication and the one that
\* closes it, and no message ID occurs twice.
PublicationWindow ==
  /\ \A i, j \in DOMAIN log : log[i].id = log[j].id => i = j
  /\ Open =>
       \A i \in DOMAIN log : log[i].id \in ExternalIds =>
         /\ \E j \in 1..i - 1 : log[j].run = log[i].run /\ log[j].opens
         /\ \A j \in 1..i - 1 : log[j].run = log[i].run => ~log[j].closes

Visible(r) == <<run[r].status, run[r].end>>

\* Whoever waits for a change compares the message and the control sequence: whatever
\* a follower or a canceller can see of a run changes one of them in the same commit.
ChangeIsAnnounced ==
  [][(Open /\ Open' /\ generation' = generation
        /\ \E r \in Runs : Exists(r) /\ Visible(r)' # Visible(r))
       => <<Len(log), control>>' # <<Len(log), control>>]_ledgerVars

\* An accepted cancellation is never answered by a completed run: neither by the
\* producer that was asked nor by one that takes the run over.
CancellationHonoured ==
  [][\A r \in Runs : run[r].status = "cancel_requested" /\ run'[r].status # None
       => run'[r].status \in {"cancel_requested", "cancelled", "failed", "owner_lost"}]_ledgerVars

\* The durable state of a thread implements the journal its followers are promised.
Journal == INSTANCE RunJournal WITH
  Outcomes <- FinalStatuses,
  era <- generation,
  sealed <- ~Open,
  journal <- [i \in DOMAIN log |-> log[i].run],
  state <- [r \in Runs |-> IF ~Exists(r) THEN "absent"
                           ELSE IF Final(r) THEN run[r].status ELSE "open"]

\* Every transition is one of the journal's, or is invisible to its readers.
JournalSpec == Journal!JournalSpec
\* What every transition of the ledger relies on, and keeps: the state is well formed, one
\* producer at most, a deadline whenever there is none, slices that partition the log, and
\* messages in the order of their producers and inside their publication window.
LedgerInvariant ==
  /\ LedgerTypeOK
  /\ OneProducer
  /\ IdleExpires
  /\ SlicesArePartition
  /\ ProducersInTurn
  /\ PublicationWindow
=============================================================================
