--------------------------- MODULE MessagingProofs ---------------------------
(***************************************************************************)
(* For any runs, message IDs, limits and times: the ledger's invariant,    *)
(* what an accepted cancellation leads to, that changes are announced, and *)
(* that the ledger implements the journal.  For any producers, followers   *)
(* and source lengths: producer tasks and follow loops use the ledger by   *)
(* its own transitions; sources are committed whole and in order,          *)
(* cancellations are called once and come last, and a subscription ends at *)
(* the end of its run.                                                     *)
(***************************************************************************)
EXTENDS MessagingProducers, SequenceTheorems, TLAPS

-----------------------------------------------------------------------------
(* The ledger.                                                              *)

\* The fence of the active producer is the last one given out, and nothing in the
\* log carries a later one.
Fences ==
  /\ \A i \in DOMAIN log : log[i].fence < fence
  /\ active # None => run[active].fence = fence - 1

\* The slice of the active run reaches to the end of the log.
ActiveIsLast ==
  active # None => run[active].start <= run[active].end /\ run[active].end = Len(log)

\* What the flags of a run record about its messages.
Flags ==
  Open =>
    \A r \in Runs : Exists(r) =>
      /\ run[r].ready => \E j \in DOMAIN log : log[j].run = r /\ log[j].opens
      /\ ~run[r].closed => \A j \in DOMAIN log : log[j].run = r => ~log[j].closes

\* Nothing is left of a generation when its tombstone is written.
TombstonesAreEmpty ==
  disposition \in Tombstones \cup {None} => log = <<>> /\ \A r \in Runs : ~Exists(r)

LInv ==
  LedgerInvariant /\ Fences /\ ActiveIsLast /\ Flags /\ TombstonesAreEmpty

USE LedgerAssumption DEF None, Never, Generations

-----------------------------------------------------------------------------
(* The types.                                                               *)

LEMMA NoRunType == NoRun \in RunRecords
BY DEF NoRun, RunRecords, ActiveStatuses, FinalStatuses

\* Updates of a record keep its type.
LEMMA RecordTypes ==
  ASSUME NEW x \in RunRecords, NEW st \in ActiveStatuses \cup FinalStatuses, NEW se \in BOOLEAN,
         NEW c \in BOOLEAN, NEW t \in BOOLEAN, NEW f \in Nat, NEW l \in Nat \cup {Never},
         NEW e \in Nat
  PROVE  /\ [x EXCEPT !.end = e, !.status = st, !.settling = se, !.token = t, !.lease = l] \in RunRecords
         /\ [x EXCEPT !.settling = se, !.cancellable = c, !.token = t, !.fence = f, !.lease = l] \in RunRecords
         /\ [x EXCEPT !.settling = se] \in RunRecords
         /\ [x EXCEPT !.status = st] \in RunRecords
         /\ [x EXCEPT !.lease = l] \in RunRecords
         /\ [x EXCEPT !.end = e] \in RunRecords
<1> USE DEF RunRecords, ActiveStatuses, FinalStatuses
<1>1. [x EXCEPT !.end = e, !.status = st, !.settling = se, !.token = t, !.lease = l] \in RunRecords
  OBVIOUS
<1>2. [x EXCEPT !.settling = se, !.cancellable = c, !.token = t, !.fence = f, !.lease = l] \in RunRecords
  OBVIOUS
<1>3. [x EXCEPT !.settling = se] \in RunRecords
  OBVIOUS
<1>4. [x EXCEPT !.status = st] \in RunRecords
  OBVIOUS
<1>5. [x EXCEPT !.lease = l] \in RunRecords
  OBVIOUS
<1>6. [x EXCEPT !.end = e] \in RunRecords
  OBVIOUS
<1>7. QED BY <1>1, <1>2, <1>3, <1>4, <1>5, <1>6

LEMMA NewRunTypes ==
  ASSUME NEW c \in BOOLEAN, NEW rec \in BOOLEAN, NEW f \in Nat, NEW l \in Nat, NEW n \in Nat
  PROVE  /\ [NoRun EXCEPT !.status = "running", !.cancellable = c, !.recoverable = rec,
                         !.token = TRUE, !.fence = f, !.lease = l, !.start = n, !.end = n] \in RunRecords
         /\ [NoRun EXCEPT !.status = "running", !.cancellable = c, !.recoverable = rec,
                         !.token = TRUE, !.fence = f, !.lease = l] \in RunRecords
BY DEF NoRun, RunRecords, ActiveStatuses, FinalStatuses

LEMMA LogTypes ==
  ASSUME LedgerTypeOK
  PROVE  /\ Len(log) \in Nat
         /\ DOMAIN log = 1..Len(log)
         /\ \A i \in DOMAIN log : log[i] \in Messages
BY DEF LedgerTypeOK

LEMMA AppendedLog ==
  ASSUME LedgerTypeOK, NEW m \in Messages, log' = Append(log, m)
  PROVE  /\ log' \in Seq(Messages)
         /\ Len(log') = Len(log) + 1
         /\ DOMAIN log' = 1..Len(log) + 1
         /\ \A i \in 1..Len(log) : log'[i] = log[i]
         /\ log'[Len(log) + 1] = m
BY LogTypes DEF LedgerTypeOK

-----------------------------------------------------------------------------
(* What the transitions do, by kind.  The producer of r is at work:         *)

Working(r) == Open /\ active = r /\ run[r].status \in ActiveStatuses

\* The record of r changes, but neither its slice nor its flags.
Touches(r) ==
  /\ Working(r)
  /\ run' \in [Runs -> RunRecords]
  /\ \A q \in Runs \ {r} : run'[q] = run[q]
  /\ run'[r].status \in ActiveStatuses
  /\ run'[r].start = run[r].start /\ run'[r].end = run[r].end
  /\ run'[r].ready = run[r].ready /\ run'[r].closed = run[r].closed
  /\ run[r].status = "cancel_requested" => run'[r].status = "cancel_requested"
  /\ run'[r].status # run[r].status => control' = control + 1
  /\ control' \in Nat
  /\ UNCHANGED <<now, generation, disposition, log, active, expiry>>

Retains(r) == Touches(r) /\ run'[r].fence = run[r].fence /\ UNCHANGED fence

Fenced(r) == Touches(r) /\ run'[r].fence = fence /\ fence' = fence + 1

Writes(r, m) ==
  /\ Working(r)
  /\ m \in Messages /\ m.run = r /\ m.fence = run[r].fence
  /\ \A i \in DOMAIN log : log[i].id # m.id
  /\ m.id \in ExternalIds => run[r].ready /\ ~run[r].closed /\ ~m.opens /\ ~m.closes
  /\ log' = Append(log, m)
  /\ run' \in [Runs -> RunRecords]
  /\ \A q \in Runs \ {r} : run'[q] = run[q]
  /\ run'[r].status = run[r].status /\ run'[r].fence = run[r].fence
  /\ run'[r].start = run[r].start /\ run'[r].end = Len(log) + 1
  /\ run'[r].ready <=> run[r].ready \/ m.opens
  /\ run'[r].closed <=> run[r].closed \/ m.closes
  /\ UNCHANGED <<now, generation, disposition, fence, active, expiry, control>>

Ends(r) ==
  /\ Working(r)
  /\ run' \in [Runs -> RunRecords]
  /\ \A q \in Runs \ {r} : run'[q] = run[q]
  /\ run'[r].status \in FinalStatuses
  /\ run[r].status = "cancel_requested" => run'[r].status # "completed"
  /\ run'[r].start = run[r].start /\ run'[r].end = Len(log)
  /\ run'[r].ready = run[r].ready /\ run'[r].closed = run[r].closed
  /\ active' = None
  /\ expiry' = TerminalExpiry
  /\ control' = control + 1
  /\ UNCHANGED <<now, generation, disposition, log, fence>>

\* Only OneProducer tells whose turn it is.
LEMMA OwnerWorks ==
  ASSUME LedgerTypeOK, OneProducer, NEW r \in Runs, Exists(r), ~Final(r)
  PROVE  Working(r)
BY DEF LedgerTypeOK, OneProducer, Exists, Final, Working, RunRecords, ActiveStatuses, FinalStatuses

LEMMA TouchEffect ==
  ASSUME LedgerTypeOK, OneProducer, NEW r \in Runs, NEW g, NEW f,
         BeginSettlement(r, g, f) \/ RequestCancellation(r, g) \/ RenewLease(r, g, f)
  PROVE  Retains(r)
<1>0. Working(r)
  BY OwnerWorks DEF BeginSettlement, RequestCancellation, RenewLease, Owns, Exists, Final, FinalStatuses
<1>1. run \in [Runs -> RunRecords] /\ run[r] \in RunRecords /\ now + LeaseDuration \in Nat
      /\ control \in Nat
  BY DEF LedgerTypeOK
<1>2. CASE BeginSettlement(r, g, f)
  <2>1. run' = [run EXCEPT ![r] = [run[r] EXCEPT !.settling = TRUE]]
    BY <1>2, <1>1 DEF BeginSettlement
  <2>2. [run[r] EXCEPT !.settling = TRUE] \in RunRecords
    BY <1>1, RecordTypes DEF ActiveStatuses
  <2>3. QED BY <1>0, <1>1, <1>2, <2>1, <2>2 DEF BeginSettlement, Retains, Touches, Working, RunRecords
<1>3. CASE RequestCancellation(r, g)
  <2>1. run' = [run EXCEPT ![r] = [run[r] EXCEPT !.status = "cancel_requested"]]
    BY <1>3, <1>1 DEF RequestCancellation
  <2>2. [run[r] EXCEPT !.status = "cancel_requested"] \in RunRecords
    BY <1>1, RecordTypes DEF ActiveStatuses
  <2>3. QED
    BY <1>0, <1>1, <1>3, <2>1, <2>2 DEF RequestCancellation, Retains, Touches, Working, RunRecords, ActiveStatuses
<1>4. CASE RenewLease(r, g, f)
  <2>1. run' = [run EXCEPT ![r] = [run[r] EXCEPT !.lease = now + LeaseDuration]]
    BY <1>4, <1>1 DEF RenewLease
  <2>2. [run[r] EXCEPT !.lease = now + LeaseDuration] \in RunRecords
    BY <1>1, RecordTypes DEF ActiveStatuses
  <2>3. QED BY <1>0, <1>1, <1>4, <2>1, <2>2 DEF RenewLease, Retains, Touches, Working, RunRecords
<1>5. QED BY <1>2, <1>3, <1>4

LEMMA AppendEffect ==
  ASSUME LedgerTypeOK, OneProducer, NEW r \in Runs, NEW g, NEW f, NEW id \in SourceIds,
         NEW opens \in BOOLEAN, NEW closes \in BOOLEAN, AppendMessage(r, g, f, id, opens, closes)
  PROVE  Writes(r, Entry(r, f, id, opens, closes))
<1> DEFINE m == Entry(r, f, id, opens, closes)
           k == IF run[r].recoverable THEN Len(log) + 1 ELSE run[r].checkpoint
           x == [run[r] EXCEPT !.end = Len(log) + 1, !.ready = @ \/ opens, !.closed = @ \/ closes,
                               !.checkpoint = k]
<1>0. Working(r) /\ run[r].fence = f
  BY OwnerWorks DEF AppendMessage, Owns
<1>1. run \in [Runs -> RunRecords] /\ run[r] \in RunRecords /\ Len(log) + 1 \in Nat /\ k \in Nat
  BY LogTypes DEF LedgerTypeOK, RunRecords
<1>2. run' = [run EXCEPT ![r] = x]
  BY <1>1 DEF AppendMessage
<1>3. x \in RunRecords
  BY <1>1, ZenonT(40) DEF RunRecords, ActiveStatuses, FinalStatuses
<1>4. m \in Messages /\ m.run = r /\ m.fence = run[r].fence /\ m.id = id /\ id \notin ExternalIds
      /\ m.opens = opens /\ m.closes = closes
  BY <1>0, <1>1 DEF Entry, Messages, RunRecords
<1>5. /\ x.status = run[r].status /\ x.fence = run[r].fence /\ x.start = run[r].start
      /\ x.end = Len(log) + 1
      /\ x.ready = (run[r].ready \/ opens) /\ x.closed = (run[r].closed \/ closes)
  BY <1>1 DEF RunRecords
<1>6. run' \in [Runs -> RunRecords] /\ run'[r] = x /\ \A q \in Runs \ {r} : run'[q] = run[q]
  BY <1>1, <1>2, <1>3
<1>7. QED
  BY <1>0, <1>4, <1>5, <1>6 DEF Writes, AppendMessage, Committed

LEMMA PublishEffect ==
  ASSUME LedgerTypeOK, OneProducer, NEW r \in Runs, NEW g, NEW id \in ExternalIds,
         PublishMessage(r, g, id)
  PROVE  Writes(r, Entry(r, run[r].fence, id, FALSE, FALSE))
<1> DEFINE m == Entry(r, run[r].fence, id, FALSE, FALSE)
           x == [run[r] EXCEPT !.end = Len(log) + 1]
<1>0. Working(r) /\ run[r].ready /\ ~run[r].closed
  BY OwnerWorks DEF PublishMessage, PublicationOpen, Exists, Final, FinalStatuses
<1>1. run \in [Runs -> RunRecords] /\ run[r] \in RunRecords /\ Len(log) + 1 \in Nat
  BY LogTypes DEF LedgerTypeOK, RunRecords
<1>2. run' = [run EXCEPT ![r] = x]
  BY <1>1 DEF PublishMessage
<1>3. x \in RunRecords
  BY <1>1, RecordTypes, ZenonT(40) DEF ActiveStatuses
<1>4. m \in Messages /\ m.run = r /\ m.fence = run[r].fence /\ m.id = id /\ ~m.opens /\ ~m.closes
  BY <1>1 DEF Entry, Messages, RunRecords
<1>5. /\ x.status = run[r].status /\ x.fence = run[r].fence /\ x.start = run[r].start
      /\ x.end = Len(log) + 1
      /\ x.ready = run[r].ready /\ x.closed = run[r].closed
  BY <1>1 DEF RunRecords
<1>6. run' \in [Runs -> RunRecords] /\ run'[r] = x /\ \A q \in Runs \ {r} : run'[q] = run[q]
  BY <1>1, <1>2, <1>3
<1>7. QED
  BY <1>0, <1>4, <1>5, <1>6 DEF Writes, PublishMessage, Committed

\* The record of a run that has lost its producer.
LEMMA LostRecord ==
  ASSUME LedgerTypeOK, NEW r \in Runs
  PROVE  /\ LostRun(r) \in RunRecords
         /\ LostRun(r).status = "owner_lost"
         /\ LostRun(r).start = run[r].start /\ LostRun(r).end = Len(log)
         /\ LostRun(r).ready = run[r].ready /\ LostRun(r).closed = run[r].closed
<1>1. run[r] \in RunRecords /\ Len(log) \in Nat
  BY LogTypes DEF LedgerTypeOK
<1>2. LostRun(r) \in RunRecords
  BY <1>1, RecordTypes DEF LostRun, FinalStatuses
<1>3. QED BY <1>1, <1>2 DEF LostRun, RunRecords

LEMMA EndEffect ==
  ASSUME LedgerTypeOK, OneProducer, NEW r \in Runs, NEW g, NEW f, NEW rec,
         NEW final \in {"completed", "cancelled", "failed"},
         FinishRun(r, g, f, final) \/ LoseAbandoned(r, rec) \/ Reconcile(r, g)
  PROVE  Ends(r)
<1>0. Working(r)
  BY OwnerWorks DEF FinishRun, LoseAbandoned, Reconcile, Owns, Abandoned
<1>1. run \in [Runs -> RunRecords] /\ run[r] \in RunRecords /\ Len(log) \in Nat
  BY LogTypes DEF LedgerTypeOK
<1>2. CASE FinishRun(r, g, f, final)
  <2> DEFINE x == [run[r] EXCEPT !.end = Len(log), !.status = Outcome(r, final), !.settling = TRUE,
                                !.token = FALSE, !.lease = Never]
  <2>1. Outcome(r, final) \in FinalStatuses
        /\ (run[r].status = "cancel_requested" => Outcome(r, final) # "completed")
    BY DEF Outcome, FinalStatuses
  <2>2. run' = [run EXCEPT ![r] = x]
    BY <1>2, <1>1 DEF FinishRun
  <2>3. x \in RunRecords
    BY <1>1, <2>1, RecordTypes
  <2>4. /\ x.status = Outcome(r, final) /\ x.start = run[r].start /\ x.end = Len(log)
        /\ x.ready = run[r].ready /\ x.closed = run[r].closed
    BY <1>1, <2>1 DEF RunRecords
  <2>5. run' \in [Runs -> RunRecords] /\ run'[r] = x /\ \A q \in Runs \ {r} : run'[q] = run[q]
    BY <1>1, <2>2, <2>3
  <2>6. QED BY <1>0, <1>2, <2>1, <2>4, <2>5 DEF Ends, FinishRun, Working
<1>3. CASE LoseAbandoned(r, rec) \/ Reconcile(r, g)
  <2>1. Lose(r)
    BY <1>3 DEF LoseAbandoned, Reconcile
  <2>2. run' \in [Runs -> RunRecords] /\ run'[r] = LostRun(r) /\ \A q \in Runs \ {r} : run'[q] = run[q]
    BY <1>1, <2>1, LostRecord DEF Lose
  <2>3. QED BY <1>0, <2>1, <2>2, LostRecord DEF Ends, Lose, Working, FinalStatuses
<1>4. QED BY <1>2, <1>3

LEMMA RecoverEffect ==
  ASSUME LedgerTypeOK, OneProducer, IdleExpires, NEW r \in Runs, NEW rec, NEW canc \in BOOLEAN,
         RecoverRun(r, rec, canc)
  PROVE  Fenced(r)
<1> DEFINE x == [run[r] EXCEPT !.settling = FALSE, !.cancellable = canc, !.token = TRUE,
                               !.fence = fence, !.lease = now + LeaseDuration]
<1>0. Working(r)
  BY OwnerWorks DEF RecoverRun, Abandoned
<1>1. /\ run \in [Runs -> RunRecords] /\ run[r] \in RunRecords
      /\ fence \in Nat /\ now + LeaseDuration \in Nat /\ control \in Nat
  BY DEF LedgerTypeOK
<1>2. run' = [run EXCEPT ![r] = x]
  BY <1>1 DEF RecoverRun
<1>3. x \in RunRecords
  BY <1>1, RecordTypes DEF ActiveStatuses
<1>4. /\ x.status = run[r].status /\ x.fence = fence /\ x.start = run[r].start /\ x.end = run[r].end
      /\ x.ready = run[r].ready /\ x.closed = run[r].closed
  BY <1>1 DEF RunRecords
<1>5. run' \in [Runs -> RunRecords] /\ run'[r] = x /\ \A q \in Runs \ {r} : run'[q] = run[q]
  BY <1>1, <1>2, <1>3
<1>6. expiry = Never
  BY <1>0 DEF IdleExpires, Working
<1>7. QED BY <1>0, <1>1, <1>4, <1>5, <1>6 DEF Fenced, Touches, RecoverRun, Working

-----------------------------------------------------------------------------
(* Each kind of transition keeps the invariant.                             *)

LEMMA TouchesKeeps ==
  ASSUME LInv, NEW r \in Runs, Retains(r) \/ Fenced(r)
  PROVE  LInv'
<1> USE DEF LInv, LedgerInvariant
<1>0. /\ Touches(r)
      /\ run[r] \in RunRecords /\ run'[r] \in RunRecords
      /\ Exists(r) /\ Exists(r)' /\ ~Final(r) /\ ~Final(r)'
      /\ \A q \in Runs : (Exists(q)' <=> Exists(q)) /\ (Final(q)' <=> Final(q))
      /\ active = r /\ active' = r /\ Open /\ Open'
  BY DEF Retains, Fenced, Touches, Working, LedgerTypeOK, Exists, Final, Open, ActiveStatuses, FinalStatuses
<1>1. LedgerTypeOK'
  BY <1>0 DEF Retains, Fenced, Touches, LedgerTypeOK
<1>2. OneProducer'
  BY <1>0 DEF OneProducer
<1>3. IdleExpires'
  BY <1>0 DEF IdleExpires, Touches
<1>4. SlicesArePartition'
  BY <1>0 DEF SlicesArePartition, Touches
<1>5. ProducersInTurn' /\ PublicationWindow'
  BY <1>0 DEF ProducersInTurn, PublicationWindow, Touches
<1>6. Fences'
  <2>1. log' = log /\ fence \in Nat /\ \A i \in DOMAIN log : log[i].fence \in Nat
    BY <1>0, LogTypes DEF Touches, LedgerTypeOK, Messages
  <2>2. CASE Retains(r)
    BY <1>0, <2>1, <2>2 DEF Fences, Retains
  <2>3. CASE Fenced(r)
    BY <1>0, <2>1, <2>3 DEF Fences, Fenced
  <2>4. QED BY <2>2, <2>3
<1>7. ActiveIsLast'
  BY <1>0 DEF ActiveIsLast, Touches
<1>8. Flags'
  BY <1>0 DEF Flags, Touches
<1>9. TombstonesAreEmpty'
  BY <1>0 DEF TombstonesAreEmpty, Open, Tombstones
<1>10. QED BY <1>1, <1>2, <1>3, <1>4, <1>5, <1>6, <1>7, <1>8, <1>9

LEMMA WritesKeeps ==
  ASSUME LInv, NEW r \in Runs, NEW m, Writes(r, m)
  PROVE  LInv'
<1> USE DEF LInv, LedgerInvariant
<1>0. /\ run[r] \in RunRecords /\ run'[r] \in RunRecords
      /\ Exists(r) /\ Exists(r)' /\ ~Final(r) /\ ~Final(r)'
      /\ \A q \in Runs : (Exists(q)' <=> Exists(q)) /\ (Final(q)' <=> Final(q))
      /\ active = r /\ active' = r /\ Open /\ Open'
      /\ r # None
  BY DEF Writes, Working, LedgerTypeOK, Exists, Final, Open, ActiveStatuses, FinalStatuses
<1>a. /\ log' \in Seq(Messages) /\ Len(log') = Len(log) + 1 /\ Len(log) \in Nat
      /\ DOMAIN log = 1..Len(log) /\ DOMAIN log' = 1..Len(log) + 1
      /\ \A i \in 1..Len(log) : log'[i] = log[i]
      /\ log'[Len(log) + 1] = m
      /\ \A i \in 1..Len(log) : log[i] \in Messages
  BY AppendedLog, LogTypes DEF Writes
<1>b. /\ run[r].end = Len(log) /\ run[r].start <= run[r].end
      /\ run[r].fence = fence - 1
      /\ \A i \in 1..Len(log) : log[i].fence < fence /\ log[i].fence \in Nat
      /\ m.fence = run[r].fence /\ fence \in Nat /\ m.fence \in Nat
      /\ run[r].start \in Nat
  BY <1>0, <1>a DEF ActiveIsLast, Fences, Writes, LedgerTypeOK, Messages, RunRecords
<1>1. LedgerTypeOK'
  BY <1>0, <1>a DEF Writes, LedgerTypeOK
<1>2. OneProducer'
  BY <1>0 DEF OneProducer
<1>3. IdleExpires'
  BY <1>0 DEF IdleExpires, Writes
<1>4. SlicesArePartition'
  <2> SUFFICES ASSUME NEW q \in Runs
               PROVE  {i \in DOMAIN log' : log'[i].run = q} =
                        IF Exists(q)' THEN run'[q].start + 1 .. run'[q].end ELSE {}
    BY DEF SlicesArePartition
  <2>1. {i \in DOMAIN log : log[i].run = q} = IF Exists(q) THEN run[q].start + 1 .. run[q].end ELSE {}
    BY <1>0 DEF SlicesArePartition
  <2>2. CASE q = r
    <3>1. {i \in DOMAIN log' : log'[i].run = r} = {i \in DOMAIN log : log[i].run = r} \cup {Len(log) + 1}
      BY <1>a DEF Writes
    <3>2. QED BY <1>0, <1>b, <2>1, <2>2, <3>1 DEF Writes
  <2>3. CASE q # r
    <3>1. {i \in DOMAIN log' : log'[i].run = q} = {i \in DOMAIN log : log[i].run = q}
      BY <1>a, <2>3 DEF Writes
    <3>2. QED BY <1>0, <2>1, <2>3, <3>1 DEF Writes
  <2>4. QED BY <2>2, <2>3
<1>5. ProducersInTurn'
  BY <1>a, <1>b DEF ProducersInTurn
<1>6. PublicationWindow'
  <2>1. \A i, j \in DOMAIN log' : log'[i].id = log'[j].id => i = j
    BY <1>a DEF PublicationWindow, Writes
  <2>2. ASSUME NEW i \in DOMAIN log', log'[i].id \in ExternalIds
        PROVE  /\ \E j \in 1..i - 1 : log'[j].run = log'[i].run /\ log'[j].opens
               /\ \A j \in 1..i - 1 : log'[j].run = log'[i].run => ~log'[j].closes
    <3>1. CASE i \in 1..Len(log)
      BY <1>0, <1>a, <2>2, <3>1 DEF PublicationWindow
    <3>2. CASE i = Len(log) + 1
      <4>1. run[r].ready /\ ~run[r].closed
        BY <1>a, <2>2, <3>2 DEF Writes
      <4>2. /\ \E j \in DOMAIN log : log[j].run = r /\ log[j].opens
            /\ \A j \in DOMAIN log : log[j].run = r => ~log[j].closes
        BY <1>0, <4>1 DEF Flags
      <4>3. QED BY <1>a, <3>2, <4>2 DEF Writes
    <3>3. QED BY <1>a, <3>1, <3>2
  <2>3. QED BY <2>1, <2>2 DEF PublicationWindow
<1>7. Fences'
  BY <1>0, <1>a, <1>b DEF Fences, Writes
<1>8. ActiveIsLast'
  BY <1>0, <1>a, <1>b DEF ActiveIsLast, Writes
<1>9. Flags'
  <2> SUFFICES ASSUME NEW q \in Runs, Exists(q)'
               PROVE  /\ run'[q].ready => \E j \in DOMAIN log' : log'[j].run = q /\ log'[j].opens
                      /\ ~run'[q].closed => \A j \in DOMAIN log' : log'[j].run = q => ~log'[j].closes
    BY DEF Flags
  <2>1. /\ run[q].ready => \E j \in DOMAIN log : log[j].run = q /\ log[j].opens
        /\ ~run[q].closed => \A j \in DOMAIN log : log[j].run = q => ~log[j].closes
    BY <1>0 DEF Flags
  <2>2. CASE q = r
    BY <1>a, <2>1, <2>2 DEF Writes
  <2>3. CASE q # r
    BY <1>a, <2>1, <2>3 DEF Writes
  <2>4. QED BY <2>2, <2>3
<1>10. TombstonesAreEmpty'
  BY <1>0 DEF TombstonesAreEmpty, Open, Tombstones
<1>11. QED BY <1>1, <1>2, <1>3, <1>4, <1>5, <1>6, <1>7, <1>8, <1>9, <1>10

LEMMA EndsKeeps ==
  ASSUME LInv, NEW r \in Runs, Ends(r)
  PROVE  LInv'
<1> USE DEF LInv, LedgerInvariant
<1>0. /\ run[r] \in RunRecords /\ run'[r] \in RunRecords
      /\ Exists(r) /\ Exists(r)' /\ ~Final(r) /\ Final(r)'
      /\ \A q \in Runs : Exists(q)' <=> Exists(q)
      /\ \A q \in Runs \ {r} : Final(q)' <=> Final(q)
      /\ active = r /\ active' = None /\ Open /\ Open'
      /\ r # None
  BY DEF Ends, Working, LedgerTypeOK, Exists, Final, Open, ActiveStatuses, FinalStatuses
<1>b. run[r].end = Len(log) /\ log' = log
  BY <1>0 DEF ActiveIsLast, Ends
<1>c. TerminalExpiry \in Nat \cup {Never} /\ (TerminalExpiry # Never <=> Retention # Never)
  BY DEF TerminalExpiry, LedgerTypeOK
<1>1. LedgerTypeOK'
  BY <1>0, <1>c DEF Ends, LedgerTypeOK
<1>2. OneProducer'
  BY <1>0 DEF OneProducer
<1>3. IdleExpires'
  BY <1>0, <1>c DEF IdleExpires, Ends
<1>4. SlicesArePartition'
  BY <1>0, <1>b DEF SlicesArePartition, Ends
<1>5. ProducersInTurn' /\ PublicationWindow'
  BY <1>0, <1>b DEF ProducersInTurn, PublicationWindow
<1>6. Fences' /\ ActiveIsLast'
  BY <1>0, <1>b DEF Fences, ActiveIsLast, Ends
<1>7. Flags'
  BY <1>0, <1>b DEF Flags, Ends
<1>8. TombstonesAreEmpty'
  BY <1>0 DEF TombstonesAreEmpty, Open, Tombstones
<1>9. QED BY <1>1, <1>2, <1>3, <1>4, <1>5, <1>6, <1>7, <1>8

\* The run whose producer is gone ends where the log ends; all the others had ended.
LEMMA CreateRunKeeps ==
  ASSUME LInv, NEW r \in Runs, NEW rec \in BOOLEAN, NEW canc \in BOOLEAN, CreateRun(r, rec, canc)
  PROVE  LInv'
<1> USE DEF LInv, LedgerInvariant
<1> DEFINE x == [NoRun EXCEPT !.status = "running", !.cancellable = canc, !.recoverable = rec,
                              !.token = TRUE, !.fence = fence, !.lease = now + LeaseDuration,
                              !.start = Len(log), !.end = Len(log)]
<1>0. /\ Len(log) \in Nat /\ fence \in Nat /\ now + LeaseDuration \in Nat
      /\ run \in [Runs -> RunRecords]
      /\ DOMAIN log = 1..Len(log) /\ \A i \in DOMAIN log : log[i] \in Messages
  BY LogTypes DEF LedgerTypeOK
<1>a. x \in RunRecords
  BY <1>0, NewRunTypes
<1>b. /\ x.status = "running" /\ x.fence = fence /\ x.start = Len(log)
      /\ x.end = Len(log) /\ x.ready = FALSE /\ x.closed = FALSE
  BY <1>0 DEF NoRun
<1>c. run' = [q \in Runs |-> IF q = r THEN x ELSE IF q = active THEN LostRun(q) ELSE run[q]]
  BY DEF CreateRun, ReplaceProducer
<1> HIDE DEF x
<1>1. /\ run'[r].status = "running" /\ run'[r].fence = fence /\ run'[r].start = Len(log)
      /\ run'[r].end = Len(log) /\ run'[r].ready = FALSE /\ run'[r].closed = FALSE
  BY <1>b, <1>c
<1>2. /\ run' \in [Runs -> RunRecords]
      /\ \A q \in Runs \ {r} : run'[q] = IF q = active THEN LostRun(q) ELSE run[q]
  BY <1>0, <1>a, <1>c, LostRecord
<1>3. /\ ~Exists(r) /\ active # r /\ r # None /\ Open
      /\ active' = r /\ fence' = fence + 1 /\ log' = log /\ expiry' = Never
      /\ disposition' = disposition /\ generation' = generation /\ now' = now
      /\ control' \in Nat
  BY DEF CreateRun, OneProducer, LedgerTypeOK
<1>4. /\ Open' /\ Exists(r)' /\ ~Final(r)'
      /\ \A q \in Runs \ {r} : Exists(q)' <=> Exists(q)
      /\ \A q \in Runs \ {r} : Exists(q) => Final(q)'
  BY <1>0, <1>1, <1>2, <1>3, LostRecord DEF Open, Exists, Final, FinalStatuses, OneProducer
<1>5. LedgerTypeOK'
  BY <1>2, <1>3 DEF LedgerTypeOK
<1>6. OneProducer' /\ IdleExpires'
  BY <1>3, <1>4 DEF OneProducer, IdleExpires
<1>7. SlicesArePartition'
  <2> SUFFICES ASSUME NEW q \in Runs
               PROVE  {i \in DOMAIN log' : log'[i].run = q} =
                        IF Exists(q)' THEN run'[q].start + 1 .. run'[q].end ELSE {}
    BY DEF SlicesArePartition
  <2>1. {i \in DOMAIN log : log[i].run = q} = IF Exists(q) THEN run[q].start + 1 .. run[q].end ELSE {}
    BY <1>3 DEF SlicesArePartition
  <2>2. CASE q = r
    <3>1. Len(log) + 1 .. Len(log) = {}
      BY <1>0
    <3>2. QED BY <1>1, <1>2, <1>3, <1>4, <2>1, <2>2, <3>1
  <2>3. CASE q # r /\ q = active
    <3>1. run'[q].start = run[q].start /\ run'[q].end = run[q].end
      BY <1>2, <1>3, <2>3, LostRecord DEF ActiveIsLast
    <3>2. QED BY <1>3, <1>4, <2>1, <2>3, <3>1
  <2>4. CASE q # r /\ q # active
    BY <1>2, <1>3, <1>4, <2>1, <2>4
  <2>5. QED BY <2>2, <2>3, <2>4
<1>8. ProducersInTurn' /\ PublicationWindow'
  BY <1>3, <1>4 DEF ProducersInTurn, PublicationWindow
<1>9. Fences'
  BY <1>0, <1>1, <1>2, <1>3 DEF Fences, Messages
<1>10. ActiveIsLast'
  BY <1>0, <1>1, <1>2, <1>3 DEF ActiveIsLast
<1>11. Flags'
  <2> SUFFICES ASSUME NEW q \in Runs, Exists(q)'
               PROVE  /\ run'[q].ready => \E j \in DOMAIN log' : log'[j].run = q /\ log'[j].opens
                      /\ ~run'[q].closed => \A j \in DOMAIN log' : log'[j].run = q => ~log'[j].closes
    BY DEF Flags
  <2>1. CASE q = r
    <3>1. {i \in DOMAIN log : log[i].run = r} = {}
      BY <1>3 DEF SlicesArePartition
    <3>2. QED BY <1>1, <1>2, <1>3, <2>1, <3>1
  <2>2. CASE q # r
    <3>1. run'[q].ready = run[q].ready /\ run'[q].closed = run[q].closed /\ Exists(q)
      BY <1>2, <1>4, <2>2, LostRecord
    <3>2. QED BY <1>3, <3>1 DEF Flags
  <2>3. QED BY <2>1, <2>2
<1>12. TombstonesAreEmpty'
  BY <1>4 DEF TombstonesAreEmpty, Open, Tombstones
<1>13. QED BY <1>5, <1>6, <1>7, <1>8, <1>9, <1>10, <1>11, <1>12

LEMMA CreateGenerationKeeps ==
  ASSUME LInv, NEW r \in Runs, NEW rec \in BOOLEAN, NEW canc \in BOOLEAN,
         CreateGeneration(r, rec, canc)
  PROVE  LInv'
<1> USE DEF LInv, LedgerInvariant
<1> DEFINE x == [NoRun EXCEPT !.status = "running", !.cancellable = canc, !.recoverable = rec,
                              !.token = TRUE, !.fence = 1, !.lease = now + LeaseDuration]
<1>0. now + LeaseDuration \in Nat
  BY DEF LedgerTypeOK
<1>b. x \in RunRecords
  BY <1>0, NewRunTypes
<1>c. /\ x.status = "running" /\ x.fence = 1 /\ x.start = 0
      /\ x.end = 0 /\ x.ready = FALSE /\ x.closed = FALSE
  BY DEF NoRun
<1>d. run' = [q \in Runs |-> IF q = r THEN x ELSE NoRun]
  BY DEF CreateGeneration
<1> HIDE DEF x
<1>1. /\ run'[r].status = "running" /\ run'[r].fence = 1 /\ run'[r].start = 0
      /\ run'[r].end = 0 /\ run'[r].ready = FALSE /\ run'[r].closed = FALSE
  BY <1>c, <1>d
<1>2. /\ run' \in [Runs -> RunRecords]
      /\ \A q \in Runs \ {r} : run'[q] = NoRun
  BY <1>b, <1>d, NoRunType
<1>3. /\ active' = r /\ r # None /\ fence' = 2 /\ log' = <<>> /\ expiry' = Never
      /\ disposition' = "active" /\ generation' \in 0..MaxGeneration /\ now' = now
      /\ control' = 0
  BY DEF CreateGeneration, LedgerTypeOK
<1>4. /\ Open' /\ Exists(r)' /\ ~Final(r)'
      /\ \A q \in Runs \ {r} : ~Exists(q)'
  BY <1>1, <1>2, <1>3 DEF Open, Exists, Final, FinalStatuses, NoRun
<1>a. /\ log' \in Seq(Messages) /\ Len(log') = 0 /\ DOMAIN log' = {}
  BY <1>3
<1>5. LedgerTypeOK'
  BY <1>2, <1>3, <1>a DEF LedgerTypeOK
<1>6. OneProducer' /\ IdleExpires'
  BY <1>3, <1>4 DEF OneProducer, IdleExpires
<1>7. SlicesArePartition'
  BY <1>1, <1>2, <1>4, <1>a DEF SlicesArePartition
<1>8. ProducersInTurn' /\ PublicationWindow'
  BY <1>a DEF ProducersInTurn, PublicationWindow
<1>9. Fences' /\ ActiveIsLast'
  BY <1>1, <1>2, <1>3, <1>a DEF Fences, ActiveIsLast
<1>10. Flags'
  BY <1>1, <1>2, <1>4, <1>a DEF Flags
<1>11. TombstonesAreEmpty'
  BY <1>3 DEF TombstonesAreEmpty, Tombstones
<1>12. QED BY <1>5, <1>6, <1>7, <1>8, <1>9, <1>10, <1>11

LEMMA BeginCleanupKeeps ==
  ASSUME LInv, NEW reason \in Reasons, BeginCleanup(reason)
  PROVE  LInv'
<1> USE DEF LInv, LedgerInvariant
<1>0. /\ Open /\ disposition' \in Sealed /\ ~Open' /\ active' = None /\ expiry' = Never
      /\ control' \in Nat /\ now' = now /\ generation' = generation /\ log' = log /\ fence' = fence
  BY DEF BeginCleanup, SealFor, Sealed, Open, LedgerTypeOK, Reasons, Tombstones
<1>1. /\ run' \in [Runs -> RunRecords]
      /\ \A q \in Runs : run'[q] = IF q = active THEN LostRun(q) ELSE run[q]
  BY LostRecord DEF BeginCleanup, LedgerTypeOK
<1>2. \A q \in Runs : Exists(q)' => Final(q)'
  BY <1>0, <1>1, LostRecord DEF Exists, Final, OneProducer, FinalStatuses
<1>3. LedgerTypeOK'
  BY <1>0, <1>1 DEF LedgerTypeOK
<1>4. OneProducer' /\ IdleExpires' /\ SlicesArePartition' /\ Flags' /\ ActiveIsLast'
  BY <1>0, <1>2 DEF OneProducer, IdleExpires, SlicesArePartition, Flags, ActiveIsLast
<1>5. ProducersInTurn' /\ PublicationWindow' /\ Fences'
  BY <1>0 DEF ProducersInTurn, PublicationWindow, Fences
<1>6. TombstonesAreEmpty'
  BY <1>0 DEF TombstonesAreEmpty, Sealed, Tombstones
<1>7. QED BY <1>3, <1>4, <1>5, <1>6

LEMMA Suffix ==
  ASSUME NEW S, NEW s \in Seq(S), NEW n \in 0..Len(s)
  PROVE  /\ SubSeq(s, n + 1, Len(s)) \in Seq(S)
         /\ DOMAIN SubSeq(s, n + 1, Len(s)) = 1..Len(s) - n
         /\ \A i \in 1..Len(s) - n : SubSeq(s, n + 1, Len(s))[i] = s[i + n]
<1> DEFINE t == SubSeq(s, n + 1, Len(s))
<1>1. /\ n + 1 \in Int /\ Len(s) \in Nat /\ n \in Nat /\ n <= Len(s)
      /\ \A i \in n + 1..Len(s) : s[i] \in S
  OBVIOUS
<1>2. /\ t \in Seq(S)
      /\ Len(t) = IF n + 1 <= Len(s) THEN Len(s) - (n + 1) + 1 ELSE 0
      /\ \A i \in 1..Len(s) - (n + 1) + 1 : t[i] = s[n + 1 + i - 1]
  BY <1>1, SubSeqProperties
<1> HIDE DEF t
<1>3. Len(t) = Len(s) - n
  BY <1>1, <1>2
<1>4. DOMAIN t = 1..Len(s) - n
  BY <1>2, <1>3
<1>5. ASSUME NEW i \in 1..Len(s) - n PROVE t[i] = s[i + n]
  <2>1. i \in 1..Len(s) - (n + 1) + 1 /\ n + 1 + i - 1 = i + n
    BY <1>1
  <2>2. QED BY <1>2, <2>1
<1>6. QED BY <1>2, <1>4, <1>5 DEF t

\* What is left of the log keeps its order.
LEMMA PurgedLog ==
  ASSUME LedgerTypeOK, NEW g, Purge(g)
  PROVE  /\ log' \in Seq(Messages)
         /\ \E n \in 0..Len(log) :
              /\ log' = SubSeq(log, n + 1, Len(log))
              /\ DOMAIN log' = 1..Len(log) - n
              /\ \A i \in DOMAIN log' : i + n \in DOMAIN log /\ log'[i] = log[i + n]
<1>0. Len(log) \in Nat /\ DOMAIN log = 1..Len(log) /\ log \in Seq(Messages)
      /\ log' = SubSeq(log, PurgeBatch + 1, Len(log))
  BY LogTypes DEF LedgerTypeOK, Purge
<1>1. PICK n \in 0..Len(log) : log' = SubSeq(log, n + 1, Len(log))
  <2>1. CASE PurgeBatch <= Len(log)
    <3>1. PurgeBatch \in 0..Len(log)
      BY <1>0, <2>1
    <3>2. QED BY <1>0, <3>1, Zenon
  <2>2. CASE PurgeBatch > Len(log)
    BY <1>0, <2>2, SubSeqEmpty
  <2>3. QED BY <1>0, <2>1, <2>2
<1>2. /\ log' \in Seq(Messages)
      /\ DOMAIN log' = 1..Len(log) - n
      /\ \A i \in 1..Len(log) - n : log'[i] = log[i + n]
  <2>1. \A s \in Seq(Messages) : \A k \in 0..Len(s) :
          /\ SubSeq(s, k + 1, Len(s)) \in Seq(Messages)
          /\ DOMAIN SubSeq(s, k + 1, Len(s)) = 1..Len(s) - k
          /\ \A i \in 1..Len(s) - k : SubSeq(s, k + 1, Len(s))[i] = s[i + k]
    BY Suffix
  <2>2. QED BY <1>0, <1>1, <2>1, Zenon
<1>3. \A i \in 1..Len(log) - n : i + n \in 1..Len(log)
  BY <1>0
<1>4. QED BY <1>0, <1>1, <1>2, <1>3

LEMMA PurgeKeeps ==
  ASSUME LInv, NEW g, Purge(g)
  PROVE  LInv'
<1> USE DEF LInv, LedgerInvariant
<1>0. /\ disposition \in Sealed /\ disposition' = disposition /\ ~Open /\ ~Open'
      /\ now' = now /\ generation' = generation /\ fence' = fence /\ active' = active
      /\ expiry' = expiry /\ control' = control
      /\ active = None
  BY DEF Purge, Sealed, Open, OneProducer
<1>1. /\ run' \in [Runs -> RunRecords]
      /\ \A q \in Runs : run'[q] \in {run[q], NoRun}
  BY NoRunType DEF Purge, LedgerTypeOK
<1>2. \A q \in Runs : Exists(q)' => Final(q)'
  BY <1>0, <1>1 DEF Exists, Final, OneProducer, NoRun
<1>3. PICK n \in 0..Len(log) :
        /\ DOMAIN log' = 1..Len(log) - n
        /\ \A i \in DOMAIN log' : i + n \in DOMAIN log /\ log'[i] = log[i + n]
  BY PurgedLog
<1>a. Len(log) \in Nat /\ n \in Nat /\ DOMAIN log' \subseteq Nat
  BY <1>3, LogTypes
<1>4. LedgerTypeOK'
  BY <1>0, <1>1, PurgedLog DEF LedgerTypeOK
<1>5. OneProducer' /\ IdleExpires' /\ SlicesArePartition' /\ Flags' /\ ActiveIsLast'
  BY <1>0, <1>2 DEF OneProducer, IdleExpires, SlicesArePartition, Flags, ActiveIsLast
<1>6. ProducersInTurn'
  <2> SUFFICES ASSUME NEW i \in DOMAIN log', NEW j \in DOMAIN log', i < j
               PROVE  log'[i].fence <= log'[j].fence
    BY DEF ProducersInTurn
  <2>1. i + n \in DOMAIN log /\ j + n \in DOMAIN log /\ i + n < j + n
    BY <1>3, <1>a
  <2>2. QED BY <1>3, <2>1 DEF ProducersInTurn
<1>7. PublicationWindow'
  <2>1. ASSUME NEW i \in DOMAIN log', NEW j \in DOMAIN log', log'[i].id = log'[j].id PROVE i = j
    <3>1. i + n \in DOMAIN log /\ j + n \in DOMAIN log /\ log[i + n].id = log[j + n].id
      BY <1>3, <2>1
    <3>2. i + n = j + n
      BY <3>1 DEF PublicationWindow
    <3>3. QED BY <1>a, <3>2
  <2>2. QED BY <1>0, <2>1 DEF PublicationWindow
<1>8. Fences'
  BY <1>0, <1>3 DEF Fences
<1>9. TombstonesAreEmpty'
  BY <1>0 DEF TombstonesAreEmpty, Sealed, Tombstones
<1>10. QED BY <1>4, <1>5, <1>6, <1>7, <1>8, <1>9

LEMMA FinishCleanupKeeps ==
  ASSUME LInv, NEW g, NEW reason \in Reasons, FinishCleanup(g, reason)
  PROVE  LInv'
<1> USE DEF LInv, LedgerInvariant
<1>0. /\ ~Open /\ ~Open' /\ disposition' \in Tombstones /\ active = None /\ active' = None
      /\ expiry' = Never /\ control' \in Nat
      /\ now' = now /\ generation' = generation /\ log' = log /\ fence' = fence /\ run' = run
      /\ log = <<>> /\ \A r \in Runs : ~Exists(r)
  BY DEF FinishCleanup, SealFor, Open, OneProducer, Stored, Reasons, Tombstones, LedgerTypeOK
<1>1. LedgerTypeOK'
  BY <1>0 DEF LedgerTypeOK
<1>2. OneProducer' /\ IdleExpires' /\ SlicesArePartition' /\ Flags' /\ ActiveIsLast'
  BY <1>0 DEF OneProducer, IdleExpires, SlicesArePartition, Flags, ActiveIsLast, Exists
<1>3. ProducersInTurn' /\ PublicationWindow' /\ Fences'
  BY <1>0 DEF ProducersInTurn, PublicationWindow, Fences
<1>4. TombstonesAreEmpty'
  BY <1>0 DEF TombstonesAreEmpty, Exists
<1>5. QED BY <1>1, <1>2, <1>3, <1>4

LEMMA NothingKeeps ==
  ASSUME LInv, now' \in Nat,
         UNCHANGED <<generation, disposition, log, fence, active, expiry, control, run>>
  PROVE  LInv'
BY DEF LInv, LedgerInvariant, LedgerTypeOK, OneProducer, IdleExpires, SlicesArePartition,
       ProducersInTurn, PublicationWindow, Fences, ActiveIsLast, Flags, TombstonesAreEmpty,
       Open, Exists, Final

LEMMA LedgerInitial == LedgerInit => LInv
<1> SUFFICES ASSUME LedgerInit PROVE LInv
  OBVIOUS
<1> USE DEF LedgerInit
<1>1. LedgerTypeOK
  BY NoRunType DEF LedgerTypeOK
<1>2. \A r \in Runs : ~Exists(r)
  BY DEF Exists, NoRun
<1>3. QED
  BY <1>1, <1>2 DEF LInv, LedgerInvariant, OneProducer, IdleExpires, SlicesArePartition,
    ProducersInTurn, PublicationWindow, Fences, ActiveIsLast, Flags, TombstonesAreEmpty, Open

\* Every step is of one of these kinds.
LEMMA StepKinds ==
  ASSUME LInv, LedgerNext
  PROVE  \/ \E r \in Runs :
              \/ Retains(r)
              \/ Fenced(r)
              \/ Ends(r)
              \/ \E m \in Messages : Writes(r, m)
              \/ \E rec, canc \in BOOLEAN : CreateRun(r, rec, canc) \/ CreateGeneration(r, rec, canc)
         \/ \E reason \in Reasons : BeginCleanup(reason)
         \/ \E g \in Generations : Purge(g) \/ \E reason \in Reasons : FinishCleanup(g, reason)
         \/ LedgerTick
<1> DEFINE Kind(r) ==
      \/ Retains(r)
      \/ Fenced(r)
      \/ Ends(r)
      \/ \E m \in Messages : Writes(r, m)
      \/ \E rec, canc \in BOOLEAN : CreateRun(r, rec, canc) \/ CreateGeneration(r, rec, canc)
<1>0. LedgerTypeOK /\ OneProducer /\ IdleExpires
  BY DEF LInv, LedgerInvariant
<1>1. ASSUME NEW r \in Runs, NEW rec \in BOOLEAN, NEW canc \in BOOLEAN, AcquireRun(r, rec, canc)
      PROVE  Kind(r)
  BY <1>0, <1>1, RecoverEffect DEF AcquireRun
<1>2. ASSUME NEW r \in Runs, NEW rec \in BOOLEAN, LoseAbandoned(r, rec) PROVE Kind(r)
  BY <1>0, <1>2, EndEffect
<1>3. ASSUME NEW r \in Runs, NEW g \in Generations, NEW f \in 1..MaxFence, NEW id \in SourceIds,
             NEW opens \in BOOLEAN, NEW closes \in BOOLEAN, AppendMessage(r, g, f, id, opens, closes)
      PROVE  Kind(r)
  <2>1. Writes(r, Entry(r, f, id, opens, closes))
    BY <1>0, <1>3, AppendEffect
  <2>2. QED BY <2>1 DEF Writes
<1>4. ASSUME NEW r \in Runs, NEW g \in Generations, NEW f \in 1..MaxFence,
             BeginSettlement(r, g, f) \/ RenewLease(r, g, f)
      PROVE  Kind(r)
  BY <1>0, <1>4, TouchEffect
<1>5. ASSUME NEW r \in Runs, NEW g \in Generations, RequestCancellation(r, g) PROVE Kind(r)
  BY <1>0, <1>5, TouchEffect
<1>6. ASSUME NEW r \in Runs, NEW g \in Generations, NEW f \in 1..MaxFence,
             NEW final \in {"completed", "cancelled", "failed"}, FinishRun(r, g, f, final)
      PROVE  Kind(r)
  BY <1>0, <1>6, EndEffect
<1>7. ASSUME NEW r \in Runs, NEW g \in Generations, NEW id \in ExternalIds, PublishMessage(r, g, id)
      PROVE  Kind(r)
  <2>1. Writes(r, Entry(r, run[r].fence, id, FALSE, FALSE))
    BY <1>0, <1>7, PublishEffect
  <2>2. QED BY <2>1 DEF Writes
<1>8. ASSUME NEW r \in Runs, NEW g \in Generations, Reconcile(r, g) PROVE Kind(r)
  BY <1>0, <1>8, EndEffect
<1> HIDE DEF Kind
<1>9. \/ \E r \in Runs : Kind(r)
      \/ \E reason \in Reasons : BeginCleanup(reason)
      \/ \E g \in Generations : Purge(g) \/ \E reason \in Reasons : FinishCleanup(g, reason)
      \/ LedgerTick
  BY <1>1, <1>2, <1>3, <1>4, <1>5, <1>6, <1>7, <1>8 DEF LedgerNext
<1>10. QED BY <1>9 DEF Kind

LEMMA LedgerStep == LInv /\ [LedgerNext]_ledgerVars => LInv'
<1> SUFFICES ASSUME LInv, [LedgerNext]_ledgerVars PROVE LInv'
  OBVIOUS
<1>1. CASE UNCHANGED ledgerVars
  BY <1>1, NothingKeeps DEF ledgerVars, LInv, LedgerInvariant, LedgerTypeOK
<1>2. CASE LedgerTick
  BY <1>2, NothingKeeps DEF LedgerTick, LInv, LedgerInvariant, LedgerTypeOK
<1>3. CASE LedgerNext
  BY <1>2, <1>3, StepKinds, TouchesKeeps, WritesKeeps, EndsKeeps, CreateRunKeeps,
     CreateGenerationKeeps, BeginCleanupKeeps, PurgeKeeps, FinishCleanupKeeps
<1>4. QED BY <1>1, <1>3

-----------------------------------------------------------------------------
(* The theorems.                                                            *)

\* The inductive invariant holds in every reachable state of a thread.
THEOREM LedgerInductive == LedgerSpec => []LInv
BY LedgerInitial, LedgerStep, PTL DEF LedgerSpec

\* Whatever the order, number and lateness of the calls on a thread: at most one run is
\* not final, idle generations have their deadline, the runs' slices partition the log,
\* producers write in the order of their fences, and messages are unique and published
\* inside their window (_messaging_transition.py).
THEOREM LedgerIsSafe == LedgerSpec => []LedgerInvariant
<1>1. LInv => LedgerInvariant
  BY DEF LInv
<1>2. QED BY <1>1, LedgerInductive, PTL

\* A cancellation that was accepted is not answered by a completed run, neither by the
\* producer that was asked nor by one that takes the run over (finish_run, prepare_run).
THEOREM CancellationIsHonoured == LedgerSpec => CancellationHonoured
<1> DEFINE Honours(r) == run[r].status = "cancel_requested" /\ run'[r].status # None
             => run'[r].status \in {"cancel_requested", "cancelled", "failed", "owner_lost"}
<1>1. ASSUME LInv, LedgerNext, NEW r \in Runs PROVE Honours(r)
  <2>0. LedgerTypeOK /\ OneProducer
    BY <1>1 DEF LInv, LedgerInvariant
  <2>1. CASE \E q \in Runs : Retains(q) \/ Fenced(q)
    BY <2>1 DEF Retains, Fenced, Touches
  <2>2. CASE \E q \in Runs : Ends(q)
    BY <2>2 DEF Ends, FinalStatuses
  <2>3. CASE \E q \in Runs, m \in Messages : Writes(q, m)
    BY <2>3 DEF Writes
  <2>4. ASSUME NEW q \in Runs, NEW rec \in BOOLEAN, NEW canc \in BOOLEAN, CreateRun(q, rec, canc)
        PROVE  Honours(r)
    BY <2>0, <2>4, LostRecord DEF CreateRun, ReplaceProducer, Exists
  <2>5. ASSUME NEW q \in Runs, NEW rec \in BOOLEAN, NEW canc \in BOOLEAN, CreateGeneration(q, rec, canc)
        PROVE  Honours(r)
    <3>1. ~Open
      BY <2>5 DEF CreateGeneration, StartsGeneration, Open, Tombstones
    <3>2. ~Exists(r) \/ Final(r)
      BY <2>0, <3>1 DEF OneProducer
    <3>3. QED BY <3>2 DEF Exists, Final, FinalStatuses
  <2>6. CASE \E reason \in Reasons : BeginCleanup(reason)
    BY <2>0, <2>6, LostRecord DEF BeginCleanup
  <2>7. CASE \E g \in Generations : Purge(g)
    BY <2>7 DEF Purge, NoRun
  <2>8. CASE LedgerTick \/ \E g \in Generations, reason \in Reasons : FinishCleanup(g, reason)
    BY <2>8 DEF LedgerTick, FinishCleanup
  <2>9. QED BY <1>1, <2>1, <2>2, <2>3, <2>4, <2>5, <2>6, <2>7, <2>8, StepKinds
<1>2. ASSUME LInv, [LedgerNext]_ledgerVars
      PROVE  [\A r \in Runs : Honours(r)]_ledgerVars
  BY <1>1, <1>2
<1>3. QED
  BY <1>2, LedgerInductive, PTL DEF LedgerSpec, CancellationHonoured

\* Every change that a follower or a canceller of a run can see also changes what they
\* wait on: the length of the log or the control sequence.
THEOREM ChangesAreAnnounced == LedgerSpec => ChangeIsAnnounced
<1> DEFINE Announces ==
      (Open /\ Open' /\ generation' = generation
         /\ \E r \in Runs : Exists(r) /\ Visible(r)' # Visible(r))
        => <<Len(log), control>>' # <<Len(log), control>>
<1>1. ASSUME LInv, LedgerNext PROVE Announces
  <2>0. LedgerTypeOK /\ OneProducer /\ control \in Nat /\ control + 1 # control
    BY <1>1 DEF LInv, LedgerInvariant, LedgerTypeOK
  <2>1. ASSUME NEW r \in Runs, Retains(r) \/ Fenced(r) PROVE Announces
    <3>1. CASE run'[r].status = run[r].status
      <4>1. \A q \in Runs : Visible(q)' = Visible(q)
        BY <2>1, <3>1 DEF Retains, Fenced, Touches, Visible
      <4>2. QED BY <4>1
    <3>2. CASE run'[r].status # run[r].status
      BY <2>0, <2>1, <3>2 DEF Retains, Fenced, Touches
    <3>3. QED BY <3>1, <3>2
  <2>2. ASSUME NEW r \in Runs, Ends(r) PROVE Announces
    BY <2>0, <2>2 DEF Ends
  <2>3. ASSUME NEW r \in Runs, NEW m \in Messages, Writes(r, m) PROVE Announces
    <3>1. Len(log') = Len(log) + 1 /\ Len(log) \in Nat
      BY <2>0, <2>3, AppendedLog, LogTypes DEF Writes
    <3>2. QED BY <3>1
  <2>4. ASSUME NEW q \in Runs, NEW rec \in BOOLEAN, NEW canc \in BOOLEAN, CreateRun(q, rec, canc)
        PROVE  Announces
    <3>1. CASE active = None
      BY <2>0, <2>4, <3>1 DEF CreateRun, ReplaceProducer, Visible, Exists
    <3>2. CASE active # None
      BY <2>0, <2>4, <3>2 DEF CreateRun
    <3>3. QED BY <3>1, <3>2
  <2>5. ASSUME NEW q \in Runs, NEW rec \in BOOLEAN, NEW canc \in BOOLEAN, CreateGeneration(q, rec, canc)
        PROVE  Announces
    BY <2>5 DEF CreateGeneration, StartsGeneration, Open, Tombstones
  <2>6. CASE \E reason \in Reasons : BeginCleanup(reason)
    BY <2>0, <2>6 DEF BeginCleanup
  <2>7. CASE \E g \in Generations : Purge(g)
    BY <2>7 DEF Purge, Open, Sealed
  <2>8. CASE LedgerTick \/ \E g \in Generations, reason \in Reasons : FinishCleanup(g, reason)
    BY <2>8 DEF LedgerTick, FinishCleanup, Visible
  <2>9. QED BY <1>1, <2>1, <2>2, <2>3, <2>4, <2>5, <2>6, <2>7, <2>8, StepKinds
<1>2. ASSUME LInv, [LedgerNext]_ledgerVars PROVE [Announces]_ledgerVars
  BY <1>1, <1>2
<1>3. QED
  BY <1>2, LedgerInductive, PTL DEF LedgerSpec, ChangeIsAnnounced

-----------------------------------------------------------------------------
(* The refinement of the journal.                                           *)

\* What a reader of the journal sees of the log and of a run.
Seen == [i \in DOMAIN log |-> log[i].run]
StateOf(r) == IF ~Exists(r) THEN "absent" ELSE IF Final(r) THEN run[r].status ELSE "open"
States == [r \in Runs |-> StateOf(r)]

LEMMA SeenIsSequence ==
  ASSUME LedgerTypeOK
  PROVE  /\ Seen \in Seq(Runs)
         /\ Len(Seen) = Len(log)
         /\ DOMAIN Seen = DOMAIN log
<1>1. Len(log) \in Nat /\ DOMAIN log = 1..Len(log) /\ \A i \in DOMAIN log : log[i].run \in Runs
  BY LogTypes DEF Messages
<1>2. QED BY <1>1 DEF Seen

LEMMA SeenWrite ==
  ASSUME LedgerTypeOK, NEW r \in Runs, NEW m \in Messages, m.run = r, log' = Append(log, m)
  PROVE  Seen' = Append(Seen, r)
<1>1. /\ Len(log) \in Nat /\ DOMAIN log = 1..Len(log)
      /\ DOMAIN log' = 1..Len(log) + 1
      /\ \A i \in 1..Len(log) : log'[i] = log[i]
      /\ log'[Len(log) + 1] = m
  BY AppendedLog, LogTypes
<1> DEFINE t == Append(Seen, r)
<1>2. /\ t \in Seq(Runs) /\ Len(t) = Len(log) + 1
      /\ \A i \in 1..Len(log) : t[i] = Seen[i]
      /\ t[Len(log) + 1] = r
  BY SeenIsSequence, AppendProperties
<1> HIDE DEF t
<1>3. \A i \in 1..Len(log) + 1 : Seen'[i] = t[i]
  BY <1>1, <1>2 DEF Seen
<1>4. t = [i \in 1..Len(log) + 1 |-> t[i]] /\ Seen' = [i \in 1..Len(log) + 1 |-> Seen'[i]]
  BY <1>1, <1>2 DEF Seen
<1>5. Seen' = t
  BY <1>3, <1>4
<1>6. QED BY <1>5 DEF t

LEMMA SeenPurge ==
  ASSUME LedgerTypeOK, NEW g, Purge(g)
  PROVE  \E n \in 0..Len(Seen) : Seen' = SubSeq(Seen, n + 1, Len(Seen))
<1>1. PICK n \in 0..Len(log) :
        /\ DOMAIN log' = 1..Len(log) - n
        /\ \A i \in DOMAIN log' : i + n \in DOMAIN log /\ log'[i] = log[i + n]
  BY PurgedLog
<1>2. Seen \in Seq(Runs) /\ Len(Seen) = Len(log) /\ n \in 0..Len(Seen)
  BY SeenIsSequence
<1> DEFINE t == SubSeq(Seen, n + 1, Len(Seen))
<1>3. /\ t \in Seq(Runs) /\ DOMAIN t = 1..Len(log) - n
      /\ \A i \in 1..Len(log) - n : t[i] = Seen[i + n]
  <2>1. \A s \in Seq(Runs) : \A k \in 0..Len(s) :
          /\ SubSeq(s, k + 1, Len(s)) \in Seq(Runs)
          /\ DOMAIN SubSeq(s, k + 1, Len(s)) = 1..Len(s) - k
          /\ \A i \in 1..Len(s) - k : SubSeq(s, k + 1, Len(s))[i] = s[i + k]
    BY Suffix
  <2>2. /\ t \in Seq(Runs) /\ DOMAIN t = 1..Len(Seen) - n
        /\ \A i \in 1..Len(Seen) - n : t[i] = Seen[i + n]
    BY <1>2, <2>1, Zenon
  <2>3. QED BY <1>2, <2>2, Zenon
<1> HIDE DEF t
<1>4. \A i \in 1..Len(log) - n : Seen'[i] = t[i]
  BY <1>1, <1>3 DEF Seen
<1>5. t = [i \in 1..Len(log) - n |-> t[i]] /\ Seen' = [i \in 1..Len(log) - n |-> Seen'[i]]
  BY <1>1, <1>3 DEF Seen
<1>6. Seen' = t
  BY <1>4, <1>5
<1>7. QED BY <1>2, <1>6, Zenon DEF t

\* An active run is open, and no other run is.
LEMMA WorkingIsOpen ==
  ASSUME LInv, NEW r \in Runs, Working(r)
  PROVE  /\ States[r] = "open"
         /\ \A q \in Runs \ {r} : States[q] # "open"
         /\ \A q \in Runs : States[q] = "open" <=> q = r
<1>1. LedgerTypeOK /\ OneProducer
  BY DEF LInv, LedgerInvariant
<1>2. QED
  BY <1>1 DEF States, StateOf, Working, OneProducer, Exists, Final, LedgerTypeOK, ActiveStatuses, FinalStatuses

LEMMA JournalStep == LInv /\ [LedgerNext]_ledgerVars => [Journal!JournalNext]_(Journal!journalVars)
<1> SUFFICES ASSUME LInv, [LedgerNext]_ledgerVars PROVE [Journal!JournalNext]_(Journal!journalVars)
  OBVIOUS
<1> DEFINE Same == UNCHANGED <<generation, disposition>> /\ Seen' = Seen /\ States' = States
           JournalChange == [Journal!JournalNext]_(Journal!journalVars)
<1>0. LedgerTypeOK /\ OneProducer /\ TombstonesAreEmpty
  BY DEF LInv, LedgerInvariant
<1>a. ASSUME Same PROVE JournalChange
  BY <1>a DEF Journal!journalVars, Seen, States, StateOf, Open
<1>1. CASE LedgerTick \/ UNCHANGED ledgerVars
  BY <1>1, <1>a DEF LedgerTick, ledgerVars, Seen, States, StateOf, Exists, Final
<1>2. ASSUME NEW r \in Runs, Retains(r) \/ Fenced(r) PROVE JournalChange
  <2>1. \A q \in Runs : StateOf(q)' = StateOf(q)
    BY <1>2 DEF Retains, Fenced, Touches, Working, StateOf, Exists, Final, ActiveStatuses, FinalStatuses
  <2>2. States' = States
    BY <2>1 DEF States
  <2>3. Seen' = Seen /\ UNCHANGED <<generation, disposition>>
    BY <1>2 DEF Retains, Fenced, Touches, Seen
  <2>4. QED BY <1>a, <2>2, <2>3
<1>3. ASSUME NEW r \in Runs, NEW m \in Messages, Writes(r, m) PROVE JournalChange
  <2>1. \A q \in Runs : StateOf(q)' = StateOf(q)
    BY <1>3 DEF Writes, StateOf, Exists, Final
  <2>2. States' = States
    BY <2>1 DEF States
  <2>3. Seen' = Append(Seen, r)
    BY <1>0, <1>3, SeenWrite DEF Writes
  <2>4. Open /\ Open' /\ generation' = generation /\ {q \in Runs : States[q] = "open"} = {r}
    BY <1>3, WorkingIsOpen DEF Writes, Working, Open
  <2>5. Journal!Write(r)
    BY <2>2, <2>3, <2>4 DEF Journal!Write, Journal!Opened, Seen, States, StateOf
  <2>6. QED BY <2>5 DEF Journal!JournalNext
<1>4. ASSUME NEW r \in Runs, Ends(r) PROVE JournalChange
  <2>1. PICK outcome \in FinalStatuses : run'[r].status = outcome
    BY <1>4 DEF Ends
  <2>2. /\ StateOf(r)' = outcome
        /\ \A q \in Runs \ {r} : StateOf(q)' = StateOf(q)
    BY <1>4, <2>1 DEF Ends, StateOf, Exists, Final, FinalStatuses
  <2>3. States' = [States EXCEPT ![r] = outcome]
    BY <2>2 DEF States
  <2>4. Seen' = Seen /\ Open /\ Open' /\ generation' = generation /\ States[r] = "open"
    BY <1>4, WorkingIsOpen DEF Ends, Working, Open, Seen
  <2>5. Journal!Close(r, outcome)
    BY <2>3, <2>4 DEF Journal!Close, Journal!Opened, Seen, States, StateOf
  <2>6. QED BY <2>5 DEF Journal!JournalNext
<1>5. ASSUME NEW r \in Runs, NEW rec \in BOOLEAN, NEW canc \in BOOLEAN, CreateRun(r, rec, canc)
      PROVE  JournalChange
  <2>1. /\ ~Exists(r) /\ Open /\ Open' /\ generation' = generation /\ Seen' = Seen
        /\ run'[r].status = "running"
        /\ \A q \in Runs \ {r} : run'[q] = IF q = active THEN LostRun(q) ELSE run[q]
    BY <1>5 DEF CreateRun, ReplaceProducer, Open, Seen, NoRun
  <2>2. \A q \in Runs : States[q] = "open" <=> q = active
    BY <1>0, <2>1 DEF States, StateOf, OneProducer, Exists, Final, FinalStatuses
  <2>3. /\ StateOf(r)' = "open"
        /\ \A q \in Runs \ {r} : StateOf(q)' = IF q = active THEN "owner_lost" ELSE StateOf(q)
    BY <1>0, <2>1, LostRecord DEF StateOf, Exists, Final, FinalStatuses
  <2>4. States' = [q \in Runs |-> IF q = r THEN "open"
                                  ELSE IF q \in {p \in Runs : States[p] = "open"} THEN "owner_lost"
                                  ELSE States[q]]
    BY <2>2, <2>3 DEF States
  <2>5. States[r] = "absent"
    BY <2>1 DEF States, StateOf
  <2>6. Journal!OpenRun(r)
    BY <2>1, <2>4, <2>5 DEF Journal!OpenRun, Journal!Opened, Seen, States, StateOf
  <2>7. QED BY <2>6 DEF Journal!JournalNext
<1>6. ASSUME NEW r \in Runs, NEW rec \in BOOLEAN, NEW canc \in BOOLEAN, CreateGeneration(r, rec, canc)
      PROVE  JournalChange
  <2>1. /\ ~Open /\ Open' /\ generation' = generation + 1
        /\ log = <<>> /\ log' = <<>> /\ \A q \in Runs : ~Exists(q)
        /\ run'[r].status = "running" /\ \A q \in Runs \ {r} : run'[q] = NoRun
    BY <1>0, <1>6 DEF CreateGeneration, StartsGeneration, TombstonesAreEmpty, Open, Tombstones, NoRun
  <2>2. /\ \A q \in Runs : StateOf(q) = "absent"
        /\ StateOf(r)' = "open"
        /\ \A q \in Runs \ {r} : StateOf(q)' = "absent"
    BY <2>1 DEF StateOf, Exists, Final, FinalStatuses, NoRun
  <2>3. States' = [States EXCEPT ![r] = "open"] /\ \A q \in Runs : States[q] = "absent"
    BY <2>2 DEF States
  <2>4. Seen = <<>> /\ Seen' = <<>>
    BY <2>1 DEF Seen
  <2>5. Journal!StartEra(r)
    BY <2>1, <2>3, <2>4 DEF Journal!StartEra, Seen, States, StateOf
  <2>6. QED BY <2>5 DEF Journal!JournalNext
<1>7. ASSUME NEW reason \in Reasons, BeginCleanup(reason) PROVE JournalChange
  <2>1. /\ Open /\ ~Open' /\ generation' = generation /\ Seen' = Seen
        /\ \A q \in Runs : run'[q] = IF q = active THEN LostRun(q) ELSE run[q]
    BY <1>7 DEF BeginCleanup, SealFor, Open, Seen
  <2>2. \A q \in Runs : States[q] = "open" <=> q = active
    BY <1>0, <2>1 DEF States, StateOf, OneProducer, Exists, Final, FinalStatuses
  <2>3. \A q \in Runs : StateOf(q)' = IF q = active THEN "owner_lost" ELSE StateOf(q)
    BY <1>0, <2>1, LostRecord DEF StateOf, Exists, Final, FinalStatuses
  <2>4. States' = [q \in Runs |-> IF q \in {p \in Runs : States[p] = "open"} THEN "owner_lost"
                                  ELSE States[q]]
    BY <2>2, <2>3 DEF States
  <2>5. Journal!Seal
    BY <2>1, <2>4 DEF Journal!Seal, Journal!Opened, Seen, States, StateOf
  <2>6. QED BY <2>5 DEF Journal!JournalNext
<1>8. ASSUME NEW g \in Generations, Purge(g) PROVE JournalChange
  <2>1. PICK gone \in SUBSET Runs : run' = [r \in Runs |-> IF r \in gone THEN NoRun ELSE run[r]]
    BY <1>8 DEF Purge, Stored
  <2>2. \A q \in Runs : StateOf(q)' = IF q \in gone THEN "absent" ELSE StateOf(q)
    BY <2>1 DEF StateOf, Exists, Final, NoRun
  <2>3. States' = [q \in Runs |-> IF q \in gone THEN "absent" ELSE States[q]]
    BY <2>2 DEF States
  <2>4. ~Open /\ ~Open' /\ generation' = generation
    BY <1>8 DEF Purge, Open, Sealed
  <2>5. \E n \in 0..Len(Seen) : Seen' = SubSeq(Seen, n + 1, Len(Seen))
    BY <1>0, <1>8, SeenPurge
  <2>6. Journal!Erase
    BY <2>3, <2>4, <2>5, Zenon DEF Journal!Erase, Seen, States, StateOf
  <2>7. QED BY <2>6 DEF Journal!JournalNext
<1>9. ASSUME NEW g \in Generations, NEW reason \in Reasons, FinishCleanup(g, reason) PROVE JournalChange
  <2>1. ~Open /\ ~Open' /\ generation' = generation /\ Seen' = Seen /\ States' = States
    BY <1>9 DEF FinishCleanup, SealFor, Open, Reasons, Tombstones, Seen, States, StateOf, Exists, Final
  <2>2. QED BY <2>1 DEF Journal!journalVars, Seen, States, StateOf
<1>10. QED
  <2>1. CASE LedgerNext
    BY <1>1, <1>2, <1>3, <1>4, <1>5, <1>6, <1>7, <1>8, <1>9, <2>1, StepKinds
  <2>2. QED BY <1>1, <2>1

\* The durable state of a thread implements the journal that its followers are promised:
\* only the open run's journal grows, outcomes are final, and nothing disappears before the
\* generation is sealed.
THEOREM LedgerImplementsJournal == LedgerSpec => JournalSpec
<1>1. LedgerInit => Journal!JournalInit
  BY DEF LedgerInit, Journal!JournalInit, Open, Exists, NoRun
<1>2. QED
  BY <1>1, JournalStep, LedgerInductive, PTL DEF LedgerSpec, JournalSpec, Journal!JournalSpec

(***************************************************************************)
(* The producers and followers.                                            *)
(***************************************************************************)

USE LedgerAssumption DEF None, Never, Generations

-----------------------------------------------------------------------------
(* Producers and followers.                                                 *)

Records ==
  [pc : {"off", "streaming", "settling", "settled", "closing"}, run : Runs \cup {None}, fence : Nat,
   next : Nat, pending : Nat \cup {Nothing}, settle : {"unclaimed", "won", "passed", "error"},
   callback : {"none", "running", "returned", "raised"}, tail : BOOLEAN, source : BOOLEAN,
   status : {"completed", "cancelled", "failed"}, lost : BOOLEAN, shut : BOOLEAN, broken : BOOLEAN]

Loops ==
  [pc : {"off", "read", "decide", "stopped"}, run : Runs \cup {None}, cursor : Nat, terminal : BOOLEAN,
   leased : BOOLEAN, end : Nat]

Settled == {"returned", "raised"}

\* What a producer task x knows at each place, without the ledger.
TaskOK(x) ==
  /\ x.pc = "off" => x = Idle
  /\ x.pc # "off" => x.run \in Runs /\ x.next > 0 /\ x.fence > 0
  /\ x.pc = "streaming" => x.source /\ ~x.lost
  /\ x.pc \in {"settled", "closing"} => x.settle # "unclaimed"
  /\ x.pc = "closing" => ~x.source /\ (x.settle = "won" => x.callback \in Settled)
  /\ x.pending > 0 => x.pending = x.next /\ x.next <= SourceLength /\ x.pc # "closing"
  /\ x.pending = 0 => x.pc = "closing" /\ x.settle = "won" /\ x.next <= SourceLength + 1
  /\ x.next <= SourceLength + 1 \/ (x.next = SourceLength + 2 /\ x.pc = "closing" /\ x.pending = Nothing)
  /\ x.callback # "none" => x.settle = "won"
  /\ x.status = "cancelled" => x.settle = "won"
  /\ x.lost => x.status = "failed"
  /\ x.status = "completed" /\ x.pc \notin {"off", "streaming"} =>
       ~x.source /\ x.pending = Nothing /\ x.next = SourceLength + 1 /\ (x.pc # "settling" => x.settle # "won")

\* What it knows of its run, and what it may still write while nobody took the run over.
TaskKnows(x) ==
  x.pc # "off" =>
    /\ Exists(x.run)
    /\ x.fence <= run[x.run].fence
    /\ x.fence < fence /\ x.fence <= MaxFence
    /\ x.fence = run[x.run].fence =>
         /\ x.source \/ x.pending > 0 => x.next = run[x.run].end - run[x.run].start + 1
         /\ x.status = "completed" /\ x.pc # "streaming" => run[x.run].end - run[x.run].start = SourceLength
         /\ Tails(x.run) # {} => x.pc = "closing" /\ x.pending = Nothing
    /\ x.settle = "won" =>
         /\ x.fence = run[x.run].fence
         /\ run[x.run].settling
         /\ run[x.run].status \in {"cancel_requested", "cancelled", "failed", "owner_lost"}
         /\ calls[x.run] = IF x.callback = "none" THEN 0 ELSE 1

OneTaskEach ==
  \A p, q \in Producers : prod[p].pc # "off" /\ prod[q].pc # "off" /\ prod[p].fence = prod[q].fence => p = q

\* What the log and the record of a run say of its source and of its cancellation.
RunTells(r) ==
  /\ run[r].start <= run[r].end /\ run[r].end <= Len(log)
  /\ run[r].recoverable => run[r].checkpoint = IF run[r].end = run[r].start THEN 0 ELSE run[r].end
  /\ \A i \in run[r].start + 1 .. run[r].end :
       log[i].id = Id(r, 0) \/ (log[i].id = Id(r, i - run[r].start) /\ i - run[r].start <= SourceLength)
  /\ calls[r] \in {0, 1}
  /\ calls[r] = 1 =>
       run[r].settling /\ run[r].status \in {"cancel_requested", "cancelled", "failed", "owner_lost"}
  /\ run[r].status = "cancelled" => calls[r] = 1
  /\ \A i \in Tails(r) : i = run[r].end /\ calls[r] = 1
  /\ run[r].status = "completed" => run[r].end - run[r].start = SourceLength /\ Tails(r) = {}

LoopKnows(x) ==
  /\ x.pc = "off" => x.cursor = 0
  /\ x.pc # "off" =>
       /\ x.run \in Runs /\ Exists(x.run)
       /\ x.cursor <= Len(log)
       /\ Final(x.run) => x.cursor <= run[x.run].end
       /\ x.pc # "read" /\ x.terminal => Final(x.run) /\ x.end = run[x.run].end
       /\ x.pc = "stopped" => x.terminal /\ x.cursor >= x.end

\* Nothing is cleaned up while the thread is produced and followed.
FirstGeneration ==
  /\ fence > 0
  /\ \/ disposition = None /\ generation = 0 /\ fence = 1 /\ run = [r \in Runs |-> NoRun]
     \/ disposition = "active" /\ generation = 1

PInv ==
  /\ LInv
  /\ FirstGeneration
  /\ prod \in [Producers -> Records]
  /\ follower \in [Followers -> Loops]
  /\ calls \in [Runs -> Nat]
  /\ \A p \in Producers : TaskOK(prod[p]) /\ TaskKnows(prod[p])
  /\ OneTaskEach
  /\ \A r \in Runs : RunTells(r)
  /\ \A f \in Followers : LoopKnows(follower[f])

-----------------------------------------------------------------------------
(* Steps of one producer task that do not touch the ledger.                 *)

LEMMA IdleTask == Idle \in Records /\ Idle.pc = "off" /\ TaskOK(Idle) /\ TaskKnows(Idle)
BY ProducersAssumption DEF Idle, Records, TaskOK, TaskKnows, Nothing

LEMMA TaskFields ==
  ASSUME PInv, NEW p \in Producers
  PROVE  /\ prod[p] \in Records /\ TaskOK(prod[p]) /\ TaskKnows(prod[p])
         /\ prod[p].pc # "off" => Mine(p) \in Runs
BY DEF PInv, TaskOK, Mine

LEMMA TaskStep ==
  ASSUME PInv, NEW p \in Producers, NEW x \in Records, prod' = [prod EXCEPT ![p] = x],
         UNCHANGED <<ledgerVars, follower, calls>>, TaskOK(x), TaskKnows(x),
         x.pc = "off" \/ (prod[p].pc # "off" /\ x.fence = prod[p].fence)
  PROVE  PInv'
<1>1. LInv'
  BY LedgerStep DEF PInv
<1>2. FirstGeneration'
  BY DEF PInv, FirstGeneration, ledgerVars
<1>3. prod' \in [Producers -> Records] /\ follower' \in [Followers -> Loops] /\ calls' \in [Runs -> Nat]
  BY DEF PInv
<1>4. \A y : TaskKnows(y) => TaskKnows(y)'
  BY DEF TaskKnows, Exists, Tails, Id, ledgerVars
<1>5. ASSUME NEW q \in Producers PROVE TaskOK(prod[q])' /\ TaskKnows(prod[q])'
  <2>1. PICK y : y = prod'[q]
    OBVIOUS
  <2>2. TaskOK(y) /\ TaskKnows(y)
    BY <2>1 DEF PInv
  <2>3. TaskKnows(y)'
    BY <1>4, <2>2
  <2> QED
    BY <2>1, <2>2, <2>3
<1>6. OneTaskEach'
  BY DEF PInv, OneTaskEach
<1>7. \A r \in Runs : RunTells(r)'
  BY DEF PInv, RunTells, Tails, Id, ledgerVars
<1>8. \A f \in Followers : LoopKnows(follower[f])'
  <2>1. \A f \in Followers : LoopKnows(follower[f])
    BY DEF PInv
  <2> QED
    BY <2>1 DEF LoopKnows, Exists, Final, ledgerVars
<1> QED
  BY <1>1, <1>2, <1>3, <1>5, <1>6, <1>7, <1>8 DEF PInv

\* What the source, the callback and the failures of calls make of a task.
LocalStep(p) ==
  \/ SourceYields(p) \/ SourceEnds(p) \/ SourceFails(p)
  \/ AppendRepeats(p) \/ AppendFails(p)
  \/ RenewFails(p) \/ Shutdown(p) \/ Crash(p)
  \/ SettlementFails(p, FALSE) \/ Arbitrate(p)
  \/ CallbackReturns(p) \/ CallbackRaises(p)
  \/ SubmitTail(p) \/ NothingToSubmit(p) \/ CloseFails(p) \/ FinishFails(p)

Becomes(p, x) ==
  /\ prod' = [prod EXCEPT ![p] = x]
  /\ x \in Records /\ TaskOK(x) /\ TaskKnows(x)
  /\ x.pc = "off" \/ (prod[p].pc # "off" /\ x.fence = prod[p].fence)

\* The source and what interrupts it.
LEMMA SourceSteps ==
  ASSUME PInv, NEW p \in Producers,
         SourceYields(p) \/ SourceEnds(p) \/ SourceFails(p) \/ Shutdown(p) \/ RenewFails(p)
  PROVE  \E x : Becomes(p, x)
<1> USE ProducersAssumption DEF Nothing, Mine
<1>0. /\ prod[p] \in Records /\ TaskOK(prod[p]) /\ TaskKnows(prod[p])
      /\ prod[p].pc # "off" /\ run[Mine(p)].start \in Nat /\ run[Mine(p)].end \in Nat
  <2>1. prod[p].source \/ prod[p].pending # Nothing \/ prod[p].pc \in {"streaming", "settling", "settled", "closing"}
        \/ prod[p].callback = "running"
    BY DEF SourceYields, SourceEnds, SourceFails, Consuming, Shutdown, RenewFails, Streaming
  <2>2. prod[p].pc # "off"
    BY <2>1, TaskFields DEF TaskOK, Idle
  <2> QED
    BY <2>2, TaskFields DEF PInv, LInv, LedgerInvariant, LedgerTypeOK, RunRecords
<1>1. CASE SourceYields(p)
  <2> DEFINE x == [prod[p] EXCEPT !.pending = prod[p].next]
  <2>1. prod' = [prod EXCEPT ![p] = x]
    BY <1>1 DEF SourceYields, Step
  <2>2. x \in Records /\ x.fence = prod[p].fence
    BY <1>0, <1>1 DEF Records, SourceYields, Consuming
  <2>3. TaskOK(x)
    BY <1>0, <1>1 DEF TaskOK, Records, SourceYields, Consuming
  <2>4. TaskKnows(x)
    BY <1>0, <1>1 DEF TaskOK, TaskKnows, Records, SourceYields, Consuming
  <2> HIDE DEF x
  <2> QED
    BY <1>0, <2>1, <2>2, <2>3, <2>4 DEF Becomes
<1>2. CASE SourceEnds(p)
  <2> DEFINE x == Ended(p, IF Interrupted(p) THEN "cancelled" ELSE "completed")
  <2>1. prod' = [prod EXCEPT ![p] = x]
    BY <1>2 DEF SourceEnds, Step
  <2>2. x \in Records /\ x.fence = prod[p].fence
    BY <1>0, <1>2 DEF Records, SourceEnds, Consuming, Ended, Interrupted, Streaming
  <2>3. TaskOK(x)
    BY <1>0, <1>2 DEF TaskOK, Records, SourceEnds, Consuming, Ended, Interrupted, Streaming
  <2>4. TaskKnows(x)
    BY <1>0, <1>2 DEF TaskOK, TaskKnows, Records, SourceEnds, Consuming, Ended, Interrupted, Streaming
  <2> HIDE DEF x
  <2> QED
    BY <1>0, <2>1, <2>2, <2>3, <2>4 DEF Becomes
<1>3. CASE SourceFails(p)
  <2> DEFINE x == Ended(p, "failed")
  <2>1. prod' = [prod EXCEPT ![p] = x]
    BY <1>3 DEF SourceFails, Step
  <2>2. x \in Records /\ x.fence = prod[p].fence
    BY <1>0, <1>3 DEF Records, SourceFails, Consuming, Ended, Streaming
  <2>3. TaskOK(x)
    BY <1>0, <1>3 DEF TaskOK, Records, SourceFails, Consuming, Ended, Streaming
  <2>4. TaskKnows(x)
    BY <1>0, <1>3 DEF TaskOK, TaskKnows, Records, SourceFails, Consuming, Ended, Streaming
  <2> HIDE DEF x
  <2> QED
    BY <1>0, <2>1, <2>2, <2>3, <2>4 DEF Becomes
<1>4. CASE Shutdown(p)
  <2> DEFINE x == [prod[p] EXCEPT !.pc = "settling", !.shut = TRUE,
                                 !.status = IF Interrupted(p) THEN "cancelled" ELSE "failed"]
  <2>1. prod' = [prod EXCEPT ![p] = x]
    BY <1>4 DEF Shutdown, Step
  <2>2. x \in Records /\ x.fence = prod[p].fence
    BY <1>0, <1>4 DEF Records, Shutdown, Streaming, Interrupted
  <2>3. TaskOK(x)
    BY <1>0, <1>4 DEF TaskOK, Records, Shutdown, Streaming, Interrupted
  <2>4. TaskKnows(x)
    BY <1>0, <1>4 DEF TaskOK, TaskKnows, Records, Shutdown, Streaming, Interrupted
  <2> HIDE DEF x
  <2> QED
    BY <1>0, <2>1, <2>2, <2>3, <2>4 DEF Becomes
<1>5. CASE RenewFails(p)
  <2> DEFINE x == [Failed(prod[p]) EXCEPT !.pc = "settling", !.source = FALSE, !.lost = TRUE]
  <2>1. prod' = [prod EXCEPT ![p] = x]
    BY <1>5 DEF RenewFails, Step
  <2>2. x \in Records /\ x.fence = prod[p].fence
    BY <1>0, <1>5 DEF Records, RenewFails, Streaming, Failed
  <2>3. TaskOK(x)
    BY <1>0, <1>5 DEF TaskOK, Records, RenewFails, Streaming, Failed
  <2>4. TaskKnows(x)
    BY <1>0, <1>5 DEF TaskOK, TaskKnows, Records, RenewFails, Streaming, Failed
  <2> HIDE DEF x
  <2> QED
    BY <1>0, <2>1, <2>2, <2>3, <2>4 DEF Becomes
<1> QED
  BY <1>1, <1>2, <1>3, <1>4, <1>5

\* The commit path and the callback, without a commit.
LEMMA CommitSteps ==
  ASSUME PInv, NEW p \in Producers,
         AppendFails(p) \/ CallbackReturns(p) \/ CallbackRaises(p)
  PROVE  \E x : Becomes(p, x)
<1> USE ProducersAssumption DEF Nothing, Mine
<1>0. /\ prod[p] \in Records /\ TaskOK(prod[p]) /\ TaskKnows(prod[p])
      /\ prod[p].pc # "off" /\ run[Mine(p)].start \in Nat /\ run[Mine(p)].end \in Nat
  <2>1. prod[p].source \/ prod[p].pending # Nothing \/ prod[p].pc \in {"streaming", "settling", "settled", "closing"}
        \/ prod[p].callback = "running"
    BY DEF AppendFails, InCommitPath, CallbackReturns, CallbackRaises
  <2>2. prod[p].pc # "off"
    BY <2>1, TaskFields DEF TaskOK, Idle
  <2> QED
    BY <2>2, TaskFields DEF PInv, LInv, LedgerInvariant, LedgerTypeOK, RunRecords
<1>1. CASE AppendFails(p)
  <2> DEFINE x == [AfterAppend(p, FALSE) EXCEPT !.lost = @ \/ ~Owns(Mine(p), generation, prod[p].fence)]
  <2>1. prod' = [prod EXCEPT ![p] = x]
    BY <1>1 DEF AppendFails, Step
  <2>2. x \in Records /\ x.fence = prod[p].fence
    BY <1>0, <1>1, ZenonT(40) DEF Records, AppendFails, InCommitPath, AfterAppend, Failed
  <2>3. TaskOK(x)
    BY <1>0, <1>1 DEF TaskOK, Records, AppendFails, InCommitPath, AfterAppend, Failed
  <2>4. TaskKnows(x)
    BY <1>0, <1>1 DEF TaskOK, TaskKnows, Records, AppendFails, InCommitPath, AfterAppend, Failed
  <2> HIDE DEF x
  <2> QED
    BY <1>0, <2>1, <2>2, <2>3, <2>4 DEF Becomes
<1>2. CASE CallbackRaises(p)
  <2> DEFINE x == [Failed(prod[p]) EXCEPT !.callback = "raised", !.source = FALSE,
                                         !.pc = IF @ = "streaming" THEN "settling" ELSE @]
  <2>1. prod' = [prod EXCEPT ![p] = x]
    BY <1>2 DEF CallbackRaises, Step
  <2>2. x \in Records /\ x.fence = prod[p].fence
    BY <1>0, <1>2 DEF Records, CallbackRaises, Failed, Settled
  <2>3. TaskOK(x)
    BY <1>0, <1>2 DEF TaskOK, Records, CallbackRaises, Failed, Settled
  <2>4. TaskKnows(x)
    BY <1>0, <1>2 DEF TaskOK, TaskKnows, Records, CallbackRaises, Failed, Settled
  <2> HIDE DEF x
  <2> QED
    BY <1>0, <2>1, <2>2, <2>3, <2>4 DEF Becomes
<1>9. CASE CallbackReturns(p)
  <2>1. PICK tail \in BOOLEAN : prod' = [prod EXCEPT ![p] = [prod[p] EXCEPT !.callback = "returned", !.tail = tail]]
    BY <1>9 DEF CallbackReturns, Step
  <2> DEFINE x == [prod[p] EXCEPT !.callback = "returned", !.tail = tail]
  <2>2. x \in Records /\ x.fence = prod[p].fence
    BY <1>0 DEF Records
  <2>3. TaskOK(x) /\ TaskKnows(x)
    BY <1>0, <1>9 DEF TaskOK, TaskKnows, Records, CallbackReturns, Settled
  <2> HIDE DEF x
  <2> QED
    BY <1>0, <2>1, <2>2, <2>3 DEF Becomes, x
<1> QED
  BY <1>1, <1>2, <1>9

\* The settlement without its calls.
LEMMA SettleSteps ==
  ASSUME PInv, NEW p \in Producers,
         SettlementFails(p, FALSE) \/ Arbitrate(p) \/ SubmitTail(p) \/ NothingToSubmit(p) \/ CloseFails(p)
  PROVE  \E x : Becomes(p, x)
<1> USE ProducersAssumption DEF Nothing, Mine
<1>0. /\ prod[p] \in Records /\ TaskOK(prod[p]) /\ TaskKnows(prod[p])
      /\ prod[p].pc # "off" /\ run[Mine(p)].start \in Nat /\ run[Mine(p)].end \in Nat
  <2>1. prod[p].source \/ prod[p].pending # Nothing \/ prod[p].pc \in {"streaming", "settling", "settled", "closing"}
        \/ prod[p].callback = "running"
    BY DEF SettlementFails, Claiming, WatcherSees, Streaming, Arbitrate, SubmitTail, ReadyForTail,
           NothingToSubmit, CloseFails, Closed
  <2>2. prod[p].pc # "off"
    BY <2>1, TaskFields DEF TaskOK, Idle
  <2> QED
    BY <2>2, TaskFields DEF PInv, LInv, LedgerInvariant, LedgerTypeOK, RunRecords
<1>1. CASE SettlementFails(p, FALSE)
  <2> DEFINE x == [prod[p] EXCEPT !.settle = "error"]
  <2>1. prod' = [prod EXCEPT ![p] = x]
    BY <1>1 DEF SettlementFails, Step
  <2>2. x \in Records /\ x.fence = prod[p].fence
    BY <1>0, <1>1 DEF Records, SettlementFails, Claiming, WatcherSees, Streaming
  <2>3. TaskOK(x)
    BY <1>0, <1>1 DEF TaskOK, Records, SettlementFails, Claiming, WatcherSees, Streaming
  <2>4. TaskKnows(x)
    BY <1>0, <1>1 DEF TaskOK, TaskKnows, Records, SettlementFails, Claiming, WatcherSees, Streaming
  <2> HIDE DEF x
  <2> QED
    BY <1>0, <2>1, <2>2, <2>3, <2>4 DEF Becomes
<1>2. CASE Arbitrate(p)
  <2> DEFINE x == [prod[p] EXCEPT !.pc = "settled", !.status = ArbitratedStatus(p)]
  <2>1. prod' = [prod EXCEPT ![p] = x]
    BY <1>2 DEF Arbitrate, Step
  <2>2. x \in Records /\ x.fence = prod[p].fence
    BY <1>0, <1>2 DEF Records, Arbitrate, ArbitratedStatus
  <2>3. TaskOK(x)
    BY <1>0, <1>2 DEF TaskOK, Records, Arbitrate, ArbitratedStatus
  <2>4. TaskKnows(x)
    BY <1>0, <1>2 DEF TaskOK, TaskKnows, Records, Arbitrate, ArbitratedStatus
  <2> HIDE DEF x
  <2> QED
    BY <1>0, <2>1, <2>2, <2>3, <2>4 DEF Becomes
<1>3. CASE SubmitTail(p)
  <2> DEFINE x == [prod[p] EXCEPT !.pc = "closing", !.source = FALSE, !.pending = 0]
  <2>1. prod' = [prod EXCEPT ![p] = x]
    BY <1>3 DEF SubmitTail, Step
  <2>2. x \in Records /\ x.fence = prod[p].fence
    BY <1>0, <1>3 DEF Records, SubmitTail, ReadyForTail, Settled
  <2>3. TaskOK(x)
    BY <1>0, <1>3 DEF TaskOK, Records, SubmitTail, ReadyForTail, Settled
  <2>4. TaskKnows(x)
    BY <1>0, <1>3 DEF TaskOK, TaskKnows, Records, SubmitTail, ReadyForTail, Settled
  <2> HIDE DEF x
  <2> QED
    BY <1>0, <2>1, <2>2, <2>3, <2>4 DEF Becomes
<1>4. CASE NothingToSubmit(p)
  <2> DEFINE x == [(IF prod[p].tail /\ prod[p].broken THEN Failed(prod[p]) ELSE prod[p])
                     EXCEPT !.pc = "closing", !.source = FALSE, !.pending = Nothing]
  <2>1. prod' = [prod EXCEPT ![p] = x]
    BY <1>4 DEF NothingToSubmit, Step
  <2>2. x \in Records /\ x.fence = prod[p].fence
    BY <1>0, <1>4 DEF Records, NothingToSubmit, ReadyForTail, Settled, Failed
  <2>3. TaskOK(x)
    BY <1>0, <1>4 DEF TaskOK, Records, NothingToSubmit, ReadyForTail, Settled, Failed
  <2>4. TaskKnows(x)
    BY <1>0, <1>4 DEF TaskOK, TaskKnows, Records, NothingToSubmit, ReadyForTail, Settled, Failed
  <2> HIDE DEF x
  <2> QED
    BY <1>0, <2>1, <2>2, <2>3, <2>4 DEF Becomes
<1>5. CASE CloseFails(p)
  <2> DEFINE x == Failed(prod[p])
  <2>1. prod' = [prod EXCEPT ![p] = x]
    BY <1>5 DEF CloseFails, Step
  <2>2. x \in Records /\ x.fence = prod[p].fence
    BY <1>0, <1>5 DEF Records, CloseFails, Closed, Failed
  <2>3. TaskOK(x)
    BY <1>0, <1>5 DEF TaskOK, Records, CloseFails, Closed, Failed
  <2>4. TaskKnows(x)
    BY <1>0, <1>5 DEF TaskOK, TaskKnows, Records, CloseFails, Closed, Failed
  <2> HIDE DEF x
  <2> QED
    BY <1>0, <2>1, <2>2, <2>3, <2>4 DEF Becomes
<1> QED
  BY <1>1, <1>2, <1>3, <1>4, <1>5


\* The ID of a source message says where it is.
LEMMA IdsByRun ==
  ASSUME PInv, Open, NEW i \in DOMAIN log, NEW r \in Runs, NEW n \in Nat, log[i].id = Id(r, n)
  PROVE  i \in run[r].start + 1 .. run[r].end /\ (n = 0 \/ n = i - run[r].start)
<1> USE DEF PInv, LInv, LedgerInvariant
<1>1. log[i] \in Messages /\ i \in Nat
  BY LogTypes
<1>2. PICK q \in Runs : q = log[i].run
  BY <1>1 DEF Messages
<1>3. i \in run[q].start + 1 .. run[q].end
  BY <1>2 DEF SlicesArePartition
<1>4. log[i].id = Id(q, 0) \/ log[i].id = Id(q, i - run[q].start)
  BY <1>3 DEF RunTells
<1>5. q = r
  BY <1>4 DEF Id
<1> QED
  BY <1>3, <1>4, <1>5 DEF Id

\* What a task still has to write is not in the log while the run is its own.
LEMMA NotYetWritten ==
  ASSUME PInv, NEW p \in Producers, prod[p].pending > 0, Owns(Mine(p), generation, prod[p].fence)
  PROVE  ~Committed(Item(p))
<1>1. /\ prod[p] \in Records /\ TaskOK(prod[p]) /\ TaskKnows(prod[p]) /\ prod[p].pc # "off"
      /\ Mine(p) \in Runs
  BY TaskFields DEF TaskOK, Idle, Nothing, Mine
<1>2. prod[p].fence = run[Mine(p)].fence /\ Open
  BY DEF Owns
<1>3. prod[p].pending = run[Mine(p)].end - run[Mine(p)].start + 1
  BY <1>1, <1>2 DEF TaskOK, TaskKnows, Mine
<1>4. run[Mine(p)].start \in Nat /\ run[Mine(p)].end \in Nat /\ prod[p].pending \in Nat
  <2>1. run[Mine(p)] \in RunRecords
    BY <1>1 DEF PInv, LInv, LedgerInvariant, LedgerTypeOK
  <2> QED
    BY <1>1, <2>1 DEF RunRecords, Records, Nothing
<1>5. ASSUME NEW i \in DOMAIN log, log[i].id = Item(p) PROVE FALSE
  <2>1. i \in run[Mine(p)].start + 1 .. run[Mine(p)].end /\ prod[p].pending = i - run[Mine(p)].start
    BY <1>1, <1>2, <1>4, <1>5, IdsByRun DEF Item
  <2> QED
    BY <1>3, <1>4, <2>1
<1> QED
  BY <1>5 DEF Committed

LEMMA RepeatStep ==
  ASSUME PInv, NEW p \in Producers, AppendRepeats(p)
  PROVE  \E x : Becomes(p, x)
<1> USE ProducersAssumption DEF Nothing, Mine
<1>1. /\ prod[p] \in Records /\ TaskOK(prod[p]) /\ TaskKnows(prod[p]) /\ prod[p].pc # "off"
  BY TaskFields DEF TaskOK, Idle, AppendRepeats, InCommitPath
<1>2. prod[p].pending = 0
  BY <1>1, NotYetWritten DEF AppendRepeats, InCommitPath, Records
<1> DEFINE x == [prod[p] EXCEPT !.pending = Nothing, !.next = @ + 1]
<1>3. prod' = [prod EXCEPT ![p] = x]
  BY DEF AppendRepeats, AfterAppend, Step
<1>4. x \in Records /\ x.fence = prod[p].fence
  <2>1. prod[p].next + 1 \in Nat
    BY <1>1 DEF Records
  <2> QED
    BY <1>1, <2>1 DEF Records
<1>5. TaskOK(x)
  BY <1>1, <1>2 DEF TaskOK, Records
<1>6. TaskKnows(x)
  BY <1>1, <1>2 DEF TaskOK, TaskKnows, Records
<1> HIDE DEF x
<1> QED
  BY <1>1, <1>3, <1>4, <1>5, <1>6 DEF Becomes

LEMMA LocalSteps ==
  ASSUME PInv, NEW p \in Producers, LocalStep(p)
  PROVE  PInv' /\ UNCHANGED ledgerVars
<1>1. UNCHANGED <<ledgerVars, follower, calls>>
  BY DEF LocalStep, SourceYields, SourceEnds, SourceFails, AppendRepeats, AppendFails, RenewFails, Shutdown,
         Crash, SettlementFails, Arbitrate, CallbackReturns, CallbackRaises, SubmitTail, NothingToSubmit,
         CloseFails, FinishFails, NoBackendCall
<1>2. \E x : Becomes(p, x)
  <2>1. CASE Crash(p) \/ FinishFails(p)
    BY <2>1, IdleTask DEF Becomes, Crash, FinishFails, Step
  <2> QED
    BY <2>1, SourceSteps, CommitSteps, SettleSteps, RepeatStep DEF LocalStep
<1>3. PICK x : Becomes(p, x)
  BY <1>2
<1>4. x \in Records /\ TaskOK(x) /\ TaskKnows(x) /\ prod' = [prod EXCEPT ![p] = x]
      /\ (x.pc = "off" \/ (prod[p].pc # "off" /\ x.fence = prod[p].fence))
  BY <1>3 DEF Becomes
<1> QED
  BY <1>1, <1>4, TaskStep DEF ledgerVars

-----------------------------------------------------------------------------
(* Steps that change the ledger.                                            *)

CancelWords == {"cancel_requested", "cancelled", "failed", "owner_lost"}

\* The log only grows.
Grows ==
  /\ fence' \in Nat /\ fence <= fence'
  /\ Len(log) <= Len(log')
  /\ \A i \in 1..Len(log) : log'[i] = log[i]

\* Neither the producers nor the followers of r lose what they know.
Quiet(r) ==
  /\ Exists(r) => run'[r].status # None
  /\ run'[r].fence = run[r].fence /\ run'[r].start = run[r].start /\ run'[r].end = run[r].end
  /\ run'[r].recoverable = run[r].recoverable /\ run'[r].checkpoint = run[r].checkpoint
  /\ run[r].settling => run'[r].settling
  /\ run[r].status \in CancelWords => run'[r].status \in CancelWords
  /\ Final(r) => run'[r].status = run[r].status
  /\ Final(r)' => Final(r) \/ run[r].end = Len(log)
  /\ run'[r].status = "cancelled" => run[r].status = "cancelled" \/ calls[r] = 1
  /\ run'[r].status = "completed" =>
       run[r].status = "completed" \/ (run[r].end - run[r].start = SourceLength /\ Tails(r) = {})
  /\ Tails(r)' = Tails(r)
  /\ calls'[r] = calls[r]

\* The run is produced on, and its new record says what its log tells.
Active(r) == Exists(r)' /\ ~Final(r) /\ ~Final(r)' /\ RunTells(r)'

LEMMA QuietTask ==
  ASSUME PInv, Grows, NEW y \in Records, TaskOK(y), TaskKnows(y), y.pc # "off" => Quiet(y.run)
  PROVE  TaskKnows(y)'
<1> SUFFICES ASSUME y.pc # "off" PROVE TaskKnows(y)'
  BY DEF TaskKnows
<1>1. y.run \in Runs /\ run[y.run] \in RunRecords /\ Quiet(y.run) /\ fence \in Nat
  BY DEF TaskOK, PInv, LInv, LedgerInvariant, LedgerTypeOK
<1>2. Exists(y.run)' /\ y.fence <= run'[y.run].fence /\ y.fence < fence' /\ y.fence <= MaxFence
  BY <1>1 DEF TaskKnows, Quiet, Grows, Exists, Records
<1>3. ASSUME y.fence = run'[y.run].fence
      PROVE  /\ y.source \/ y.pending > 0 => y.next = run'[y.run].end - run'[y.run].start + 1
             /\ y.status = "completed" /\ y.pc # "streaming" => run'[y.run].end - run'[y.run].start = SourceLength
             /\ Tails(y.run)' # {} => y.pc = "closing" /\ y.pending = Nothing
  BY <1>1, <1>3 DEF TaskKnows, Quiet
<1>4. ASSUME y.settle = "won"
      PROVE  /\ y.fence = run'[y.run].fence
             /\ run'[y.run].settling
             /\ run'[y.run].status \in {"cancel_requested", "cancelled", "failed", "owner_lost"}
             /\ calls'[y.run] = IF y.callback = "none" THEN 0 ELSE 1
  BY <1>1, <1>4 DEF TaskKnows, Quiet, CancelWords
<1> QED
  BY <1>2, <1>3, <1>4 DEF TaskKnows

LEMMA QuietLoop ==
  ASSUME PInv, Grows, NEW y \in Loops, LoopKnows(y), y.pc # "off" => Quiet(y.run) \/ Active(y.run), LedgerTypeOK'
  PROVE  LoopKnows(y)'
<1> SUFFICES ASSUME y.pc # "off" PROVE LoopKnows(y)'
  BY DEF LoopKnows
<1>1. /\ y.run \in Runs /\ run[y.run] \in RunRecords /\ run'[y.run] \in RunRecords
      /\ Len(log) \in Nat /\ Len(log') \in Nat /\ y.cursor \in Nat
  BY LogTypes DEF LoopKnows, PInv, LInv, LedgerInvariant, LedgerTypeOK, Loops
<1>2. CASE Quiet(y.run)
  BY <1>1, <1>2 DEF LoopKnows, Quiet, Grows, Exists, Final
<1>3. CASE Active(y.run)
  BY <1>1, <1>3 DEF LoopKnows, Active, Grows
<1> QED
  BY <1>2, <1>3

LEMMA QuietTells ==
  ASSUME PInv, Grows, NEW r \in Runs, Quiet(r)
  PROVE  RunTells(r)'
<1>1. /\ RunTells(r) /\ run[r].start \in Nat /\ run[r].end \in Nat /\ Len(log) \in Nat /\ calls[r] \in Nat
  BY LogTypes DEF PInv, LInv, LedgerInvariant, LedgerTypeOK, RunRecords
<1>2. run'[r].start <= run'[r].end /\ run'[r].end <= Len(log')
  BY <1>1 DEF RunTells, Quiet, Grows, PInv, LInv, LedgerInvariant, LedgerTypeOK
<1>3. run'[r].recoverable => run'[r].checkpoint = IF run'[r].end = run'[r].start THEN 0 ELSE run'[r].end
  BY <1>1 DEF RunTells, Quiet
<1>4. \A i \in run'[r].start + 1 .. run'[r].end :
        log'[i].id = Id(r, 0) \/ (log'[i].id = Id(r, i - run'[r].start) /\ i - run'[r].start <= SourceLength)
  <2> SUFFICES ASSUME NEW i \in run[r].start + 1 .. run[r].end
              PROVE  log'[i].id = Id(r, 0) \/ (log'[i].id = Id(r, i - run[r].start) /\ i - run[r].start <= SourceLength)
    BY DEF Quiet
  <2>1. i \in 1..Len(log)
    BY <1>1 DEF RunTells
  <2> QED
    BY <1>1, <2>1 DEF RunTells, Grows
<1>5. /\ calls'[r] \in {0, 1}
      /\ calls'[r] = 1 =>
           run'[r].settling /\ run'[r].status \in {"cancel_requested", "cancelled", "failed", "owner_lost"}
      /\ run'[r].status = "cancelled" => calls'[r] = 1
  BY <1>1 DEF RunTells, Quiet, CancelWords
<1>6. \A i \in Tails(r)' : i = run'[r].end /\ calls'[r] = 1
  BY <1>1 DEF RunTells, Quiet
<1>7. run'[r].status = "completed" => run'[r].end - run'[r].start = SourceLength /\ Tails(r)' = {}
  BY <1>1 DEF RunTells, Quiet
<1> QED
  BY <1>2, <1>3, <1>4, <1>5, <1>6, <1>7 DEF RunTells

\* A step of one task, or of none, that leaves what the others know.
LEMMA LedgerSteps ==
  ASSUME PInv, LInv', FirstGeneration', Grows,
         prod' \in [Producers -> Records], follower' \in [Followers -> Loops], calls' \in [Runs -> Nat],
         \A r \in Runs : Quiet(r) \/ Active(r),
         \A p \in Producers : TaskOK(prod'[p])
                              /\ ((prod'[p] = prod[p] /\ (prod[p].pc # "off" => Quiet(prod[p].run)))
                                  \/ TaskKnows(prod[p])'),
         OneTaskEach',
         \A f \in Followers : LoopKnows(follower'[f])
  PROVE  PInv'
<1>1. ASSUME NEW p \in Producers PROVE TaskOK(prod[p])' /\ TaskKnows(prod[p])'
  <2>1. CASE prod'[p] = prod[p] /\ (prod[p].pc # "off" => Quiet(prod[p].run))
    <3>1. PICK y : y = prod[p]
      OBVIOUS
    <3>2. y \in Records /\ TaskOK(y) /\ TaskKnows(y) /\ (y.pc # "off" => Quiet(y.run))
      BY <2>1, <3>1, TaskFields
    <3>3. TaskKnows(y)'
      BY <3>2, QuietTask
    <3> QED
      BY <2>1, <3>1, <3>2, <3>3
  <2> QED
    BY <2>1
<1>2. \A r \in Runs : RunTells(r)'
  BY QuietTells DEF Active
<1>3. ASSUME NEW f \in Followers PROVE LoopKnows(follower[f])'
  <2>1. PICK y : y = follower'[f]
    OBVIOUS
  <2>2. y \in Loops /\ LoopKnows(y) /\ (y.pc # "off" => y.run \in Runs)
    BY <2>1 DEF LoopKnows
  <2>3. LedgerTypeOK'
    BY DEF LInv, LedgerInvariant
  <2>4. LoopKnows(y)'
    BY <2>2, <2>3, QuietLoop
  <2> QED
    BY <2>1, <2>4
<1> QED
  BY <1>1, <1>2, <1>3 DEF PInv

-----------------------------------------------------------------------------
(* Producers and followers change the ledger by its transitions alone.      *)

LEMMA CallArguments ==
  ASSUME PInv, NEW p \in Producers, prod[p].pc # "off"
  PROVE  /\ Mine(p) \in Runs /\ Exists(Mine(p))
         /\ generation \in Generations
         /\ prod[p].fence \in 1..MaxFence
         /\ prod[p].status \in {"completed", "cancelled", "failed"}
         /\ prod[p].pending # Nothing => Item(p) \in SourceIds
<1>1. prod[p] \in Records /\ TaskOK(prod[p]) /\ TaskKnows(prod[p]) /\ Mine(p) \in Runs
  BY TaskFields
<1>2. Exists(Mine(p))
  BY <1>1 DEF TaskKnows, Mine
<1>3. generation \in Generations
  BY <1>1, <1>2 DEF PInv, FirstGeneration, Exists, NoRun
<1>4. prod[p].fence \in 1..MaxFence /\ prod[p].status \in {"completed", "cancelled", "failed"}
  BY <1>1 DEF TaskOK, TaskKnows, Records
<1>5. ASSUME prod[p].pending # Nothing PROVE Item(p) \in SourceIds
  <2>1. prod[p].pending \in 0..SourceLength
    BY <1>1, <1>5, ProducersAssumption DEF TaskOK, Records, Nothing
  <2> QED
    BY <1>1, <2>1, ProducersAssumption DEF Item, Id
<1> QED
  BY <1>1, <1>2, <1>3, <1>4, <1>5

LEMMA BusyTask ==
  ASSUME PInv, NEW p \in Producers, InCommitPath(p) \/ Claiming(p) \/ Closed(p) \/ Running(p)
  PROVE  prod[p].pc # "off"
BY TaskFields DEF TaskOK, Idle, InCommitPath, Claiming, WatcherSees, Streaming, Closed, Running

\* The steps of the next-state relation that change the ledger.
CallStep ==
  \/ \E p \in Producers :
       \/ \E r \in Runs, rec, canc \in BOOLEAN : StartProducer(p, r, rec, canc)
       \/ \E r \in Runs, rec \in BOOLEAN : AttachLosing(p, r, rec)
       \/ \E answered \in BOOLEAN : AppendCommits(p, answered)
       \/ ClaimSettlement(p) \/ SettlementFails(p, TRUE) \/ Finish(p) \/ Renew(p)
  \/ \E f \in Followers : ReconcileBound(f)
  \/ \E r \in Runs : Cancel(r)
  \/ Tick

LEMMA CallsAreTransitions ==
  ASSUME PInv, CallStep
  PROVE  [LedgerNext]_ledgerVars
<1>1. ASSUME NEW p \in Producers, NEW r \in Runs, NEW rec \in BOOLEAN, NEW canc \in BOOLEAN,
             StartProducer(p, r, rec, canc)
      PROVE  LedgerNext
  BY <1>1 DEF StartProducer, LedgerNext
<1>2. ASSUME NEW p \in Producers, NEW r \in Runs, NEW rec \in BOOLEAN, AttachLosing(p, r, rec)
      PROVE  LedgerNext
  BY <1>2 DEF AttachLosing, LedgerNext
<1>3. ASSUME NEW p \in Producers, NEW answered \in BOOLEAN, AppendCommits(p, answered)
      PROVE  LedgerNext
  <2>1. AppendMessage(Mine(p), generation, prod[p].fence, Item(p), FALSE, FALSE) /\ prod[p].pending # Nothing
    BY <1>3 DEF AppendCommits, InCommitPath
  <2> QED
    BY <1>3, <2>1, BusyTask, CallArguments DEF AppendCommits, LedgerNext
<1>4. ASSUME NEW p \in Producers, ClaimSettlement(p) \/ SettlementFails(p, TRUE)
      PROVE  LedgerNext
  <2>1. BeginSettlement(Mine(p), generation, prod[p].fence) /\ Claiming(p)
    BY <1>4 DEF ClaimSettlement, SettlementFails
  <2> QED
    BY <2>1, BusyTask, CallArguments DEF LedgerNext
<1>5. ASSUME NEW p \in Producers, Finish(p) PROVE LedgerNext
  <2>1. FinishRun(Mine(p), generation, prod[p].fence, prod[p].status) /\ Closed(p)
    BY <1>5 DEF Finish
  <2> QED
    BY <2>1, BusyTask, CallArguments DEF LedgerNext
<1>6. ASSUME NEW p \in Producers, Renew(p) PROVE LedgerNext
  <2>1. RenewLease(Mine(p), generation, prod[p].fence) /\ Running(p)
    BY <1>6 DEF Renew
  <2> QED
    BY <2>1, BusyTask, CallArguments DEF LedgerNext
<1>7. ASSUME Open PROVE generation \in Generations
  BY <1>7 DEF PInv, FirstGeneration, Open
<1>8. ASSUME NEW f \in Followers, ReconcileBound(f) PROVE [LedgerNext]_ledgerVars
  <2>1. CASE Abandoned(follower[f].run)
    <3>1. Reconcile(follower[f].run, generation) /\ Open /\ follower[f].pc # "off"
      BY <1>8, <2>1 DEF ReconcileBound, Abandoned
    <3>2. follower[f].run \in Runs
      BY <3>1 DEF PInv, LoopKnows
    <3> QED
      BY <1>7, <3>1, <3>2 DEF LedgerNext
  <2>2. CASE ~Abandoned(follower[f].run)
    BY <1>8, <2>2 DEF ReconcileBound, NoBackendCall
  <2> QED
    BY <2>1, <2>2
<1>9. ASSUME NEW r \in Runs, Cancel(r) PROVE LedgerNext
  <2>1. RequestCancellation(r, generation) /\ Open
    BY <1>9 DEF Cancel, RequestCancellation
  <2> QED
    BY <1>7, <2>1 DEF LedgerNext
<1>10. ASSUME Tick PROVE LedgerNext
  BY <1>10 DEF Tick, LedgerNext
<1> QED
  BY <1>1, <1>2, <1>3, <1>4, <1>5, <1>6, <1>8, <1>9, <1>10 DEF CallStep

LEMMA CallsKeepLedger ==
  ASSUME PInv, CallStep
  PROVE  LInv'
BY CallsAreTransitions, LedgerStep DEF PInv

-----------------------------------------------------------------------------
(* Calls that leave every run to its producer.                              *)

LEMMA SameRun ==
  ASSUME NEW q \in Runs, run'[q] = run[q], Tails(q)' = Tails(q), calls'[q] = calls[q]
  PROVE  Quiet(q)
BY DEF Quiet, Exists, Final

LEMMA SameLog ==
  ASSUME PInv, log' = log, fence' \in Nat, fence <= fence'
  PROVE  Grows /\ \A q \in Runs : Tails(q)' = Tails(q)
BY LogTypes DEF Grows, Tails, Id, PInv, LInv, LedgerInvariant

LEMMA LostIsQuiet ==
  ASSUME PInv, NEW r \in Runs, active = r, run'[r] = LostRun(r), log' = log, calls' = calls
  PROVE  Quiet(r)
<1>1. run[r] \in RunRecords /\ run[r].end = Len(log) /\ ~Final(r)
  BY DEF PInv, LInv, LedgerInvariant, LedgerTypeOK, ActiveIsLast, OneProducer
<1>2. /\ run'[r].fence = run[r].fence /\ run'[r].start = run[r].start /\ run'[r].end = Len(log)
      /\ run'[r].recoverable = run[r].recoverable /\ run'[r].checkpoint = run[r].checkpoint
      /\ run'[r].settling /\ run'[r].status = "owner_lost"
  BY <1>1 DEF LostRun, RunRecords
<1>3. Tails(r)' = Tails(r)
  BY DEF Tails, Id
<1> QED
  BY <1>1, <1>2, <1>3 DEF Quiet, CancelWords

LEMMA SameGeneration ==
  ASSUME PInv, UNCHANGED <<generation, disposition>>, Open \/ UNCHANGED <<run, fence>>,
         fence \in Nat, fence' \in Nat, fence <= fence'
  PROVE  FirstGeneration'
BY DEF PInv, FirstGeneration, Open

\* Whoever works on, nothing that the tasks and the loops know is lost.
LEMMA QuietSteps ==
  ASSUME PInv, LInv', FirstGeneration', Grows, \A r \in Runs : Quiet(r),
         prod' \in [Producers -> Records], follower' \in [Followers -> Loops], calls' \in [Runs -> Nat],
         \A p \in Producers : prod'[p] = prod[p] \/ (TaskOK(prod'[p]) /\ TaskKnows(prod[p])'),
         \A p \in Producers : prod'[p].pc = "off" \/ (prod[p].pc # "off" /\ prod'[p].fence = prod[p].fence),
         \A f \in Followers : LoopKnows(follower'[f])
  PROVE  PInv'
<1>1. OneTaskEach'
  BY DEF PInv, OneTaskEach
<1>2. \A p \in Producers : TaskOK(prod'[p])
                              /\ ((prod'[p] = prod[p] /\ (prod[p].pc # "off" => Quiet(prod[p].run)))
                                  \/ TaskKnows(prod[p])')
  BY TaskFields DEF Mine
<1> QED
  BY <1>1, <1>2, LedgerSteps

\* Calls of those who are not producing, renewals and the clock.
LEMMA PassiveCalls ==
  ASSUME PInv, CallStep, prod' = prod, calls' = calls,
         follower' \in [Followers -> Loops], \A f \in Followers : LoopKnows(follower'[f]),
         \/ \E r \in Runs : \/ \E rec \in BOOLEAN : LoseAbandoned(r, rec)
                            \/ Reconcile(r, generation)
                            \/ RequestCancellation(r, generation)
                            \/ \E f \in Nat : RenewLease(r, generation, f)
         \/ LedgerTick
         \/ UNCHANGED ledgerVars
  PROVE  PInv'
<1>0. LInv' /\ run \in [Runs -> RunRecords] /\ fence \in Nat
  BY CallsKeepLedger DEF PInv, LInv, LedgerInvariant, LedgerTypeOK
<1>1. log' = log /\ fence' = fence /\ UNCHANGED <<generation, disposition>>
  BY DEF LoseAbandoned, Reconcile, RequestCancellation, RenewLease, LedgerTick, ledgerVars, Lose
<1>2. Grows /\ \A q \in Runs : Tails(q)' = Tails(q)
  BY <1>0, <1>1, SameLog
<1>3. FirstGeneration' /\ \A q \in Runs : Quiet(q)
  <2>1. ASSUME NEW r \in Runs, Lose(r), Abandoned(r)
        PROVE  FirstGeneration' /\ \A q \in Runs : Quiet(q)
    <3>1. active = r
      BY <2>1 DEF Abandoned, PInv, LInv, LedgerInvariant, OneProducer
    <3>2. run'[r] = LostRun(r) /\ \A q \in Runs \ {r} : run'[q] = run[q]
      BY <1>0, <2>1 DEF Lose
    <3>3. Quiet(r)
      BY <1>1, <3>1, <3>2, LostIsQuiet
    <3>4. \A q \in Runs \ {r} : Quiet(q)
      BY <1>2, <3>2, SameRun
    <3>5. FirstGeneration'
      BY <1>0, <1>1, <2>1, SameGeneration DEF Abandoned
    <3> QED
      BY <3>3, <3>4, <3>5
  <2>2. ASSUME NEW r \in Runs, RequestCancellation(r, generation)
        PROVE  FirstGeneration' /\ \A q \in Runs : Quiet(q)
    <3>1. run'[r] = [run[r] EXCEPT !.status = "cancel_requested"] /\ \A q \in Runs \ {r} : run'[q] = run[q]
      BY <1>0, <2>2 DEF RequestCancellation
    <3>2. Quiet(r)
      BY <1>0, <1>2, <2>2, <3>1 DEF RequestCancellation, Quiet, Exists, Final, FinalStatuses, CancelWords, RunRecords
    <3>3. \A q \in Runs \ {r} : Quiet(q)
      BY <1>2, <3>1, SameRun
    <3>4. FirstGeneration'
      BY <1>0, <1>1, <2>2, SameGeneration DEF RequestCancellation
    <3> QED
      BY <3>2, <3>3, <3>4
  <2>3. ASSUME NEW r \in Runs, NEW f \in Nat, RenewLease(r, generation, f)
        PROVE  FirstGeneration' /\ \A q \in Runs : Quiet(q)
    <3>1. run'[r] = [run[r] EXCEPT !.lease = now + LeaseDuration] /\ \A q \in Runs \ {r} : run'[q] = run[q]
      BY <1>0, <2>3 DEF RenewLease
    <3>2. Quiet(r)
      BY <1>0, <1>2, <2>3, <3>1 DEF RenewLease, Quiet, Exists, Final, RunRecords
    <3>3. \A q \in Runs \ {r} : Quiet(q)
      BY <1>2, <3>1, SameRun
    <3>4. Open
      BY <2>3 DEF RenewLease, Exists, PInv, FirstGeneration, NoRun, Open
    <3> QED
      BY <1>0, <1>1, <3>2, <3>3, <3>4, SameGeneration
  <2>4. ASSUME LedgerTick \/ UNCHANGED ledgerVars
        PROVE  FirstGeneration' /\ \A q \in Runs : Quiet(q)
    <3>1. run' = run
      BY <2>4 DEF LedgerTick, ledgerVars
    <3> QED
      BY <1>0, <1>1, <1>2, <3>1, SameRun, SameGeneration
  <2> QED
    BY <2>1, <2>2, <2>3, <2>4 DEF LoseAbandoned, Reconcile
<1>4. prod' \in [Producers -> Records] /\ calls' \in [Runs -> Nat]
  BY DEF PInv
<1> QED
  BY <1>0, <1>2, <1>3, <1>4, QuietSteps

LEMMA PassiveSteps ==
  ASSUME PInv,
         \/ \E p \in Producers : \/ \E r \in Runs, rec \in BOOLEAN : AttachLosing(p, r, rec)
                                 \/ Renew(p)
         \/ \E r \in Runs : Cancel(r)
         \/ Tick
  PROVE  PInv'
<1>1. CallStep /\ UNCHANGED producerVars
  BY DEF CallStep, AttachLosing, Renew, Cancel, Tick
<1>2. follower' \in [Followers -> Loops] /\ \A f \in Followers : LoopKnows(follower'[f])
  BY <1>1 DEF PInv, producerVars
<1>3. ASSUME NEW p \in Producers, Renew(p)
      PROVE  \E r \in Runs : \E f \in Nat : RenewLease(r, generation, f)
  BY <1>3, BusyTask, TaskFields DEF Renew, Records
<1>4. \/ \E r \in Runs : \/ \E rec \in BOOLEAN : LoseAbandoned(r, rec)
                         \/ RequestCancellation(r, generation)
                         \/ \E f \in Nat : RenewLease(r, generation, f)
      \/ LedgerTick
  BY <1>3 DEF AttachLosing, Cancel, Tick
<1> QED
  BY <1>1, <1>2, <1>4, PassiveCalls DEF producerVars

-----------------------------------------------------------------------------
(* The follow loop.                                                         *)

LEMMA FollowerSteps ==
  ASSUME PInv, NEW f \in Followers, FollowerStep(f) \/ \E r \in Runs : Follow(f, r)
  PROVE  PInv'
<1> DEFINE x == follower[f]
<1>0. /\ x \in Loops /\ LoopKnows(x) /\ Len(log) \in Nat /\ run \in [Runs -> RunRecords]
      /\ follower \in [Followers -> Loops]
  BY LogTypes DEF PInv, LInv, LedgerInvariant, LedgerTypeOK
<1>1. ASSUME NEW y \in Loops, LoopKnows(y), follower' = [follower EXCEPT ![f] = y]
      PROVE  follower' \in [Followers -> Loops] /\ \A g \in Followers : LoopKnows(follower'[g])
  BY <1>0, <1>1 DEF PInv
<1>2. CASE ReconcileBound(f)
  <2> DEFINE y == [x EXCEPT !.pc = "read"]
  <2>1. y \in Loops /\ LoopKnows(y) /\ follower' = [follower EXCEPT ![f] = y]
    BY <1>0, <1>2 DEF ReconcileBound, Loops, LoopKnows
  <2>2. follower' \in [Followers -> Loops] /\ \A g \in Followers : LoopKnows(follower'[g])
    BY <1>1, <2>1
  <2>3. CallStep /\ prod' = prod /\ calls' = calls
    BY <1>2 DEF CallStep, ReconcileBound
  <2>4. x.run \in Runs
    BY <1>0, <1>2 DEF ReconcileBound, LoopKnows
  <2>5. Reconcile(x.run, generation) \/ UNCHANGED ledgerVars
    BY <1>2 DEF ReconcileBound, NoBackendCall
  <2> QED
    BY <2>2, <2>3, <2>4, <2>5, PassiveCalls
<1>3. CASE ~ReconcileBound(f)
  <2>1. UNCHANGED <<ledgerVars, prod, calls>>
    BY <1>3 DEF FollowerStep, ReadPage, Stop, ReadAgain, Follow, NoBackendCall
  <2>2. \E y \in Loops : LoopKnows(y) /\ follower' = [follower EXCEPT ![f] = y]
    <3>1. CASE Stop(f) \/ ReadAgain(f)
      <4>1. CASE Stop(f)
        <5>1. [x EXCEPT !.pc = "stopped"] \in Loops /\ LoopKnows([x EXCEPT !.pc = "stopped"])
          BY <1>0, <4>1 DEF Stop, AtEnd, Loops, LoopKnows
        <5> QED
          BY <1>0, <4>1, <5>1 DEF Stop
      <4>2. CASE ReadAgain(f)
        <5>1. [x EXCEPT !.pc = "read"] \in Loops /\ LoopKnows([x EXCEPT !.pc = "read"])
          BY <1>0, <4>2 DEF ReadAgain, Loops, LoopKnows
        <5> QED
          BY <1>0, <4>2, <5>1 DEF ReadAgain
      <4> QED
        BY <3>1, <4>1, <4>2
    <3>2. ASSUME NEW r \in Runs, Follow(f, r)
          PROVE  \E y \in Loops : LoopKnows(y) /\ follower' = [follower EXCEPT ![f] = y]
      <4> DEFINE y == [Detached EXCEPT !.pc = "read", !.run = r, !.cursor = run[r].start]
      <4>1. RunTells(r) /\ run[r].start \in Nat /\ run[r].end \in Nat
        BY <1>0 DEF PInv, RunRecords
      <4>2. y \in Loops
        BY <4>1 DEF Detached, Loops
      <4>3. y.pc = "read" /\ y.run = r /\ y.cursor = run[r].start /\ Exists(r) /\ r \in Runs
        BY <3>2 DEF Follow, Detached
      <4>4. run[r].start <= run[r].end /\ run[r].start <= Len(log)
        BY <1>0, <4>1 DEF RunTells
      <4> HIDE DEF y
      <4>5. LoopKnows(y)
        BY <4>3, <4>4 DEF LoopKnows
      <4> USE DEF y
      <4> QED
        BY <3>2, <4>2, <4>5 DEF Follow
    <3>3. CASE ReadPage(f)
      <4> DEFINE y == [pc |-> "decide", run |-> x.run, cursor |-> PageEnd(f), terminal |-> Final(x.run),
                       leased |-> LeaseActive(x.run), end |-> run[x.run].end]
      <4>1. /\ x.run \in Runs /\ Exists(x.run) /\ x.cursor \in Nat /\ x.cursor <= Len(log)
            /\ Final(x.run) => x.cursor <= run[x.run].end
        BY <1>0, <3>3 DEF ReadPage, LoopKnows, Loops
      <4>2. RunTells(x.run) /\ run[x.run].end \in Nat /\ run[x.run].end <= Len(log) /\ PageLimit \in Nat
        BY <1>0, <4>1, ProducersAssumption DEF PInv, RunTells, RunRecords
      <4>3. PageEnd(f) \in Nat /\ PageEnd(f) <= Len(log) /\ (Final(x.run) => PageEnd(f) <= run[x.run].end)
        BY <1>0, <4>1, <4>2 DEF PageEnd, Through
      <4>4. Final(x.run) \in BOOLEAN /\ LeaseActive(x.run) \in BOOLEAN
        BY <1>0, <4>1 DEF Final, LeaseActive, RunRecords
      <4>5. y \in Loops
        BY <4>1, <4>2, <4>3, <4>4 DEF Loops
      <4>6. LoopKnows(y)
        BY <4>1, <4>3 DEF LoopKnows
      <4>7. follower' = [follower EXCEPT ![f] = y]
        BY <3>3 DEF ReadPage
      <4> QED
        BY <4>5, <4>6, <4>7
    <3> QED
      BY <1>3, <3>1, <3>2, <3>3 DEF FollowerStep
  <2>3. follower' \in [Followers -> Loops] /\ \A g \in Followers : LoopKnows(follower'[g])
    BY <1>1, <2>2
  <2>4. LInv' /\ FirstGeneration' /\ run' = run /\ log' = log /\ fence' = fence /\ fence \in Nat
    BY <2>1, LedgerStep, SameGeneration DEF PInv, ledgerVars, LInv, LedgerInvariant, LedgerTypeOK
  <2>5. Grows /\ \A q \in Runs : Quiet(q)
    BY <2>1, <2>4, SameLog, SameRun
  <2>6. prod' \in [Producers -> Records] /\ calls' \in [Runs -> Nat]
    BY <2>1 DEF PInv
  <2> QED
    BY <2>1, <2>3, <2>4, <2>5, <2>6, QuietSteps
<1> QED
  BY <1>2, <1>3

-----------------------------------------------------------------------------
(* The settlement, its callback and the outcome.                            *)

LEMMA ClaimSteps ==
  ASSUME PInv, NEW p \in Producers, ClaimSettlement(p) \/ SettlementFails(p, TRUE)
  PROVE  PInv'
<1>a. PICK r, y : r = Mine(p) /\ y = prod[p]
  OBVIOUS
<1>0. CallStep /\ Claiming(p) /\ BeginSettlement(r, generation, y.fence) /\ UNCHANGED <<follower, calls>>
  BY <1>a DEF CallStep, ClaimSettlement, SettlementFails
<1>1. /\ y \in Records /\ TaskOK(y) /\ TaskKnows(y) /\ y.pc # "off" /\ r \in Runs
      /\ y.settle = "unclaimed" /\ y.callback = "none" /\ y.run = r
  BY <1>a, <1>0, BusyTask, TaskFields DEF Claiming, TaskOK, Mine
<1>2. run \in [Runs -> RunRecords] /\ fence \in Nat /\ LInv' /\ Open /\ ~run[r].settling /\ y.fence = run[r].fence
  BY <1>0, CallsKeepLedger DEF PInv, LInv, LedgerInvariant, LedgerTypeOK, BeginSettlement, Owns
<1>3. /\ run'[r] = [run[r] EXCEPT !.settling = TRUE] /\ (\A q \in Runs \ {r} : run'[q] = run[q])
      /\ log' = log /\ fence' = fence /\ UNCHANGED <<generation, disposition>>
  BY <1>0, <1>1, <1>2 DEF BeginSettlement
<1>4. FirstGeneration' /\ Grows /\ \A q \in Runs : Tails(q)' = Tails(q)
  BY <1>2, <1>3, SameGeneration, SameLog
<1>5. run[r] \in RunRecords /\ Quiet(r) /\ \A q \in Runs \ {r} : Quiet(q)
  <2>1. run[r] \in RunRecords
    BY <1>1, <1>2
  <2>2. Quiet(r)
    BY <1>0, <1>1, <1>3, <1>4, <2>1 DEF Quiet, Exists, Final, RunRecords
  <2> QED
    BY <1>0, <1>3, <1>4, <2>1, <2>2, SameRun
<1>6. calls[r] = 0
  BY <1>1, <1>2 DEF PInv, RunTells
<1>7. PICK s \in {"won", "passed", "error"} :
        /\ prod' = [prod EXCEPT ![p] = [y EXCEPT !.settle = s]]
        /\ s = "won" => run[r].status = "cancel_requested"
  BY <1>a DEF ClaimSettlement, SettlementFails, Step
<1>b. PICK z : z = [y EXCEPT !.settle = s]
  OBVIOUS
<1>8. z \in Records /\ TaskOK(z)
  BY <1>1, <1>b DEF Records, TaskOK, Claiming
<1>9. TaskKnows(z)'
  <2>1. /\ z.pc = y.pc /\ z.run = r /\ z.fence = y.fence /\ z.source = y.source /\ z.pending = y.pending
        /\ z.next = y.next /\ z.status = y.status /\ z.callback = "none" /\ z.settle = s
    BY <1>1, <1>b DEF Records
  <2>2. TaskKnows(y)'
    BY <1>1, <1>4, <1>5, QuietTask
  <2>3. run'[r].settling /\ run'[r].status = run[r].status /\ run'[r].fence = run[r].fence /\ calls'[r] = 0
    BY <1>0, <1>3, <1>5, <1>6 DEF RunRecords
  <2> QED
    BY <1>1, <1>2, <1>7, <2>1, <2>2, <2>3 DEF TaskKnows
<1>10. prod' \in [Producers -> Records] /\ follower' \in [Followers -> Loops] /\ calls' \in [Runs -> Nat]
       /\ prod'[p] = z /\ (\A q \in Producers \ {p} : prod'[q] = prod[q]) /\ z.fence = y.fence
       /\ \A f \in Followers : LoopKnows(follower'[f])
  BY <1>a, <1>b, <1>0, <1>1, <1>7, <1>8 DEF PInv, Records
<1>11. TaskKnows(prod[p])'
  BY <1>9, <1>10
<1>12. \A q \in Runs : Quiet(q)
  BY <1>5
<1> QED
  BY <1>a, <1>1, <1>2, <1>4, <1>8, <1>10, <1>11, <1>12, QuietSteps

LEMMA FinishStep ==
  ASSUME PInv, NEW p \in Producers, Finish(p)
  PROVE  PInv'
<1>a. PICK r, y, o : r = Mine(p) /\ y = prod[p] /\ o = Outcome(r, y.status)
  OBVIOUS
<1>0. CallStep /\ Closed(p) /\ FinishRun(r, generation, y.fence, y.status) /\ UNCHANGED <<follower, calls>>
  BY <1>a DEF CallStep, Finish
<1>1. y \in Records /\ TaskOK(y) /\ TaskKnows(y) /\ y.pc = "closing" /\ r \in Runs /\ y.run = r
  BY <1>a, <1>0, BusyTask, TaskFields DEF Closed, Mine
<1>2. /\ run \in [Runs -> RunRecords] /\ run[r] \in RunRecords /\ fence \in Nat /\ LInv' /\ Open
      /\ Exists(r) /\ ~Final(r) /\ y.fence = run[r].fence
  BY <1>0, <1>1, CallsKeepLedger DEF PInv, LInv, LedgerInvariant, LedgerTypeOK, FinishRun, Owns
<1>3. /\ run'[r] = [run[r] EXCEPT !.end = Len(log), !.status = o, !.settling = TRUE, !.token = FALSE, !.lease = Never]
      /\ (\A q \in Runs \ {r} : run'[q] = run[q])
      /\ log' = log /\ fence' = fence /\ UNCHANGED <<generation, disposition>>
  BY <1>a, <1>0, <1>1, <1>2 DEF FinishRun
<1>4. FirstGeneration' /\ Grows /\ \A q \in Runs : Tails(q)' = Tails(q)
  BY <1>2, <1>3, SameGeneration, SameLog
<1>5. run[r].end = Len(log) /\ RunTells(r) /\ run[r].status \in ActiveStatuses
  BY <1>1, <1>2, OwnerWorks DEF PInv, LInv, LedgerInvariant, ActiveIsLast, Working
<1>6. o \in {"completed", "cancelled", "failed"} /\ (run[r].status = "cancel_requested" => o # "completed")
  BY <1>a, <1>1 DEF Records, Outcome
<1>7. o = "cancelled" => calls[r] = 1
  BY <1>a, <1>1, <1>2 DEF Outcome, TaskOK, TaskKnows, Settled
<1>8. o = "completed" => run[r].end - run[r].start = SourceLength /\ Tails(r) = {}
  <2> SUFFICES ASSUME o = "completed" PROVE run[r].end - run[r].start = SourceLength /\ Tails(r) = {}
    OBVIOUS
  <2>1. y.status = "completed" /\ run[r].status = "running"
    BY <1>a, <1>5, <1>6 DEF Outcome, ActiveStatuses
  <2>2. run[r].end - run[r].start = SourceLength
    BY <1>1, <1>2, <2>1 DEF TaskKnows
  <2>3. calls[r] # 1
    BY <1>5, <2>1 DEF RunTells
  <2> QED
    BY <1>5, <2>2, <2>3 DEF RunTells
<1>9. Quiet(r)
  <2>1. /\ run'[r].fence = run[r].fence /\ run'[r].start = run[r].start /\ run'[r].end = run[r].end
        /\ run'[r].recoverable = run[r].recoverable /\ run'[r].checkpoint = run[r].checkpoint
        /\ run'[r].settling /\ run'[r].status = o
    BY <1>2, <1>3, <1>5 DEF RunRecords
  <2>2. run[r].status \in CancelWords => o \in CancelWords
    BY <1>5, <1>6 DEF CancelWords, ActiveStatuses
  <2> QED
    BY <1>0, <1>1, <1>2, <1>4, <1>5, <1>6, <1>7, <1>8, <2>1, <2>2 DEF Quiet
<1>10. \A q \in Runs : Quiet(q)
  BY <1>0, <1>3, <1>4, <1>9, SameRun
<1>11. prod' = [prod EXCEPT ![p] = Idle]
  BY DEF Finish, Step
<1>12. prod' \in [Producers -> Records] /\ follower' \in [Followers -> Loops] /\ calls' \in [Runs -> Nat]
       /\ prod'[p] = Idle /\ (\A q \in Producers \ {p} : prod'[q] = prod[q])
       /\ \A f \in Followers : LoopKnows(follower'[f])
  BY <1>0, <1>11, IdleTask DEF PInv
<1>13. TaskOK(prod'[p]) /\ TaskKnows(prod[p])' /\ prod'[p].pc = "off"
  BY <1>12, IdleTask DEF TaskKnows
<1>14. \A q \in Producers : prod'[q].pc = "off" \/ (prod[q].pc # "off" /\ prod'[q].fence = prod[q].fence)
  BY <1>12, <1>13
<1> QED
  BY <1>2, <1>4, <1>10, <1>12, <1>13, <1>14, QuietSteps

\* The callback is counted: nobody else has won the settlement of this run.
LEMMA CallbackStep ==
  ASSUME PInv, NEW p \in Producers, InvokeCallback(p)
  PROVE  PInv'
<1>a. PICK r, x : r = Mine(p) /\ x = prod[p]
  OBVIOUS
<1>0. /\ UNCHANGED ledgerVars /\ follower' = follower /\ calls' = [calls EXCEPT ![r] = @ + 1]
      /\ prod' = [prod EXCEPT ![p] = [x EXCEPT !.callback = "running"]]
      /\ x.settle = "won" /\ x.callback = "none" /\ x.pc # "closing"
  BY <1>a DEF InvokeCallback, NoBackendCall, Step, Uninvoked
<1>1. x \in Records /\ TaskOK(x) /\ TaskKnows(x) /\ x.pc # "off" /\ r \in Runs /\ x.run = r
  BY <1>a, <1>0, TaskFields DEF TaskOK, Idle, Mine
<1>2. /\ x.fence = run[r].fence /\ run[r].settling /\ run[r].status \in CancelWords /\ calls[r] = 0
      /\ calls \in [Runs -> Nat] /\ RunTells(r)
  BY <1>0, <1>1 DEF TaskKnows, CancelWords, PInv
<1>3. calls' \in [Runs -> Nat] /\ calls'[r] = 1 /\ \A q \in Runs \ {r} : calls'[q] = calls[q]
  BY <1>0, <1>1, <1>2
<1>4. run' = run /\ log' = log /\ fence' = fence /\ UNCHANGED <<generation, disposition>> /\ LInv' /\ FirstGeneration'
  BY <1>0, LedgerStep, SameGeneration DEF ledgerVars, PInv, LInv, LedgerInvariant, LedgerTypeOK
<1>5. ASSUME NEW q \in Runs PROVE RunTells(q)'
  <2>1. CASE q = r
    <3>1. run[r].status # "completed"
      BY <1>2 DEF CancelWords
    <3>2. Tails(r)' = Tails(r) /\ Tails(r) = {}
      BY <1>2, <1>4 DEF Tails, Id, RunTells
    <3> QED
      BY <1>2, <1>3, <1>4, <2>1, <3>1, <3>2 DEF RunTells, CancelWords
  <2>2. CASE q # r
    BY <1>3, <1>4, <2>2 DEF PInv, RunTells, Tails, Id
  <2> QED
    BY <2>1, <2>2
<1>6. \A f \in Followers : LoopKnows(follower[f])'
  <2>1. \A f \in Followers : LoopKnows(follower[f])
    BY DEF PInv
  <2> QED
    BY <1>0, <1>4, <2>1 DEF LoopKnows, Exists, Final
<1>b. PICK z : z = [x EXCEPT !.callback = "running"]
  OBVIOUS
<1>7. z \in Records /\ TaskOK(z)
  BY <1>b, <1>0, <1>1 DEF Records, TaskOK
<1>8. ASSUME NEW q \in Producers \ {p} PROVE TaskKnows(prod[q])'
  <2>1. PICK y : y = prod[q]
    OBVIOUS
  <2>2. y \in Records /\ TaskOK(y) /\ TaskKnows(y) /\ prod'[q] = y
    BY <1>0, <2>1, TaskFields DEF PInv
  <2>3. y.pc # "off" /\ y.run = r => y.settle # "won"
    BY <1>a, <1>1, <1>2, <2>1, <2>2 DEF PInv, OneTaskEach, TaskKnows
  <2>4. TaskKnows(y)'
    BY <1>3, <1>4, <2>2, <2>3 DEF TaskKnows, TaskOK, Exists, Tails, Id
  <2> QED
    BY <2>2, <2>4
<1>9. TaskKnows(z)'
  <2>1. /\ z.pc = x.pc /\ z.run = r /\ z.fence = x.fence /\ z.source = x.source /\ z.pending = x.pending
        /\ z.next = x.next /\ z.status = x.status /\ z.callback = "running" /\ z.settle = "won"
    BY <1>0, <1>1, <1>b DEF Records
  <2> QED
    BY <1>1, <1>2, <1>3, <1>4, <2>1 DEF TaskKnows, Exists, Tails, Id, CancelWords
<1>10. /\ prod' \in [Producers -> Records] /\ prod'[p] = z /\ \A q \in Producers \ {p} : prod'[q] = prod[q]
       /\ z.fence = x.fence
  BY <1>b, <1>0, <1>1, <1>7 DEF PInv, Records
<1>11. OneTaskEach'
  BY <1>a, <1>1, <1>10 DEF PInv, OneTaskEach
<1>12. \A q \in Producers : TaskOK(prod[q])' /\ TaskKnows(prod[q])'
  BY <1>7, <1>8, <1>9, <1>10 DEF PInv
<1> QED
  BY <1>0, <1>3, <1>4, <1>5, <1>6, <1>10, <1>11, <1>12 DEF PInv

-----------------------------------------------------------------------------
(* The append.                                                              *)

\* A task that is not the run's last producer keeps what it knows.
LEMMA ReplacedTask ==
  ASSUME Grows, PInv, NEW y \in Records, TaskOK(y), TaskKnows(y), y.pc # "off", y.settle # "won",
         run'[y.run].fence \in Nat, y.fence < run'[y.run].fence, run'[y.run].status # None
  PROVE  TaskKnows(y)'
<1>1. fence \in Nat /\ y.fence \in Nat
  BY DEF PInv, LInv, LedgerInvariant, LedgerTypeOK, Records
<1> QED
  BY <1>1 DEF TaskKnows, Grows, Exists

LEMMA AppendStep ==
  ASSUME PInv, NEW p \in Producers, NEW answered \in BOOLEAN, AppendCommits(p, answered)
  PROVE  PInv'
<1>a. PICK r, x, id : r = Mine(p) /\ x = prod[p] /\ id = Item(p)
  OBVIOUS
<1>0. /\ CallStep /\ x.pending # Nothing /\ AppendMessage(r, generation, x.fence, id, FALSE, FALSE)
      /\ UNCHANGED <<follower, calls>> /\ prod' = [prod EXCEPT ![p] = AfterAppend(p, answered)]
  BY <1>a DEF CallStep, AppendCommits, InCommitPath, Step
<1>1. /\ x \in Records /\ TaskOK(x) /\ TaskKnows(x) /\ x.pc # "off" /\ r \in Runs /\ x.run = r
      /\ id = Id(r, x.pending) /\ x.pending \in Nat
  BY <1>0, <1>a, TaskFields DEF TaskOK, Idle, Mine, Item, Records
<1>2. /\ run \in [Runs -> RunRecords] /\ run[r] \in RunRecords /\ LedgerTypeOK /\ fence \in Nat /\ LInv' /\ Open
      /\ Exists(r) /\ ~Final(r) /\ x.fence = run[r].fence /\ ~Committed(id) /\ Len(log) \in Nat
      /\ calls \in [Runs -> Nat]
  BY <1>0, <1>1, LogTypes, CallsKeepLedger DEF PInv, LInv, LedgerInvariant, LedgerTypeOK, AppendMessage, Owns
<1>3. /\ run'[r] = [run[r] EXCEPT !.end = Len(log) + 1, !.ready = @ \/ FALSE, !.closed = @ \/ FALSE,
                       !.checkpoint = IF run[r].recoverable THEN Len(log) + 1 ELSE @]
      /\ (\A q \in Runs \ {r} : run'[q] = run[q])
      /\ log' = Append(log, Entry(r, x.fence, id, FALSE, FALSE)) /\ fence' = fence
      /\ UNCHANGED <<generation, disposition>>
  BY <1>0, <1>1, <1>2 DEF AppendMessage
<1>4. /\ run'[r].end = Len(log) + 1 /\ run'[r].start = run[r].start /\ run'[r].status = run[r].status
      /\ run'[r].fence = run[r].fence /\ run'[r].settling = run[r].settling
      /\ run'[r].recoverable = run[r].recoverable
      /\ run[r].recoverable => run'[r].checkpoint = Len(log) + 1
      /\ run[r].start \in Nat /\ run[r].fence \in Nat
  BY <1>2, <1>3 DEF RunRecords
<1>5. run[r].end = Len(log) /\ RunTells(r) /\ run[r].status \in ActiveStatuses /\ FirstGeneration'
  BY <1>1, <1>2, <1>3, OwnerWorks, SameGeneration DEF PInv, LInv, LedgerInvariant, ActiveIsLast, Working
<1>6. /\ DOMAIN log' = 1..Len(log) + 1 /\ Len(log') = Len(log) + 1 /\ DOMAIN log = 1..Len(log)
      /\ (\A i \in 1..Len(log) : log'[i] = log[i]) /\ log'[Len(log) + 1].id = id
  <2>1. id \in SourceIds
    BY <1>a, <1>0, <1>1, CallArguments
  <2>2. Entry(r, x.fence, id, FALSE, FALSE) \in Messages
    BY <1>1, <2>1 DEF Entry, Messages, Records
  <2> QED
    BY <1>2, <1>3, <2>2, AppendedLog, LogTypes DEF Entry
<1>7. Grows
  BY <1>2, <1>3, <1>6 DEF Grows
<1>8. \A q \in Runs \ {r} : Quiet(q)
  <2> SUFFICES ASSUME NEW q \in Runs \ {r} PROVE Quiet(q)
    OBVIOUS
  <2>1. Tails(q)' = Tails(q)
    BY <1>1, <1>2, <1>6 DEF Tails, Id
  <2> QED
    BY <1>0, <1>3, <2>1, SameRun
<1>9. Tails(r) = {}
  <2>1. CASE x.pending = 0
    BY <1>1, <1>2, <2>1 DEF Tails, Committed
  <2>2. CASE x.pending > 0
    BY <1>1, <1>2, <2>2 DEF TaskOK, TaskKnows
  <2> QED
    BY <1>1, <2>1, <2>2
<1>10. x.pending = 0 => calls[r] = 1 /\ Tails(r)' = {Len(log) + 1}
  <2> SUFFICES ASSUME x.pending = 0 PROVE calls[r] = 1 /\ Tails(r)' = {Len(log) + 1}
    OBVIOUS
  <2>1. calls[r] = 1
    BY <1>1 DEF TaskOK, TaskKnows, Settled
  <2>2. \A i \in DOMAIN log' : log'[i].id = Id(r, 0) <=> i = Len(log) + 1
    BY <1>1, <1>2, <1>6, <1>9 DEF Tails
  <2> QED
    BY <1>2, <1>6, <2>1, <2>2 DEF Tails
<1>11. x.pending > 0 => /\ x.next = Len(log) - run[r].start + 1 /\ x.next <= SourceLength /\ x.pending = x.next
                        /\ Tails(r)' = {}
  <2> SUFFICES ASSUME x.pending > 0
               PROVE  /\ x.next = Len(log) - run[r].start + 1 /\ x.next <= SourceLength /\ x.pending = x.next
                      /\ Tails(r)' = {}
    OBVIOUS
  <2>1. x.next = Len(log) - run[r].start + 1 /\ x.next <= SourceLength /\ x.pending = x.next
    BY <1>1, <1>2, <1>5 DEF TaskOK, TaskKnows
  <2>2. \A i \in DOMAIN log' : log'[i].id # Id(r, 0)
    BY <1>1, <1>2, <1>6, <1>9, SMTT(20) DEF Tails, Id
  <2> QED
    BY <2>1, <2>2 DEF Tails
<1>12. RunTells(r)'
  <2>1. run'[r].start <= run'[r].end /\ run'[r].end <= Len(log')
    BY <1>2, <1>4, <1>5, <1>6 DEF RunTells
  <2>2. run'[r].recoverable => run'[r].checkpoint = IF run'[r].end = run'[r].start THEN 0 ELSE run'[r].end
    BY <1>2, <1>4, <1>5 DEF RunTells
  <2>3. ASSUME NEW i \in run'[r].start + 1 .. run'[r].end
        PROVE  log'[i].id = Id(r, 0) \/ (log'[i].id = Id(r, i - run'[r].start) /\ i - run'[r].start <= SourceLength)
    <3>1. CASE i = Len(log) + 1
      BY <1>1, <1>2, <1>4, <1>6, <1>11, <3>1, SMTT(20)
    <3>2. CASE i # Len(log) + 1
      <4>1. i \in run[r].start + 1 .. run[r].end /\ i \in 1..Len(log)
        BY <1>2, <1>4, <1>5, <3>2
      <4> QED
        BY <1>4, <1>5, <1>6, <4>1 DEF RunTells
    <3> QED
      BY <3>1, <3>2
  <2>4. /\ calls'[r] \in {0, 1}
        /\ calls'[r] = 1 =>
             run'[r].settling /\ run'[r].status \in {"cancel_requested", "cancelled", "failed", "owner_lost"}
        /\ run'[r].status = "cancelled" => calls'[r] = 1
    BY <1>0, <1>4, <1>5 DEF RunTells
  <2>5. \A i \in Tails(r)' : i = run'[r].end /\ calls'[r] = 1
    BY <1>0, <1>1, <1>4, <1>10, <1>11
  <2>6. run'[r].status # "completed"
    BY <1>4, <1>5 DEF ActiveStatuses
  <2> QED
    BY <2>1, <2>2, <2>3, <2>4, <2>5, <2>6 DEF RunTells
<1>13. Active(r)
  BY <1>2, <1>4, <1>12 DEF Active, Exists, Final
<1>14. ASSUME NEW q \in Producers \ {p}
       PROVE  /\ prod'[q] = prod[q] /\ TaskOK(prod'[q])
              /\ (prod[q].pc # "off" => Quiet(prod[q].run)) \/ TaskKnows(prod[q])'
  <2>1. PICK y : y = prod[q]
    OBVIOUS
  <2>2. prod'[q] = y /\ y \in Records /\ TaskOK(y) /\ TaskKnows(y)
    BY <1>0, <2>1, TaskFields DEF PInv
  <2>3. CASE y.pc # "off" /\ y.run = r
    <3>1. y.fence < run[r].fence /\ y.settle # "won"
      BY <1>a, <1>1, <1>2, <1>4, <2>1, <2>2, <2>3 DEF PInv, OneTaskEach, TaskKnows, Records
    <3>2. TaskKnows(y)'
      BY <1>2, <1>4, <1>7, <2>2, <2>3, <3>1, ReplacedTask DEF Exists
    <3> QED
      BY <2>1, <2>2, <3>2
  <2>4. CASE y.pc = "off" \/ y.run # r
    BY <1>8, <2>1, <2>2, <2>4 DEF TaskOK
  <2> QED
    BY <2>3, <2>4
<1>b. PICK z : z = AfterAppend(p, answered)
  OBVIOUS
<1>15. z \in Records /\ TaskOK(z) /\ z.fence = x.fence
  <2>1. x.next + 1 \in Nat
    BY <1>1 DEF Records
  <2>2. z \in Records /\ z.fence = x.fence
    <3>1. CASE answered
      <4>1. z = [x EXCEPT !.pending = Nothing, !.next = x.next + 1]
        BY <1>a, <1>b, <3>1 DEF AfterAppend
      <4> QED
        BY <1>1, <2>1, <4>1 DEF Records, Nothing
    <3>2. CASE ~answered
      <4>1. z = [[x EXCEPT !.status = "failed"] EXCEPT !.pending = Nothing, !.broken = TRUE, !.source = FALSE,
                   !.pc = IF @ = "streaming" THEN "settling" ELSE @]
        BY <1>a, <1>b, <3>2 DEF AfterAppend, Failed
      <4> QED
        BY <1>1, <4>1 DEF Records, Nothing
    <3> QED
      BY <3>1, <3>2
  <2>3. TaskOK(z)
    BY <1>a, <1>b, <1>0, <1>1, ProducersAssumption DEF AfterAppend, Failed, Records, Nothing, TaskOK
  <2> QED
    BY <2>2, <2>3
<1>16. TaskKnows(z)'
  <2>1. /\ z.pc # "off" /\ z.run = r /\ z.fence = x.fence /\ z.settle = x.settle /\ z.callback = x.callback
        /\ z.pending = Nothing
        /\ z.source => x.source /\ z.next = x.next + 1
        /\ x.pc = "closing" => z.pc = "closing"
        /\ z.status = "completed" => x.status = "completed" /\ z.pc = x.pc
    BY <1>a, <1>b, <1>1, <1>2 DEF AfterAppend, Failed, Records
  <2>2. x.pending = 0 => ~x.source /\ x.pc = "closing"
    BY <1>1 DEF TaskOK
  <2>3. ~(x.status = "completed" /\ x.pc # "streaming")
    BY <1>0, <1>1 DEF TaskOK
  <2>4. z.source \/ z.pending > 0 => z.next = run'[r].end - run'[r].start + 1
    <3>1. CASE z.source
      <4>1. x.pending > 0 /\ z.next = x.next + 1
        BY <1>1, <2>1, <2>2, <3>1
      <4>2. z.next = (Len(log) - run[r].start + 1) + 1
        BY <1>11, <4>1
      <4>3. run'[r].end - run'[r].start + 1 = (Len(log) - run[r].start + 1) + 1
        BY <1>2, <1>4
      <4> QED
        BY <4>2, <4>3
    <3> QED
      BY <2>1, <3>1 DEF Nothing
  <2>5. Tails(r)' # {} => z.pc = "closing" /\ z.pending = Nothing
    BY <1>1, <1>11, <2>1, <2>2
  <2>6. x.settle = "won" => /\ run'[r].settling
                            /\ run'[r].status \in {"cancel_requested", "cancelled", "failed", "owner_lost"}
                            /\ calls'[r] = IF x.callback = "none" THEN 0 ELSE 1
    BY <1>0, <1>1, <1>4 DEF TaskKnows
  <2>7. Exists(r)' /\ z.fence = run'[r].fence /\ z.fence < fence' /\ z.fence <= MaxFence
    BY <1>1, <1>2, <1>3, <1>4, <2>1 DEF TaskKnows, Exists
  <2> QED
    BY <1>4, <2>1, <2>3, <2>4, <2>5, <2>6, <2>7 DEF TaskKnows
<1>17. /\ prod' \in [Producers -> Records] /\ prod'[p] = z
       /\ follower' \in [Followers -> Loops] /\ calls' \in [Runs -> Nat]
       /\ \A f \in Followers : LoopKnows(follower'[f])
  BY <1>b, <1>0, <1>15 DEF PInv
<1>18. OneTaskEach'
  BY <1>a, <1>1, <1>14, <1>15, <1>17 DEF PInv, OneTaskEach
<1>19. TaskOK(prod'[p]) /\ TaskKnows(prod[p])'
  BY <1>15, <1>16, <1>17
<1>20. \A q \in Producers : TaskOK(prod'[q])
                             /\ ((prod'[q] = prod[q] /\ (prod[q].pc # "off" => Quiet(prod[q].run)))
                                 \/ TaskKnows(prod[q])')
  BY <1>14, <1>19
<1>21. \A q \in Runs : Quiet(q) \/ Active(q)
  BY <1>8, <1>13
<1> QED
  BY <1>2, <1>5, <1>7, <1>17, <1>18, <1>20, <1>21, LedgerSteps

-----------------------------------------------------------------------------
(* A producer starts.                                                       *)

\* What the new record of r, with its new fence, still tells.
Fresh(r) ==
  /\ run'[r].status # None /\ run'[r].status \notin FinalStatuses /\ ~Final(r)
  /\ run'[r].fence = fence' - 1 /\ fence <= run'[r].fence /\ run'[r].fence <= MaxFence /\ fence' \in Nat
  /\ RunTells(r)' /\ Tails(r)' = {}
  /\ run'[r].start \in Nat /\ run'[r].end \in Nat
  /\ run'[r].end - run'[r].start <= SourceLength
  /\ Resume(r, Exists(r)) = run'[r].end - run'[r].start + 1

\* The tasks that worked for r before are replaced.
NoneWon(r) ==
  \A q \in Producers : prod[q].pc # "off" /\ prod[q].run = r => prod[q].settle # "won"

LEMMA StartEffect ==
  ASSUME PInv, LInv', FirstGeneration', Grows, NEW p \in Producers, NEW r \in Runs, Fresh(r), NoneWon(r),
         \A q \in Runs \ {r} : Quiet(q), prod[p].pc = "off", UNCHANGED <<follower, calls>>,
         prod' = [prod EXCEPT ![p] = [Idle EXCEPT !.pc = "streaming", !.source = TRUE, !.run = r,
                                        !.fence = run'[r].fence, !.next = Resume(r, Exists(r))]]
  PROVE  PInv'
<1>a. PICK n : n = Resume(r, Exists(r))
  OBVIOUS
<1>b. PICK z : z = [Idle EXCEPT !.pc = "streaming", !.source = TRUE, !.run = r, !.fence = run'[r].fence, !.next = n]
  OBVIOUS
<1>0. run'[r].fence \in Nat /\ fence \in Nat /\ fence > 0 /\ n \in Nat /\ n > 0 /\ n <= SourceLength + 1
  <2>1. fence \in Nat /\ fence > 0
    BY DEF PInv, LInv, LedgerInvariant, LedgerTypeOK, FirstGeneration, Fences
  <2>2. run'[r].fence \in Nat
    BY <2>1 DEF Fresh
  <2>3. run'[r].start <= run'[r].end
    BY DEF Fresh, RunTells
  <2>4. n = run'[r].end - run'[r].start + 1 /\ run'[r].end - run'[r].start <= SourceLength
        /\ run'[r].start \in Nat /\ run'[r].end \in Nat
    BY <1>a DEF Fresh
  <2> QED
    BY <2>1, <2>2, <2>3, <2>4, ProducersAssumption
<1>1. z \in Records /\ TaskOK(z)
  <2>1. z \in Records
    BY <1>b, <1>0 DEF Records, Idle, Nothing
  <2> QED
    BY <1>b, <1>0, <2>1, ProducersAssumption DEF TaskOK, Idle, Nothing, Fresh
<1>2. /\ z.pc = "streaming" /\ z.run = r /\ z.fence = run'[r].fence /\ z.next = n /\ z.settle = "unclaimed"
      /\ z.pending = Nothing
  BY <1>b DEF Idle
<1>3. TaskKnows(z)'
  <2>1. Exists(r)' /\ z.fence <= run'[r].fence /\ z.fence < fence' /\ z.fence <= MaxFence
    BY <1>0, <1>2 DEF Fresh, Exists
  <2>2. n = run'[r].end - run'[r].start + 1 /\ Tails(r)' = {}
    BY <1>a DEF Fresh
  <2> QED
    BY <1>2, <2>1, <2>2 DEF TaskKnows
<1>4. /\ prod' \in [Producers -> Records] /\ prod'[p] = z /\ follower' \in [Followers -> Loops]
      /\ calls' \in [Runs -> Nat] /\ \A f \in Followers : LoopKnows(follower'[f])
  BY <1>a, <1>b, <1>1 DEF PInv
<1>5. ASSUME NEW q \in Producers \ {p}
      PROVE  /\ prod'[q] = prod[q] /\ TaskOK(prod'[q])
             /\ (prod[q].pc # "off" => Quiet(prod[q].run)) \/ TaskKnows(prod[q])'
             /\ prod[q].pc # "off" => prod[q].fence < z.fence
  <2>1. PICK y : y = prod[q]
    OBVIOUS
  <2>2. prod'[q] = y /\ y \in Records /\ TaskOK(y) /\ TaskKnows(y)
    BY <2>1, TaskFields DEF PInv
  <2>3. y.pc # "off" => y.fence < run'[r].fence
    BY <1>0, <2>2 DEF TaskKnows, Records, Fresh
  <2>4. CASE y.pc # "off" /\ y.run = r
    <3>1. TaskKnows(y)'
      BY <1>0, <2>1, <2>2, <2>3, <2>4, ReplacedTask DEF Fresh, NoneWon
    <3> QED
      BY <1>2, <2>1, <2>2, <2>3, <3>1
  <2>5. CASE y.pc = "off" \/ y.run # r
    BY <1>2, <2>1, <2>2, <2>3, <2>5 DEF TaskOK
  <2> QED
    BY <2>4, <2>5
<1>6. OneTaskEach'
  <2>1. \A q \in Producers \ {p} : prod'[q].pc # "off" => prod'[q].fence \in Nat /\ prod'[q].fence < prod'[p].fence
    BY <1>4, <1>5 DEF PInv, Records
  <2>2. prod'[p].fence \in Nat
    BY <1>1, <1>4 DEF Records
  <2> QED
    BY <1>5, <2>1, <2>2 DEF PInv, OneTaskEach
<1>7. TaskOK(prod'[p]) /\ TaskKnows(prod[p])'
  BY <1>1, <1>3, <1>4
<1>8. \A q \in Producers : TaskOK(prod'[q])
                             /\ ((prod'[q] = prod[q] /\ (prod[q].pc # "off" => Quiet(prod[q].run)))
                                 \/ TaskKnows(prod[q])')
  BY <1>5, <1>7
<1>9. \A q \in Runs : Quiet(q) \/ Active(q)
  BY DEF Active, Fresh, Exists, Final
<1> QED
  BY <1>4, <1>6, <1>8, <1>9, LedgerSteps

\* A run that nobody prepared has no task, no message and no callback.
LEMMA UnknownRun ==
  ASSUME PInv, NEW r \in Runs, ~Exists(r)
  PROVE  NoneWon(r) /\ calls[r] = 0 /\ Tails(r) = {} /\ ~Final(r) /\ Resume(r, Exists(r)) = 1
<1>1. RunTells(r)
  BY DEF PInv
<1>2. calls[r] = 0 /\ Tails(r) = {}
  BY <1>1 DEF RunTells, Exists
<1>3. NoneWon(r)
  BY TaskFields DEF NoneWon, TaskKnows
<1> QED
  BY <1>2, <1>3 DEF Final, Exists, FinalStatuses, Resume

LEMMA CreateStep ==
  ASSUME PInv, LInv', NEW p \in Producers, NEW r \in Runs, NEW rec \in BOOLEAN, NEW canc \in BOOLEAN,
         prod[p].pc = "off", UNCHANGED <<follower, calls>>,
         CreateGeneration(r, rec, canc) \/ CreateRun(r, rec, canc),
         prod' = [prod EXCEPT ![p] = [Idle EXCEPT !.pc = "streaming", !.source = TRUE, !.run = r,
                                        !.fence = run'[r].fence, !.next = Resume(r, Exists(r))]]
  PROVE  PInv'
<1>0. /\ LedgerTypeOK /\ run \in [Runs -> RunRecords] /\ fence \in Nat /\ Len(log) \in Nat
      /\ calls \in [Runs -> Nat]
  BY LogTypes DEF PInv, LInv, LedgerInvariant, LedgerTypeOK
<1>1. ~Exists(r) /\ log' = log /\ fence' = fence + 1 /\ fence <= MaxFence
  <2>1. CASE CreateGeneration(r, rec, canc)
    <3>1. disposition = None /\ fence = 1
      BY <2>1 DEF CreateGeneration, StartsGeneration, Tombstones, PInv, FirstGeneration
    <3> QED
      BY <2>1, <3>1 DEF CreateGeneration, PInv, LInv, TombstonesAreEmpty
  <2>2. CASE CreateRun(r, rec, canc)
    BY <2>2 DEF CreateRun
  <2> QED
    BY <2>1, <2>2
<1>2. Grows /\ \A q \in Runs : Tails(q)' = Tails(q)
  BY <1>0, <1>1, SameLog
<1>3. FirstGeneration' /\ (\A q \in Runs \ {r} : run'[q] = run[q] \/ (q = active /\ run'[q] = LostRun(q)))
      /\ run'[r].status = "running" /\ run'[r].fence = fence /\ run'[r].start = Len(log) /\ run'[r].end = Len(log)
      /\ run'[r].checkpoint = 0 /\ ~run'[r].settling
  <2>1. CASE CreateGeneration(r, rec, canc)
    <3>1. disposition = None /\ fence = 1 /\ generation = 0 /\ run = [q \in Runs |-> NoRun] /\ log = <<>>
      BY <2>1 DEF CreateGeneration, StartsGeneration, Tombstones, PInv, FirstGeneration, LInv, TombstonesAreEmpty
    <3>2. FirstGeneration'
      BY <2>1, <3>1 DEF CreateGeneration, FirstGeneration
    <3> QED
      BY <2>1, <3>1, <3>2 DEF CreateGeneration, NoRun
  <2>2. CASE CreateRun(r, rec, canc)
    <3>1. FirstGeneration'
      BY <1>0, <2>2, SameGeneration DEF CreateRun
    <3> QED
      BY <2>2, <3>1 DEF CreateRun, ReplaceProducer, NoRun
  <2> QED
    BY <2>1, <2>2
<1>4. \A q \in Runs \ {r} : Quiet(q)
  BY <1>1, <1>2, <1>3, LostIsQuiet, SameRun
<1>5. NoneWon(r) /\ calls[r] = 0 /\ Tails(r) = {} /\ ~Final(r) /\ Resume(r, Exists(r)) = 1
  BY <1>1, UnknownRun
<1>6. RunTells(r)'
  BY <1>0, <1>1, <1>2, <1>3, <1>5 DEF RunTells
<1>7. Fresh(r)
  <2>1. run'[r].status # None /\ run'[r].status \notin FinalStatuses /\ Tails(r)' = {}
    BY <1>2, <1>3, <1>5 DEF FinalStatuses
  <2>2. run'[r].end - run'[r].start = 0 /\ 0 <= SourceLength
    BY <1>0, <1>3, ProducersAssumption
  <2>3. run'[r].fence = fence' - 1 /\ fence <= run'[r].fence /\ run'[r].fence <= MaxFence /\ fence' \in Nat
    <3>1. fence \in Nat /\ fence' = fence + 1 /\ fence <= MaxFence
      BY <1>0, <1>1
    <3>2. run'[r].fence = fence
      BY <1>3
    <3> QED
      BY <3>1, <3>2
  <2> QED
    BY <1>0, <1>3, <1>5, <1>6, <2>1, <2>2, <2>3, SMTT(20) DEF Fresh
<1> QED
  BY <1>2, <1>3, <1>4, <1>5, <1>7, StartEffect

LEMMA RecoverStep ==
  ASSUME PInv, LInv', NEW p \in Producers, NEW r \in Runs, NEW rec \in BOOLEAN, NEW canc \in BOOLEAN,
         prod[p].pc = "off", UNCHANGED <<follower, calls>>, RecoverRun(r, rec, canc),
         prod' = [prod EXCEPT ![p] = [Idle EXCEPT !.pc = "streaming", !.source = TRUE, !.run = r,
                                        !.fence = run'[r].fence, !.next = Resume(r, Exists(r))]]
  PROVE  PInv'
<1>0. /\ LedgerTypeOK /\ run \in [Runs -> RunRecords] /\ run[r] \in RunRecords /\ fence \in Nat
      /\ Len(log) \in Nat /\ calls \in [Runs -> Nat] /\ RunTells(r)
  BY LogTypes DEF PInv, LInv, LedgerInvariant, LedgerTypeOK
<1>1. /\ Open /\ Exists(r) /\ ~Final(r) /\ run[r].recoverable /\ fence <= MaxFence
      /\ ~(run[r].status = "cancel_requested" /\ run[r].settling)
      /\ log' = log /\ fence' = fence + 1 /\ UNCHANGED <<generation, disposition>>
      /\ run'[r] = [run[r] EXCEPT !.settling = FALSE, !.cancellable = canc, !.token = TRUE, !.fence = fence,
                                  !.lease = now + LeaseDuration]
      /\ \A q \in Runs \ {r} : run'[q] = run[q]
  BY <1>0 DEF RecoverRun, Abandoned, TakesOver
<1>2. Grows /\ (\A q \in Runs : Tails(q)' = Tails(q)) /\ FirstGeneration'
  BY <1>0, <1>1, SameLog, SameGeneration
<1>3. /\ run'[r].status = run[r].status /\ run'[r].fence = fence /\ run'[r].start = run[r].start
      /\ run'[r].end = run[r].end /\ run'[r].checkpoint = run[r].checkpoint
      /\ run'[r].recoverable = run[r].recoverable
      /\ run[r].start \in Nat /\ run[r].end \in Nat
  BY <1>0, <1>1 DEF RunRecords
<1>4. \A q \in Runs \ {r} : Quiet(q)
  BY <1>1, <1>2, SameRun
<1>5. run[r].status # "completed" /\ run[r].status # "cancelled"
  BY <1>1 DEF Final, FinalStatuses
<1>6. calls[r] = 0 /\ Tails(r) = {}
  <2>1. calls[r] # 1
    BY <1>0, <1>1 DEF RunTells, Final, FinalStatuses
  <2> QED
    BY <1>0, <2>1 DEF RunTells
<1>7. NoneWon(r)
  <2> SUFFICES ASSUME NEW q \in Producers, prod[q].pc # "off", prod[q].run = r PROVE prod[q].settle # "won"
    BY DEF NoneWon
  <2> QED
    BY <1>1, TaskFields DEF TaskKnows, Final, FinalStatuses
<1>8. RunTells(r)'
  BY <1>0, <1>1, <1>2, <1>3, <1>5, <1>6 DEF RunTells
<1>9. Resume(r, Exists(r)) = run[r].end - run[r].start + 1 /\ run[r].end - run[r].start <= SourceLength
  <2>1. CASE run[r].end = run[r].start
    <3>1. run[r].checkpoint = 0
      BY <1>0, <1>1, <2>1 DEF RunTells
    <3>2. Resume(r, Exists(r)) = 1
      BY <3>1 DEF Resume
    <3> QED
      BY <1>3, <2>1, <3>2, ProducersAssumption
  <2>2. CASE run[r].end # run[r].start
    <3>1. run[r].checkpoint = run[r].end /\ run[r].end > 0 /\ run[r].end \in run[r].start + 1 .. run[r].end
          /\ run[r].end \in 1..Len(log)
      BY <1>0, <1>1, <1>3, <2>2 DEF RunTells
    <3>2. log[run[r].end].id # Id(r, 0)
      BY <1>0, <1>6, <3>1, LogTypes DEF Tails
    <3>3. log[run[r].end].id = Id(r, run[r].end - run[r].start) /\ run[r].end - run[r].start <= SourceLength
      BY <1>0, <3>1, <3>2 DEF RunTells
    <3>4. log[run[r].end].id[2] = run[r].end - run[r].start
      BY <3>3 DEF Id
    <3> QED
      BY <1>1, <3>1, <3>3, <3>4 DEF Resume
  <2> QED
    BY <2>1, <2>2
<1>10. Fresh(r)
  BY <1>0, <1>1, <1>2, <1>3, <1>6, <1>8, <1>9, SMTT(20) DEF Fresh, Exists, Final
<1> QED
  BY <1>2, <1>4, <1>7, <1>10, StartEffect

LEMMA StartStep ==
  ASSUME PInv, NEW p \in Producers, NEW r \in Runs, NEW rec \in BOOLEAN, NEW canc \in BOOLEAN,
         StartProducer(p, r, rec, canc)
  PROVE  PInv'
<1>1. LInv'
  BY CallsKeepLedger DEF CallStep
<1> QED
  BY <1>1, CreateStep, RecoverStep DEF StartProducer, AcquireRun, Step

-----------------------------------------------------------------------------
(* The producers' specification.                                            *)

LEMMA ProducersInitial == ProducersInit => PInv
<1> SUFFICES ASSUME ProducersInit PROVE PInv
  OBVIOUS
<1>1. LInv
  BY LedgerInitial DEF ProducersInit
<1>2. FirstGeneration /\ run = [r \in Runs |-> NoRun] /\ log = <<>>
  BY DEF ProducersInit, LedgerInit, FirstGeneration
<1>3. /\ prod \in [Producers -> Records] /\ calls \in [Runs -> Nat]
      /\ \A p \in Producers : TaskOK(prod[p]) /\ TaskKnows(prod[p]) /\ prod[p].pc = "off"
  BY IdleTask DEF ProducersInit
<1>4. follower \in [Followers -> Loops] /\ \A f \in Followers : LoopKnows(follower[f])
  <2>1. Detached \in Loops /\ LoopKnows(Detached)
    BY DEF Detached, Loops, LoopKnows
  <2> QED
    BY <2>1 DEF ProducersInit
<1>5. OneTaskEach
  BY <1>3 DEF OneTaskEach
<1>6. ASSUME NEW r \in Runs PROVE RunTells(r)
  <2>1. Tails(r) = {} /\ Len(log) = 0
    BY <1>2 DEF Tails
  <2> QED
    BY <1>2, <2>1 DEF RunTells, NoRun, ProducersInit
<1> QED
  BY <1>1, <1>2, <1>3, <1>4, <1>5, <1>6 DEF PInv

LEMMA ProducersStep == PInv /\ [ProducersNext]_allVars => PInv' /\ [LedgerNext]_ledgerVars
<1> SUFFICES ASSUME PInv, [ProducersNext]_allVars PROVE PInv' /\ [LedgerNext]_ledgerVars
  OBVIOUS
<1>1. CASE UNCHANGED allVars
  <2>1. UNCHANGED <<ledgerVars, prod, follower, calls>>
    BY <1>1 DEF allVars, producerVars
  <2>2. /\ LInv' /\ FirstGeneration' /\ run' = run /\ log' = log /\ fence' = fence
        /\ fence \in Nat
    BY <2>1, LedgerStep, SameGeneration DEF ledgerVars, PInv, LInv, LedgerInvariant, LedgerTypeOK
  <2>3. Grows /\ \A q \in Runs : Quiet(q)
    BY <2>1, <2>2, SameLog, SameRun
  <2>4. /\ prod' \in [Producers -> Records] /\ follower' \in [Followers -> Loops] /\ calls' \in [Runs -> Nat]
        /\ \A f \in Followers : LoopKnows(follower'[f])
    BY <2>1 DEF PInv
  <2>5. PInv'
    BY <2>1, <2>2, <2>3, <2>4, QuietSteps
  <2> QED
    BY <2>1, <2>5
<1>2. ASSUME NEW p \in Producers, LocalStep(p) PROVE PInv' /\ [LedgerNext]_ledgerVars
  BY <1>2, LocalSteps
<1>3. ASSUME NEW p \in Producers, InvokeCallback(p) PROVE PInv' /\ [LedgerNext]_ledgerVars
  BY <1>3, CallbackStep DEF InvokeCallback, NoBackendCall
<1>4. ASSUME NEW f \in Followers, FollowerStep(f) \/ \E r \in Runs : Follow(f, r)
      PROVE  PInv' /\ [LedgerNext]_ledgerVars
  <2>1. PInv'
    BY <1>4, FollowerSteps
  <2>2. CASE ReconcileBound(f)
    BY <2>1, <2>2, CallsAreTransitions DEF CallStep
  <2>3. CASE ~ReconcileBound(f)
    BY <1>4, <2>1, <2>3 DEF FollowerStep, ReadPage, Stop, ReadAgain, Follow, NoBackendCall
  <2> QED
    BY <2>2, <2>3
<1>5. ASSUME NEW p \in Producers, NEW r \in Runs, NEW rec \in BOOLEAN, NEW canc \in BOOLEAN,
             StartProducer(p, r, rec, canc)
      PROVE  PInv' /\ [LedgerNext]_ledgerVars
  BY <1>5, StartStep, CallsAreTransitions DEF CallStep
<1>6. ASSUME NEW p \in Producers, NEW answered \in BOOLEAN, AppendCommits(p, answered)
      PROVE  PInv' /\ [LedgerNext]_ledgerVars
  BY <1>6, AppendStep, CallsAreTransitions DEF CallStep
<1>7. ASSUME NEW p \in Producers, ClaimSettlement(p) \/ SettlementFails(p, TRUE)
      PROVE  PInv' /\ [LedgerNext]_ledgerVars
  BY <1>7, ClaimSteps, CallsAreTransitions DEF CallStep
<1>8. ASSUME NEW p \in Producers, Finish(p) PROVE PInv' /\ [LedgerNext]_ledgerVars
  BY <1>8, FinishStep, CallsAreTransitions DEF CallStep
<1>9. ASSUME \/ \E p \in Producers : \/ \E r \in Runs, rec \in BOOLEAN : AttachLosing(p, r, rec)
                                     \/ Renew(p)
             \/ \E r \in Runs : Cancel(r)
             \/ Tick
      PROVE  PInv' /\ [LedgerNext]_ledgerVars
  BY <1>9, PassiveSteps, CallsAreTransitions DEF CallStep
<1>10. ASSUME NEW p \in Producers, ProducerStep(p) PROVE PInv' /\ [LedgerNext]_ledgerVars
  <2>1. ASSUME \E committed \in BOOLEAN : SettlementFails(p, committed)
        PROVE  PInv' /\ [LedgerNext]_ledgerVars
    <3>1. SettlementFails(p, TRUE) \/ SettlementFails(p, FALSE)
      BY <2>1
    <3> QED
      BY <3>1, <1>2, <1>7 DEF LocalStep
  <2> QED
    BY <1>2, <1>3, <1>6, <1>7, <1>8, <1>10, <2>1 DEF ProducerStep, LocalStep
<1>11. ASSUME ProducersNext PROVE PInv' /\ [LedgerNext]_ledgerVars
  <2>1. ASSUME NEW p \in Producers,
               SourceFails(p) \/ CloseFails(p) \/ RenewFails(p) \/ Shutdown(p) \/ Crash(p)
        PROVE  PInv' /\ [LedgerNext]_ledgerVars
    BY <1>2, <2>1 DEF LocalStep
  <2> QED
    BY <1>4, <1>5, <1>9, <1>10, <1>11, <2>1 DEF ProducersNext
<1> QED
  BY <1>1, <1>11

\* What the tasks, the loops and the ledger know of each other holds in every state.
THEOREM ProducersInductive == ProducersSpec => []PInv
BY ProducersInitial, ProducersStep, PTL DEF ProducersSpec

\* The producer tasks and the follow loops change the durable state of a thread only by
\* the ledger's own transitions: whatever is proved of the ledger holds of them.
THEOREM ProducersUseTheLedger == ProducersSpec => LedgerSpec
<1>1. ProducersInit => LedgerInit
  BY DEF ProducersInit
<1> QED
  BY <1>1, ProducersStep, ProducersInductive, PTL DEF ProducersSpec, LedgerSpec

\* However often a run is taken over, and whatever becomes of appends whose answers are
\* lost: the committed messages are the first ones of the source, in order and without a
\* gap, and a run is completed only with all of them (consume_source, commit_messages).
THEOREM SourcesAreWhole == ProducersSpec => []SourceIsWhole
<1>1. PInv => SourceIsWhole
  <2> SUFFICES ASSUME PInv PROVE SourceIsWhole
    OBVIOUS
  <2>1. SourceWithoutGap
    BY DEF PInv, RunTells, SourceWithoutGap
  <2>2. CompletedIsWhole
    BY DEF PInv, RunTells, CompletedIsWhole
  <2>3. ASSUME NEW p \in Producers
        PROVE  /\ prod[p].pc \in {"off", "streaming", "settling", "settled", "closing"}
               /\ prod[p].run \in Runs \cup {None}
               /\ prod[p].next \in 0..SourceLength + 2
               /\ prod[p].pending \in Nothing..SourceLength
               /\ prod[p].status \in FinalStatuses
    BY TaskFields, ProducersAssumption DEF TaskOK, Records, Nothing, FinalStatuses
  <2>4. ASSUME NEW f \in Followers PROVE follower[f].cursor \in 0..Len(log)
    <3>1. follower[f] \in Loops /\ LoopKnows(follower[f]) /\ Len(log) \in Nat
      BY LogTypes DEF PInv, LInv, LedgerInvariant
    <3> QED
      BY <3>1 DEF LoopKnows, Loops
  <2> QED
    BY <2>1, <2>2, <2>3, <2>4 DEF SourceIsWhole, ProducersTypeOK, PInv
<1> QED
  BY <1>1, ProducersInductive, PTL

\* The cancel callback runs at most once for a run, over all its producers, and never for
\* one that completes; its tail follows everything else (claim_cancel_callback, settle).
THEOREM CancellationsAreOrderly == ProducersSpec => []CancellationIsOrderly
<1>1. PInv => CancellationIsOrderly
  BY DEF PInv, RunTells, CancellationIsOrderly, CallbackOnce, TailIsLast
<1> QED
  BY <1>1, ProducersInductive, PTL

\* A subscription that ended has delivered its run to the last message, and nothing after
\* it, whatever was reconciled while it read (follow).
THEOREM FollowersSeeTheEnd == ProducersSpec => []FollowedToTheEnd
<1>1. PInv => FollowedToTheEnd
  <2> SUFFICES ASSUME PInv, NEW f \in Followers, follower[f].pc = "stopped"
               PROVE  Final(follower[f].run) /\ follower[f].cursor = run[follower[f].run].end
    BY DEF FollowedToTheEnd
  <2>1. follower[f] \in Loops /\ LoopKnows(follower[f]) /\ run \in [Runs -> RunRecords]
    BY DEF PInv, LInv, LedgerInvariant, LedgerTypeOK
  <2> QED
    BY <2>1 DEF LoopKnows, Loops, RunRecords
<1> QED
  BY <1>1, ProducersInductive, PTL
==============================================================================
