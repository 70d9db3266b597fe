------------------------ MODULE SandboxAvailability ------------------------
(***************************************************************************)
(* Pause and resume of one bound sandbox (tinkerfin-sandbox, lifecycle).   *)
(* The intent is one row of the State, changed by compare-and-set under    *)
(* the owner's claim.  Every manager with a handle has a holder row; it    *)
(* polls the intent, closes its handle and acknowledges that no call of    *)
(* its own is in flight.  Only then is the server asked to pause.          *)
(*                                                                         *)
(* The binding does not change here: SandboxOwnership replaces sandboxes.  *)
(* A manager runs one operation at a time and serves the calls of one      *)
(* handle; the synchronize calls of an operation are the poll's steps.     *)
(***************************************************************************)
EXTENDS Naturals

CONSTANTS
  Holders,        \* the manager processes
  MaxSequence,    \* bound: changes of the intent
  MaxMishaps      \* bound: lost leases, failed steps, crashes and closes

ASSUME AvailabilityAssumption == MaxSequence \in Nat /\ MaxMishaps \in Nat

VARIABLES
  avail,      \* the row: phase, sequence, connection generation
  row,        \* [Holders -> holder row: registered, sequence acknowledged (0: none)]
  claim,      \* the owner's claim: holder, live
  instance,   \* the sandbox at the server
  requests,   \* requests that the server may still carry out
  local,      \* [Holders -> the handle: snapshot known, open, calls, connection]
  op,         \* [Holders -> the operation: kind, pc, seen, original phase, state of the sandbox it saw]
  sync,       \* [Holders -> the poll: pc, update]
  refresh,    \* [Holders -> generation attempted, task wanted]
  alive,
  late,       \* history: handles that were registered by an operation without its claim
  adopted,    \* history: handles that took over a new generation without a new connection
  mishaps

availabilityVars == <<avail, row, claim, instance, requests, local, op, sync, refresh, alive, late, adopted, mishaps>>

Nobody == "nobody"
NoSnapshot == [phase |-> "none", sequence |-> 0, connection |-> 0]
NoOp == [kind |-> "none", pc |-> "idle", seen |-> NoSnapshot, original |-> "none",
         saw |-> "none"]
NoSync == [pc |-> "off", update |-> NoSnapshot]

AvailabilityInit ==
  /\ avail = [phase |-> "running", sequence |-> 0, connection |-> 0]
  /\ row = [h \in Holders |-> [registered |-> FALSE, ack |-> 0]]
  /\ claim = [holder |-> Nobody, live |-> FALSE]
  /\ instance = "running"
  /\ requests = {}
  /\ local = [h \in Holders |-> [known |-> NoSnapshot, open |-> FALSE, calls |-> 0, connection |-> 0]]
  /\ op = [h \in Holders |-> NoOp]
  /\ sync = [h \in Holders |-> NoSync]
  /\ refresh = [h \in Holders |-> [attempted |-> 0, wanted |-> FALSE]]
  /\ alive = [h \in Holders |-> TRUE]
  /\ late = {}
  /\ adopted = {}
  /\ mishaps = 0

Mishap == mishaps < MaxMishaps /\ mishaps' = mishaps + 1

-----------------------------------------------------------------------------
(* The State.                                                               *)

Holding(h) == claim = [holder |-> h, live |-> TRUE]

Transitions == [running  |-> {"draining", "resuming"},
                draining |-> {"running", "paused", "pausing"},
                pausing  |-> {"paused", "running"},
                paused   |-> {"resuming", "draining"},
                resuming |-> {"running", "paused"}]

\* change_availability: an exact snapshot is replaced under the claim.
CanChange(h, phase) ==
  /\ Holding(h) /\ avail = op[h].seen
  /\ phase \in Transitions[avail.phase]
  /\ avail.sequence < MaxSequence

\* Holders reconnect after a resume only.
NextAvailability(phase) ==
  [phase |-> phase, sequence |-> avail.sequence + 1,
   connection |-> IF avail.phase = "resuming" /\ phase = "running" THEN avail.connection + 1
                                                                   ELSE avail.connection]

\* The change, and the operation that goes on with its result.
Change(h, phase, pc) ==
  /\ CanChange(h, phase)
  /\ avail' = NextAvailability(phase)
  /\ op' = [op EXCEPT ![h].seen = NextAvailability(phase), ![h].pc = pc]

\* A change that takes back an earlier one: nobody has to reconnect.
Undo(h, phase, pc) ==
  LET undone == [phase |-> phase, sequence |-> avail.sequence + 1, connection |-> avail.connection] IN
  /\ CanChange(h, phase)
  /\ avail' = undone
  /\ op' = [op EXCEPT ![h].seen = undone, ![h].pc = pc]

\* The change, when it is the first of an operation that may have to take it back.
ChangeFirst(h, phase, pc) ==
  /\ CanChange(h, phase)
  /\ avail' = NextAvailability(phase)
  /\ op' = [op EXCEPT ![h].seen = NextAvailability(phase), ![h].pc = pc,
                      ![h].original = op[h].seen.phase]

\* Faulty variant: an acknowledgement of an earlier drain counts.
AnyAcknowledged == \A h \in Holders : row[h].registered => row[h].ack # 0

\* _all_holders_idle
AllHoldersIdle == \A h \in Holders : row[h].registered => row[h].ack = avail.sequence

-----------------------------------------------------------------------------
(* An operation claims the owner, reads the intent, and ends with a release.*)

Step(h, pc) == op' = [op EXCEPT ![h].pc = pc]
OthersThanOp == UNCHANGED <<row, claim, instance, requests, local, sync, refresh, alive, late, adopted>>
OnlyOp == OthersThanOp /\ UNCHANGED mishaps

ClaimOwner(h, kind) ==
  /\ alive[h] /\ op[h] = NoOp
  /\ kind = "refresh" => refresh[h].wanted
  /\ ~claim.live
  /\ claim' = [holder |-> h, live |-> TRUE]
  /\ op' = [op EXCEPT ![h] = [NoOp EXCEPT !.kind = kind, !.pc = "reading"]]
  /\ refresh' = [refresh EXCEPT ![h].wanted = @ /\ kind # "refresh"]
  /\ UNCHANGED <<avail, row, instance, requests, local, sync, alive, late, adopted, mishaps>>

\* What an operation does about the intent it finds: a request that has no known outcome is
\* confirmed first, calls and reconnections need a running sandbox.
Plan(kind, phase) ==
  LET pending == phase \in {"pausing", "resuming"} IN
  CASE kind \in {"get", "refresh"} -> IF phase = "running" THEN "connecting" ELSE "releasing"
    [] kind = "pause" -> IF pending THEN "confirming"
                         ELSE IF phase = "running" \/ (phase = "paused" /\ instance # "paused") THEN "closing"
                         ELSE "releasing"
    [] kind = "resume" -> IF pending THEN "confirming"
                          ELSE IF phase = "draining" THEN "reopening" ELSE "inspecting"

ReadIntent(h) ==
  LET o == op[h] IN
  /\ o.pc = "reading"
  /\ op' = [op EXCEPT ![h].seen = avail,
                      ![h].pc = IF o.kind = "refresh" /\ local[h].known = avail THEN "releasing"
                                                                                ELSE Plan(o.kind, avail.phase)]
  /\ UNCHANGED avail /\ OnlyOp

\* Faulty variant: a request is taken for done when it was sent.
Presumed(target) == TRUE

\* _confirm_pending: only the sight of the target settles a request that may be late.
Observed(target) == instance = target

Confirm(h) ==
  LET target == IF op[h].seen.phase = "pausing" THEN "paused" ELSE "running" IN
  /\ op[h].pc = "confirming"
  /\ Observed(target)
  /\ Change(h, target, Plan(op[h].kind, target))
  /\ OnlyOp

\* A step that is refused without the claim, fails or runs out of time ends the operation;
\* what it has sent may still be carried out.
GiveUp(h) ==
  /\ op[h].pc \in {"reading", "confirming", "closing", "reopening", "inspecting", "waking", "sent", "resumeSent",
                   "rejected", "connecting", "registering", "committing", "registered"}
  /\ (~Holding(h) /\ UNCHANGED mishaps) \/ Mishap
  /\ Step(h, "releasing")
  /\ UNCHANGED avail /\ OthersThanOp

ReleaseClaim(h) ==
  /\ op[h].pc = "releasing"
  /\ claim' = IF claim.holder = h THEN [holder |-> Nobody, live |-> FALSE] ELSE claim
  /\ op' = [op EXCEPT ![h] = NoOp]
  /\ UNCHANGED <<avail, row, instance, requests, local, sync, refresh, alive, late, adopted, mishaps>>

ExpireClaim ==
  /\ claim.live /\ Mishap
  /\ claim' = [claim EXCEPT !.live = FALSE]
  /\ UNCHANGED <<avail, row, instance, requests, local, op, sync, refresh, alive, late, adopted>>

-----------------------------------------------------------------------------
(* pause                                                                    *)

BeginDrain(h) == op[h].pc = "closing" /\ ChangeFirst(h, "draining", "draining") /\ OnlyOp

Drained(h) ==
  /\ op[h].pc = "draining"
  /\ AllHoldersIdle
  /\ Change(h, "pausing", "pausing")
  /\ OnlyOp

\* _settle_failed_drain: a timeout or a cancellation before the request was sent.
CancelDrain(h) ==
  /\ op[h].pc \in {"draining", "pausing"}
  /\ \/ Mishap /\ Undo(h, op[h].original, "releasing")
     \/ /\ ~Holding(h)
        /\ Step(h, "releasing") /\ UNCHANGED <<avail, mishaps>>
  /\ OthersThanOp

Send(h, request, pc) ==
  /\ requests' = requests \cup {request}
  /\ Step(h, pc)
  /\ UNCHANGED <<avail, row, claim, instance, local, sync, refresh, alive, late, adopted, mishaps>>

SendPause(h) == op[h].pc = "pausing" /\ Send(h, "pause", "sent")

Paused(h) ==
  /\ op[h].pc = "sent"
  /\ "pause" \notin requests /\ instance = "paused"
  /\ Change(h, "paused", "releasing")
  /\ OnlyOp

-----------------------------------------------------------------------------
(* resume                                                                   *)

Reopen(h) == op[h].pc = "reopening" /\ Change(h, "running", "inspecting") /\ OnlyOp

\* The state of the sandbox is read before the intent changes, and used after.
Inspect(h) ==
  LET asleep == op[h].seen.phase = "paused" \/ (op[h].seen.phase = "running" /\ instance = "paused") IN
  /\ op[h].pc = "inspecting"
  /\ op' = [op EXCEPT ![h].saw = instance, ![h].pc = IF asleep THEN "waking" ELSE "connecting"]
  /\ UNCHANGED avail /\ OnlyOp

Wake(h) == op[h].pc = "waking" /\ ChangeFirst(h, "resuming", "resuming") /\ OnlyOp

\* No request is sent when the sandbox was seen running.
SendResume(h) ==
  /\ op[h].pc = "resuming"
  /\ \/ op[h].saw # "running" /\ Send(h, "resume", "resumeSent")
     \/ op[h].saw = "running" /\ Step(h, "resumeSent") /\ UNCHANGED avail /\ OnlyOp

CancelResume(h) ==
  /\ op[h].pc = "resuming"
  /\ \/ Mishap /\ Undo(h, op[h].original, "releasing")
     \/ /\ ~Holding(h)
        /\ Step(h, "releasing") /\ UNCHANGED <<avail, mishaps>>
  /\ OthersThanOp

Resumed(h) ==
  /\ op[h].pc = "resumeSent"
  /\ "resume" \notin requests /\ instance = "running"
  /\ Change(h, "running", "connecting")
  /\ OnlyOp

-----------------------------------------------------------------------------
(* The server.                                                              *)

Target(request) == IF request = "pause" THEN "paused" ELSE "running"

Serve(request) ==
  /\ request \in requests
  /\ requests' = requests \ {request}
  /\ instance' = Target(request)
  /\ UNCHANGED <<avail, row, claim, local, op, sync, refresh, alive, late, adopted, mishaps>>

\* Somebody else resumes a paused sandbox.  An outside pause, or an outside change between
\* the look at the sandbox that decides about a request and the outcome of that request,
\* would pass for the effect of the request.
ResumeOutside ==
  /\ avail.phase = "paused" /\ instance = "paused" /\ Mishap
  /\ \A h \in Holders : op[h].pc # "waking"
  /\ instance' = "running"
  /\ UNCHANGED <<avail, row, claim, requests, local, op, sync, refresh, alive, late, adopted>>

\* The server refuses a request, and its client knows.
Reject(h) ==
  LET request == IF op[h].pc = "sent" THEN "pause" ELSE "resume" IN
  /\ op[h].pc \in {"sent", "resumeSent"} /\ op[h].saw # "running" /\ request \in requests
  /\ Mishap
  /\ requests' = requests \ {request}
  /\ Step(h, "rejected")
  /\ UNCHANGED <<avail, row, claim, instance, local, sync, refresh, alive, late, adopted>>

\* _restore_rejected
Restore(h) ==
  LET original == IF op[h].seen.phase = "pausing" THEN "running" ELSE "paused" IN
  /\ op[h].pc = "rejected"
  /\ instance = original
  /\ Undo(h, original, "releasing")
  /\ OnlyOp

-----------------------------------------------------------------------------
(* Handles: recover_binding and register, the poll, and the calls.          *)

OnlyHandle == UNCHANGED <<avail, claim, instance, requests, sync, refresh, alive, mishaps>>

\* A get may keep the connection of an open handle; every other operation connects again.
Connect(h) ==
  /\ op[h].pc = "connecting"
  /\ \/ op[h].kind = "get" /\ local[h].open /\ UNCHANGED <<local, adopted>>
     \/ /\ instance = "running"
        /\ local' = [local EXCEPT ![h].connection = avail.connection]
        /\ adopted' = adopted \ {h}
  /\ Step(h, "registering")
  /\ OnlyHandle /\ UNCHANGED <<row, late>>

\* register keeps the snapshot before the row is written, so that a close can remove it.
BeginRegister(h) ==
  /\ op[h].pc = "registering" /\ avail.phase = "running"
  /\ local' = [local EXCEPT ![h].known = avail]
  /\ late' = IF Holding(h) THEN late ELSE late \cup {h}
  /\ Step(h, "committing")
  /\ OnlyHandle /\ UNCHANGED <<row, adopted>>

RegisterHolder(h) ==
  /\ op[h].pc = "committing"
  /\ Holding(h) /\ avail.phase = "running"
  /\ row' = [row EXCEPT ![h] = [registered |-> TRUE, ack |-> 0]]
  /\ op' = [op EXCEPT ![h].seen = avail, ![h].pc = "registered"]
  /\ OnlyHandle /\ UNCHANGED <<local, late, adopted>>

EndRegister(h) ==
  /\ op[h].pc = "registered"
  /\ local' = [local EXCEPT ![h].known = op[h].seen, ![h].open = TRUE]
  /\ late' = IF Holding(h) THEN late ELSE late \cup {h}
  /\ Step(h, "releasing")
  /\ OnlyHandle /\ UNCHANGED <<row, adopted>>

OnlyPoll == UNCHANGED <<avail, claim, instance, requests, op, alive, late, mishaps>>

SyncRead(h) ==
  /\ alive[h] /\ sync[h] = NoSync
  /\ row[h].registered
  /\ sync' = [sync EXCEPT ![h] = [pc |-> "applying", update |-> avail]]
  /\ OnlyPoll /\ UNCHANGED <<row, local, refresh, adopted>>

\* Faulty variant: whatever resumed, the handle opens on the connection it has.
NeverReconnects(u, known) == FALSE

Reconnects(u, known) == u.connection # known.connection

Idle(h) == local[h].calls = 0

\* synchronize: an old update is ignored; a closed intent closes the handle, and whatever
\* generation it names counts as known; a resumed one asks for a new connection, once for
\* each generation; the known generation opens it.
SyncApply(h) ==
  LET u == sync[h].update
      known == local[h].known
      end == [sync EXCEPT ![h] = NoSync] IN
  /\ sync[h].pc = "applying"
  /\ \/ /\ u.sequence < known.sequence
        /\ sync' = end /\ UNCHANGED <<local, refresh, adopted>>
     \/ /\ u.sequence >= known.sequence /\ u.phase # "running"
        /\ local' = [local EXCEPT ![h].open = FALSE, ![h].known = u]
        /\ adopted' = IF u.connection > local[h].connection THEN adopted \cup {h} ELSE adopted
        /\ sync' = IF u.phase = "draining" /\ Idle(h) THEN [sync EXCEPT ![h].pc = "acknowledging"] ELSE end
        /\ UNCHANGED refresh
     \/ /\ u.sequence >= known.sequence /\ u.phase = "running" /\ Reconnects(u, known)
        /\ local' = [local EXCEPT ![h].open = FALSE]
        /\ refresh' = IF refresh[h].attempted = u.connection THEN refresh
                      ELSE [refresh EXCEPT ![h] = [attempted |-> u.connection, wanted |-> TRUE]]
        /\ sync' = end /\ UNCHANGED adopted
     \/ /\ u.sequence >= known.sequence /\ u.phase = "running" /\ ~Reconnects(u, known)
        /\ local' = [local EXCEPT ![h].open = TRUE, ![h].known = u]
        /\ sync' = end /\ UNCHANGED <<refresh, adopted>>
  /\ OnlyPoll /\ UNCHANGED row

\* acknowledge_idle: recorded only for the drain that is still current.
Acknowledge(h) ==
  /\ sync[h].pc = "acknowledging"
  /\ row' = IF avail = sync[h].update /\ row[h].registered
            THEN [row EXCEPT ![h].ack = avail.sequence] ELSE row
  /\ sync' = [sync EXCEPT ![h] = NoSync]
  /\ OnlyPoll /\ UNCHANGED <<local, refresh, adopted>>

OnlyCalls == UNCHANGED <<avail, row, claim, instance, requests, op, sync, refresh, alive, late, adopted, mishaps>>

StartCall(h) ==
  /\ alive[h] /\ local[h].open /\ local[h].calls = 0
  /\ local' = [local EXCEPT ![h].calls = 1]
  /\ OnlyCalls

EndCall(h) ==
  /\ local[h].calls = 1
  /\ local' = [local EXCEPT ![h].calls = 0]
  /\ OnlyCalls

\* The process is gone; its row stays, and its call may go on at the server.
CrashHolder(h) ==
  /\ alive[h] /\ Mishap
  /\ alive' = [alive EXCEPT ![h] = FALSE]
  /\ local' = [local EXCEPT ![h].open = FALSE]
  /\ op' = [op EXCEPT ![h] = NoOp]
  /\ sync' = [sync EXCEPT ![h] = NoSync]
  /\ UNCHANGED <<avail, row, claim, instance, requests, refresh, late, adopted>>

\* aclose: operations and the poll end, the handle waits for its calls, its row is removed.
CloseHolder(h) ==
  /\ alive[h] /\ op[h] = NoOp /\ sync[h] = NoSync /\ Idle(h) /\ Mishap
  /\ alive' = [alive EXCEPT ![h] = FALSE]
  /\ local' = [local EXCEPT ![h].open = FALSE]
  /\ row' = [row EXCEPT ![h] = [registered |-> FALSE, ack |-> 0]]
  /\ UNCHANGED <<avail, claim, instance, requests, op, sync, refresh, late, adopted>>

AvailabilityNext ==
  \/ \E h \in Holders, kind \in {"get", "pause", "resume", "refresh"} : ClaimOwner(h, kind)
  \/ \E h \in Holders :
       \/ ReadIntent(h) \/ Confirm(h) \/ GiveUp(h) \/ ReleaseClaim(h)
       \/ BeginDrain(h) \/ Drained(h) \/ CancelDrain(h) \/ SendPause(h) \/ Paused(h)
       \/ Reopen(h) \/ Inspect(h) \/ Wake(h) \/ SendResume(h) \/ CancelResume(h) \/ Resumed(h)
       \/ Reject(h) \/ Restore(h)
       \/ Connect(h) \/ BeginRegister(h) \/ RegisterHolder(h) \/ EndRegister(h)
       \/ SyncRead(h) \/ SyncApply(h) \/ Acknowledge(h)
       \/ StartCall(h) \/ EndCall(h) \/ CrashHolder(h) \/ CloseHolder(h)
  \/ \E request \in {"pause", "resume"} : Serve(request)
  \/ ExpireClaim \/ ResumeOutside

AvailabilitySpec == AvailabilityInit /\ [][AvailabilityNext]_availabilityVars

-----------------------------------------------------------------------------
(* Properties.                                                              *)

Phases == {"running", "draining", "pausing", "paused", "resuming"}

\* The intent, the rows, the handles and the requests have the values the State and the
\* manager give them; only a current row can have acknowledged the current sequence.
AvailabilityTypeOK ==
  /\ avail.phase \in Phases /\ avail.sequence \in 0 .. MaxSequence /\ avail.connection \in Nat
  /\ instance \in {"running", "paused"} /\ requests \subseteq {"pause", "resume"}
  /\ claim.holder \in Holders \cup {Nobody}
  /\ \A h \in Holders :
       /\ row[h].ack \in 0 .. avail.sequence /\ (row[h].ack # 0 => row[h].registered)
       /\ local[h].calls \in 0 .. 1 /\ local[h].connection <= avail.connection
       /\ local[h].known.sequence <= avail.sequence

\* From the request to pause until the sandbox runs again, no handle of any manager has a
\* call in flight or lets one begin, lost workers included; except a handle that an
\* operation registered, or opened on its answer, after it had lost the claim.
PauseIsQuiet ==
  avail.phase \in {"pausing", "paused", "resuming"} =>
    \A h \in Holders \ late : local[h].calls = 0 /\ ~local[h].open

\* After a resume a call runs only on a connection made since, however late the poll or the
\* refresh comes; except on a handle that took over the new generation from the snapshot of
\* a later drain, without a new connection, and that a cancelled drain then opens again.
ConnectedSinceResume ==
  \A h \in Holders \ (late \cup adopted) : local[h].calls > 0 => local[h].connection = avail.connection

\* A request that may still be carried out is the one the intent names: none arrives after
\* the intent has moved on, whoever lost its claim, its answer or its process in between.
RequestMatchesIntent ==
  /\ "pause" \in requests => avail.phase = "pausing"
  /\ "resume" \in requests => avail.phase = "resuming"
\* Calls respect the intent: none while the sandbox is paused, none on a connection from
\* before a resume, but for the handles of late registrations and adopted generations.
CallsRespectIntent == AvailabilityTypeOK /\ PauseIsQuiet /\ ConnectedSinceResume
=============================================================================
