---------------------------- MODULE RemoteTools ----------------------------
(***************************************************************************)
(* Remote execution: RemoteTools and RemoteEndpoint (remote.py) keep the    *)
(* coordinator's ledger, ToolWorker (worker.py) processes share the         *)
(* worker's, and duplex delivery (_transport.py) moves frames between them  *)
(* over connections that break at any point.  Either side may crash and     *)
(* restart; the ledgers stay.                                               *)
(***************************************************************************)
EXTENDS RemoteLedger

CONSTANTS
  Workers,      \* worker processes on one ledger
  FrameItems,   \* items of a kind that one frame carries
  MaxRunning,   \* limits.concurrent_operations
  MaxOutputs,   \* bound: progress events of an operation
  MaxCalls,     \* bound: calls of an operation
  MaxFaults,    \* bound: crashes, restarts and broken connections
  MayRevoke,    \* whether the host revokes the endpoint
  MayMaintain   \* whether it uses maintenance contexts

ASSUME DeliveryAssumption ==
  /\ FrameItems \in Nat \ {0} /\ MaxRunning \in Nat \ {0}
  /\ MaxOutputs \in Nat /\ MaxCalls \in Nat /\ MaxFaults \in Nat /\ {MayRevoke, MayMaintain} \subseteq BOOLEAN
  /\ Workers \cap {None, "over"} = {}

VARIABLES
  tools,     \* RemoteTools: open, closed
  caller,    \* [Operations -> {idle, uploading, waiting}], _invoke
  calls,     \* [Operations -> Nat]
  got,       \* [Operations -> outcomes delivered to callers]
  coord,     \* the coordinator's ledger
  worker,    \* the worker's ledger
  server,    \* the worker process that is attached, or None
  ackQueue,  \* _acknowledgments: receipts the coordinator has not sent
  up,        \* [Workers -> {up, closing, down}]
  run,       \* [Workers -> [Operations -> the phase of _execute and the session of its dispatch]]
  claim,     \* Messaging: the process that produces the operation's journal, "over" or None
  borrow,    \* [Workers -> [Sessions -> {none, opening, ready, failed}]]
  effects,   \* [Operations -> Nat], how often the tool was invoked
  maintain,  \* [Workers -> {none, draining, body}]
  faults

calling == <<tools, caller, calls, got>>
delivery == <<server, ackQueue>>
working == <<up, run, claim, borrow, effects, maintain>>
vars == <<coord, worker, calling, delivery, working, faults>>

NotRunning == [phase |-> None, session |-> None]

Init ==
  /\ coord = EmptyLedger /\ worker = EmptyLedger
  /\ tools = "open" /\ caller = [o \in Operations |-> "idle"]
  /\ calls = [o \in Operations |-> 0] /\ got = [o \in Operations |-> {}]
  /\ server = None /\ ackQueue = NoReceipts
  /\ up = [p \in Workers |-> "up"] /\ run = [p \in Workers |-> [o \in Operations |-> NotRunning]]
  /\ claim = [o \in Operations |-> None]
  /\ borrow = [p \in Workers |-> [s \in Sessions |-> None]]
  /\ effects = [o \in Operations |-> 0]
  /\ maintain = [p \in Workers |-> None]
  /\ faults = 0

-----------------------------------------------------------------------------
(* The coordinator's callers.                                               *)

Save(c) == ~CommandRefused(coord, c) /\ coord' = WithCommand(coord, c, TRUE)

\* RemoteWorkspace.prepare
OpenSession(s) ==
  /\ tools = "open"
  /\ coord.sess[s] = None
  /\ Save(Open(s))
  /\ UNCHANGED <<worker, calling, delivery, working, faults>>

\* _invoke, also a repeated one from another session: an outcome is read, not dispatched again.
Invoke(o, s) ==
  /\ tools = "open"
  /\ caller[o] = "idle" /\ calls[o] < MaxCalls
  /\ coord.sess[s] = "open" /\ "ready" \in coord.replies[s]
  /\ calls' = [calls EXCEPT ![o] = @ + 1]
  /\ IF Exists(coord, o) /\ Terminal(coord, o)
     THEN caller' = [caller EXCEPT ![o] = "waiting"] /\ UNCHANGED coord
     ELSE /\ Save(Dispatch(s, o))
          /\ caller' = [caller EXCEPT ![o] = IF o \in Uploads THEN "uploading" ELSE "waiting"]
  /\ UNCHANGED <<tools, got, worker, delivery, working, faults>>

Upload(o) ==
  /\ caller[o] = "uploading"
  /\ ~ChunkRefused(coord, o)
  /\ coord' = WithChunk(coord, o)
  /\ caller' = [caller EXCEPT ![o] = "waiting"]
  /\ UNCHANGED <<tools, calls, got, worker, delivery, working, faults>>

\* _wait_result
Return(o) ==
  /\ caller[o] = "waiting"
  /\ Terminal(coord, o) \/ coord.revoked
  /\ got' = [got EXCEPT ![o] = @ \cup {IF ~Terminal(coord, o) THEN "uncertain"
                                       ELSE IF ResultAvailable(coord, o) THEN State(coord, o) ELSE "expired"}]
  /\ caller' = [caller EXCEPT ![o] = "idle"]
  /\ UNCHANGED <<tools, calls, coord, worker, delivery, working, faults>>

\* The caller is cancelled or fails: its cancellation is saved before it leaves.
StopCall(o) ==
  /\ caller[o] \in {"uploading", "waiting"}
  /\ IF Terminal(coord, o) \/ coord.revoked THEN UNCHANGED coord ELSE Save(Cancel(o))
  /\ caller' = [caller EXCEPT ![o] = "idle"]
  /\ UNCHANGED <<tools, calls, got, worker, delivery, working, faults>>

\* _close_session, when a run releases its resources: its calls have ended.
CloseSession(s) ==
  /\ tools = "open"
  /\ coord.sess[s] = "open"
  /\ \A o \in Operations : coord.op[o].session = s => caller[o] = "idle"
  /\ Save(Close(s))
  /\ UNCHANGED <<worker, calling, delivery, working, faults>>

Revoke ==
  /\ MayRevoke /\ tools = "open" /\ ~coord.revoked
  /\ coord' = WithRevocation(coord)
  /\ UNCHANGED <<worker, calling, delivery, working, faults>>

Fault == faults < MaxFaults /\ faults' = faults + 1

\* The process of the coordinator ends, or RemoteTools closes.
StopTools ==
  /\ tools = "open" /\ Fault
  /\ tools' = "closed"
  /\ caller' = [o \in Operations |-> "idle"]
  /\ ackQueue' = NoReceipts
  /\ server' = None
  /\ UNCHANGED <<calls, got, coord, worker, working>>

\* _close_sessions: intent is saved for all that is not over, one command at a time.
SaveCloseIntent ==
  /\ tools = "closed" /\ ~coord.revoked
  /\ \/ \E o \in Operations : /\ Exists(coord, o) /\ ~Terminal(coord, o) /\ ~coord.op[o].cancelled
                              /\ Save(Cancel(o))
     \/ \E s \in Sessions : coord.sess[s] = "open" /\ Save(Close(s))
  /\ UNCHANGED <<worker, calling, delivery, working, faults>>

StartTools ==
  /\ tools = "closed"
  /\ tools' = "open"
  /\ UNCHANGED <<caller, calls, got, coord, worker, delivery, working, faults>>

-----------------------------------------------------------------------------
(* Delivery.                                                                *)

Connect(p) ==
  /\ server = None /\ tools = "open" /\ up[p] = "up"
  /\ ~coord.revoked
  /\ server' = p
  /\ UNCHANGED <<ackQueue, calling, coord, worker, working, faults>>

Disconnect ==
  /\ server # None /\ Fault
  /\ server' = None
  /\ UNCHANGED <<ackQueue, calling, coord, worker, working>>

First(seq) == SubSeq(seq, 1, IF Len(seq) < FrameItems THEN Len(seq) ELSE FrameItems)

\* A frame takes the first items of a kind in their order.
SomeOf(set) ==
  {S \in SUBSET set : /\ IsFiniteSet(S) /\ Cardinality(S) <= FrameItems
                      /\ Cardinality(S) = FrameItems \/ S = set}

\* The queued receipts, then the oldest unconfirmed commands, then chunks.  A frame is built
\* and handled in one step, in either direction: connections are fenced by the host, so a
\* frame that was on its way longer is a frame of an earlier step or of a broken connection.
FramesToWorker ==
  IF coord.revoked THEN {[revoked |-> TRUE]}
  ELSE {[revoked |-> FALSE, receipts |-> ackQueue, commands |-> First(PendingCommands(coord)), chunks |-> sent] :
          sent \in SomeOf(PendingChunks(coord))}

\* Faulty variant: received commands and chunks are not confirmed.
FramesWithoutConfirmations ==
  {f \in [commands : {{}}, chunks : {{}}, events : SomeOf(PendingEvents(worker)),
          replies : SomeOf(PendingReplies(worker))] :
     /\ f # NoReceipts
     /\ \A e \in f.events, g \in PendingEvents(worker) : g.sequence < e.sequence => g \in f.events}

\* What the worker has to say, events in the order of their sequence numbers.
FramesToCoordinator ==
  {f \in [commands : {Range(First(PendingCommands(worker)))}, chunks : SomeOf(PendingChunks(worker)),
          events : SomeOf(PendingEvents(worker)), replies : SomeOf(PendingReplies(worker))] :
     /\ f # NoReceipts
     /\ \A e \in f.events, g \in PendingEvents(worker) : g.sequence < e.sequence => g \in f.events}

\* The handler of a frame applies its items in turn; what it refuses ends the connection
\* and leaves the items before it applied.
Applied(so, refused, ledger) ==
  IF so.ok /\ ~refused THEN [so EXCEPT !.ledger = ledger] ELSE [so EXCEPT !.ok = FALSE]

CommandsHandled(so, commands, accept) ==
  FoldLeft(LAMBDA h, c : Applied(h, CommandRefused(h.ledger, c), WithCommand(h.ledger, c, accept)), so, commands)

ChunksHandled(so, chunks) ==
  FoldLeft(LAMBDA h, o : Applied(h, ChunkRefused(h.ledger, o), WithChunk(h.ledger, o)), so, SetToSeq(chunks))

\* Faulty variant: the chunks of a frame are stored before its commands are.
WorkerHandlesChunksFirst(frame, accept) ==
  IF frame.revoked THEN [ledger |-> WithRevocation(worker), ok |-> TRUE]
  ELSE LET acked == IF frame.receipts = NoReceipts THEN worker
                    ELSE Reclaimed(Acknowledged(worker, frame.receipts))
       IN CommandsHandled(ChunksHandled([ledger |-> acked, ok |-> TRUE], frame.chunks), frame.commands, accept)

WorkerHandles(frame, accept) ==
  IF frame.revoked THEN [ledger |-> WithRevocation(worker), ok |-> TRUE]
  ELSE LET acked == IF frame.receipts = NoReceipts THEN worker
                    ELSE Reclaimed(Acknowledged(worker, frame.receipts))
       IN ChunksHandled(CommandsHandled([ledger |-> acked, ok |-> TRUE], frame.commands, accept), frame.chunks)

AcceptsNew(p) == maintain[p] = None

\* The connection may break before the receipts or after any of the commands; what was not
\* confirmed is sent again.
WorkerReceives ==
  /\ server # None
  /\ \E frame \in FramesToWorker :
       \/ LET handled == WorkerHandles(frame, AcceptsNew(server)) IN
          /\ worker' = handled.ledger
          /\ IF handled.ok /\ ~frame.revoked THEN UNCHANGED server ELSE server' = None
          /\ UNCHANGED faults
       \/ /\ ~frame.revoked /\ Fault
          /\ \/ UNCHANGED worker
             \/ \E n \in 0 .. Len(frame.commands) - 1 :
                  worker' = WorkerHandles([frame EXCEPT !.commands = SubSeq(@, 1, n), !.chunks = {}],
                                          AcceptsNew(server)).ledger
          /\ server' = None
  /\ ackQueue' = IF coord.revoked THEN ackQueue ELSE NoReceipts
  /\ UNCHANGED <<calling, coord, working>>

\* Faulty variant: the events of a frame are applied in any order.
InOrderNot(events) ==
  CHOOSE q \in SetToSeqs(events) : \A i, j \in DOMAIN q : i < j => q[i].sequence >= q[j].sequence

InOrder(events) ==
  CHOOSE q \in SetToSeqs(events) : \A i, j \in DOMAIN q : i < j => q[i].sequence <= q[j].sequence

EventsHandled(so, events) ==
  FoldLeft(LAMBDA h, e : Applied(h, EventRefused(h.ledger, e), WithEvent(h.ledger, e)), so, InOrder(events))

CoordinatorStores(frame) ==
  LET acked == Acknowledged(coord, [frame EXCEPT !.events = {}, !.replies = {}])
      stored == EventsHandled([ledger |-> acked, ok |-> TRUE], frame.events)
  IN [stored EXCEPT !.ledger.replies =
        [s \in Sessions |-> @[s] \cup {w.reply : w \in {v \in frame.replies : v.session = s}}]]

\* The coordinator stores a frame, confirms its items to itself, compacts, and queues one
\* frame of receipts; it waits while an earlier one has not been sent.
CoordinatorReceives ==
  /\ server # None /\ ackQueue = NoReceipts
  /\ \E frame \in FramesToCoordinator :
       LET stored == CoordinatorStores(frame) IN
       \/ /\ stored.ok
          /\ coord' = Reclaimed(Acknowledged(stored.ledger, frame))
          /\ ackQueue' = frame
          /\ UNCHANGED <<server, faults>>
       \/ /\ (~stored.ok /\ UNCHANGED faults) \/ Fault
          /\ coord' = stored.ledger
          /\ server' = None
          /\ UNCHANGED ackQueue
  /\ UNCHANGED <<calling, worker, working>>

-----------------------------------------------------------------------------
(* ToolWorker: the supervisor of one process.                               *)

Running(p) == {o \in Operations : run[p][o] # NotRunning}
WorkerUnchanged == UNCHANGED <<coord, calling, delivery, faults>>
Phase(p, o, to) == run' = [run EXCEPT ![p][o].phase = to]
Done(p, o) == run' = [run EXCEPT ![p][o] = NotRunning]

\* _schedule: workspaces without a reply are prepared, unfinished operations are executed.
OpenBorrow(p, s) ==
  /\ up[p] = "up"
  /\ worker.sess[s] = "open" /\ borrow[p][s] = None
  /\ worker.replies[s] = {}
  /\ borrow' = [borrow EXCEPT ![p][s] = "opening"]
  /\ WorkerUnchanged /\ UNCHANGED <<worker, up, run, claim, effects, maintain>>

\* The first reply of a session stays, also when two processes prepare it.
Prepared(p, s) ==
  /\ borrow[p][s] = "opening"
  /\ \/ /\ "error" \notin worker.replies[s]
        /\ worker' = WithReply(worker, s, "ready")
        /\ borrow' = [borrow EXCEPT ![p][s] = "ready"]
     \/ /\ IF worker.replies[s] \cap {"ready", "error"} = {} 
           THEN worker' = WithReply(worker, s, "error") ELSE UNCHANGED worker
        /\ borrow' = [borrow EXCEPT ![p][s] = "failed"]
  /\ WorkerUnchanged /\ UNCHANGED <<up, run, claim, effects, maintain>>

CloseBorrow(p, s) ==
  /\ up[p] # "down"
  /\ borrow[p][s] \in {"ready", "failed"}
  /\ up[p] = "up" => worker.sess[s] = "closed"
  /\ \A o \in Running(p) : run[p][o].session # s
  /\ borrow' = [borrow EXCEPT ![p][s] = None]
  /\ WorkerUnchanged /\ UNCHANGED <<worker, up, run, claim, effects, maintain>>

MaySettle(s) ==
  /\ worker.sess[s] = "closed" /\ ~Settled(worker, s)
  /\ \A o \in Operations : worker.op[o].session = s => Terminal(worker, o)

SettleSession(p, s) ==
  /\ up[p] = "up" /\ borrow[p][s] = None
  /\ MaySettle(s)
  /\ worker' = WithReply(worker, s, "closed")
  /\ WorkerUnchanged /\ UNCHANGED working

-----------------------------------------------------------------------------
(* _execute and _run.  Messaging admits one producer for an operation, ever. *)

Producing == {"checking", "borrowing", "starting", "invoking", "invoked"}
Lost(o) == claim[o] = "over" \/ (claim[o] \in Workers /\ run[claim[o]][o].phase \notin Producing)

Claims(p, o) == claim[o] = None

\* _schedule and the wrap of _execute: the first process produces, the others follow.
Schedule(p, o) ==
  /\ up[p] = "up"
  /\ Exists(worker, o) /\ ~Terminal(worker, o) /\ run[p][o] = NotRunning
  /\ Cardinality(Running(p)) < MaxRunning
  /\ worker.op[o].cancelled \/ UploadReady(worker, o)
  /\ run' = [run EXCEPT ![p][o] = [phase |-> IF Claims(p, o) THEN "checking" ELSE "following",
                                   session |-> worker.op[o].session]]
  /\ claim' = [claim EXCEPT ![o] = IF Claims(p, o) THEN p ELSE @]
  /\ WorkerUnchanged /\ UNCHANGED <<worker, up, borrow, effects, maintain>>

\* The journal ends; a missing outcome is uncertain, and the operation is not repeated.
FollowEnds(p, o) ==
  /\ run[p][o].phase = "following"
  /\ Lost(o)
  /\ worker' = Finished(worker, o, "uncertain")
  /\ Done(p, o)
  /\ WorkerUnchanged /\ UNCHANGED <<up, claim, borrow, effects, maintain>>

\* The source ends with the outcome it recorded.
End(p, o, kind) ==
  /\ worker' = Finished(worker, o, kind)
  /\ Done(p, o)
  /\ claim' = [claim EXCEPT ![o] = IF @ = p THEN "over" ELSE @]

Stopped(p, o) == worker.op[o].cancelled \/ worker.sess[run[p][o].session] = "closed"

CheckedState(o) == State(worker, o) = "pending"

Check(p, o) ==
  /\ run[p][o].phase = "checking"
  /\ \/ /\ ~CheckedState(o) \/ Stopped(p, o)
        /\ End(p, o, IF CheckedState(o) THEN "cancelled" ELSE "uncertain")
        /\ UNCHANGED borrow
     \/ /\ CheckedState(o) /\ ~Stopped(p, o)
        /\ Phase(p, o, "borrowing")
        /\ borrow' = IF borrow[p][run[p][o].session] = None
                     THEN [borrow EXCEPT ![p][run[p][o].session] = "opening"] ELSE borrow
        /\ UNCHANGED <<worker, claim>>
  /\ WorkerUnchanged /\ UNCHANGED <<up, effects, maintain>>

\* The workspace is there; cancellation and close are looked at once more.
Borrowed(p, o) ==
  /\ run[p][o].phase = "borrowing"
  /\ borrow[p][run[p][o].session] \in {"ready", "failed"}
  /\ IF borrow[p][run[p][o].session] = "failed" THEN End(p, o, "failed")
     ELSE IF Stopped(p, o) THEN End(p, o, "cancelled")
     ELSE Phase(p, o, "starting") /\ UNCHANGED <<worker, claim>>
  /\ WorkerUnchanged /\ UNCHANGED <<up, borrow, effects, maintain>>

StartRecorded(p, o) == worker' = Recorded(worker, o, "started")

Start(p, o) ==
  /\ run[p][o].phase = "starting"
  /\ IF MayFollow(worker, o, "started")
     THEN StartRecorded(p, o) /\ Phase(p, o, "invoking") /\ UNCHANGED claim
     ELSE End(p, o, "failed")
  /\ WorkerUnchanged /\ UNCHANGED <<up, borrow, effects, maintain>>

\* Faulty variant: a tool that raises is invoked again.
InvokeToolRetried(p, o) ==
  /\ run[p][o].phase = "invoking"
  /\ effects' = [effects EXCEPT ![o] = @ + 1]
  /\ effects[o] < 2
  /\ \E to \in {"invoking", "invoked"} : Phase(p, o, to)
  /\ WorkerUnchanged /\ UNCHANGED <<worker, up, claim, borrow, maintain>>

InvokeTool(p, o) ==
  /\ run[p][o].phase = "invoking"
  /\ effects' = [effects EXCEPT ![o] = @ + 1]
  /\ Phase(p, o, "invoked")
  /\ WorkerUnchanged /\ UNCHANGED <<worker, up, claim, borrow, maintain>>

Output(p, o) ==
  /\ run[p][o].phase = "invoked"
  /\ Len(worker.op[o].events) <= MaxOutputs
  /\ MayFollow(worker, o, "output")
  /\ worker' = Recorded(worker, o, "output")
  /\ WorkerUnchanged /\ UNCHANGED working

\* The tool returns or raises; a result that comes after another outcome is dropped.
ToolEnds(p, o) ==
  /\ run[p][o].phase = "invoked"
  /\ \E kind \in {"completed", "failed"} : End(p, o, kind)
  /\ WorkerUnchanged /\ UNCHANGED <<up, borrow, effects, maintain>>

\* The execution's task is cancelled: by a saved cancellation, by the end of the process's
\* ownership of the journal, or because the worker closes.
StopExecution(p, o) ==
  /\ run[p][o].phase \in Producing
  /\ worker.op[o].cancelled \/ claim[o] # p \/ up[p] = "closing"
  /\ End(p, o, "cancelled")
  /\ WorkerUnchanged /\ UNCHANGED <<up, borrow, effects, maintain>>

\* Messaging gives a producer up whose lease has run out, dead or only slow.
SuspectProducer(o) ==
  /\ claim[o] \in Workers
  /\ run[claim[o]][o].phase \in Producing
  /\ Fault
  /\ claim' = [claim EXCEPT ![o] = "over"]
  /\ UNCHANGED <<calling, coord, worker, delivery, up, run, borrow, effects, maintain>>

-----------------------------------------------------------------------------
(* Maintenance, close, crash and restart of a worker process.               *)

BeginMaintenance(p) ==
  /\ MayMaintain /\ up[p] = "up" /\ maintain[p] = None
  /\ maintain' = [maintain EXCEPT ![p] = "draining"]
  /\ WorkerUnchanged /\ UNCHANGED <<worker, up, run, claim, borrow, effects>>

Idle(p) ==
  /\ Running(p) = {}
  /\ \A o \in Operations : Exists(worker, o) => Terminal(worker, o)
  /\ \A s \in Sessions : worker.sess[s] = "open" => worker.replies[s] # {}
  /\ \A s \in Sessions : borrow[p][s] # "opening"

EnterMaintenance(p) ==
  /\ up[p] = "up" /\ maintain[p] = "draining"
  /\ Idle(p)
  /\ maintain' = [maintain EXCEPT ![p] = "body"]
  /\ WorkerUnchanged /\ UNCHANGED <<worker, up, run, claim, borrow, effects>>

EndMaintenance(p) ==
  /\ maintain[p] # None
  /\ maintain' = [maintain EXCEPT ![p] = None]
  /\ WorkerUnchanged /\ UNCHANGED <<worker, up, run, claim, borrow, effects>>

BeginClose(p) ==
  /\ up[p] = "up" /\ Fault
  /\ up' = [up EXCEPT ![p] = "closing"]
  /\ maintain' = [maintain EXCEPT ![p] = None]
  /\ run' = [run EXCEPT ![p] = [o \in Operations |-> IF @[o].phase = "following" THEN NotRunning ELSE @[o]]]
  /\ server' = IF server = p THEN None ELSE server
  /\ UNCHANGED <<ackQueue, calling, coord, worker, claim, borrow, effects>>

EndClose(p) ==
  /\ up[p] = "closing" /\ Running(p) = {}
  /\ up' = [up EXCEPT ![p] = "down"]
  /\ borrow' = [borrow EXCEPT ![p] = [s \in Sessions |-> None]]
  /\ WorkerUnchanged /\ UNCHANGED <<worker, run, claim, effects, maintain>>

Crash(p) ==
  /\ up[p] # "down" /\ Fault
  /\ up' = [up EXCEPT ![p] = "down"]
  /\ run' = [run EXCEPT ![p] = [o \in Operations |-> NotRunning]]
  /\ borrow' = [borrow EXCEPT ![p] = [s \in Sessions |-> None]]
  /\ maintain' = [maintain EXCEPT ![p] = None]
  /\ server' = IF server = p THEN None ELSE server
  /\ UNCHANGED <<ackQueue, calling, coord, worker, claim, effects>>

\* A revoked worker does not open again.
Restart(p) ==
  /\ up[p] = "down" /\ ~worker.revoked
  /\ up' = [up EXCEPT ![p] = "up"]
  /\ WorkerUnchanged /\ UNCHANGED <<worker, run, claim, borrow, effects, maintain>>

-----------------------------------------------------------------------------

Execution(p, o) ==
  \/ FollowEnds(p, o) \/ Check(p, o) \/ Borrowed(p, o) \/ Start(p, o)
  \/ InvokeTool(p, o) \/ ToolEnds(p, o) \/ StopExecution(p, o)

Next ==
  \/ \E s \in Sessions : OpenSession(s) \/ CloseSession(s)
  \/ \E o \in Operations, s \in Sessions : Invoke(o, s)
  \/ \E o \in Operations : Upload(o) \/ Return(o) \/ StopCall(o) \/ SuspectProducer(o)
  \/ Revoke \/ StopTools \/ SaveCloseIntent \/ StartTools
  \/ \E p \in Workers : Connect(p)
  \/ Disconnect \/ WorkerReceives \/ CoordinatorReceives
  \/ \E p \in Workers, s \in Sessions :
       OpenBorrow(p, s) \/ Prepared(p, s) \/ CloseBorrow(p, s) \/ SettleSession(p, s)
  \/ \E p \in Workers, o \in Operations : Schedule(p, o) \/ Execution(p, o) \/ Output(p, o)
  \/ \E p \in Workers : BeginMaintenance(p) \/ EnterMaintenance(p) \/ EndMaintenance(p)
                          \/ BeginClose(p) \/ EndClose(p) \/ Crash(p) \/ Restart(p)

Spec == Init /\ [][Next]_vars

\* Processes come back, the host connects them again, each side of a connection that keeps
\* coming back gets its frames through at times, and every tool and preparation returns.
Fairness ==
  /\ WF_vars(StartTools) /\ WF_vars(SaveCloseIntent)
  /\ WF_vars(\E p \in Workers : Connect(p))
  /\ SF_vars(WorkerReceives) /\ SF_vars(CoordinatorReceives)
  /\ \A o \in Operations : WF_vars(Upload(o)) /\ WF_vars(Return(o))
  /\ \A p \in Workers : WF_vars(Restart(p)) /\ WF_vars(EndClose(p)) /\ WF_vars(EndMaintenance(p))
  /\ \A p \in Workers, s \in Sessions :
       WF_vars(OpenBorrow(p, s)) /\ WF_vars(Prepared(p, s)) /\ WF_vars(CloseBorrow(p, s))
       /\ WF_vars(SettleSession(p, s))
  /\ \A p \in Workers, o \in Operations : WF_vars(Schedule(p, o)) /\ WF_vars(Execution(p, o))

FairSpec == Spec /\ Fairness

-----------------------------------------------------------------------------
(* Properties.                                                              *)

\* Every record of the two ledgers and of the processes has its type.
RemoteTypeOK ==
  /\ \A L \in {coord, worker} :
       /\ L.sess \in [Sessions -> {None, "open", "closed"}]
       /\ L.replies \in [Sessions -> SUBSET {"ready", "error", "closed"}]
       /\ \A o \in Operations :
            /\ L.op[o].session \in Sessions \cup {None}
            /\ Range(L.op[o].events) \subseteq TerminalEvents \cup {"started", "output"}
            /\ L.eventAcks[o] \in 0 .. Len(L.op[o].events)
            /\ L.chunks[o] \in {None, "stored", "confirmed"}
  /\ server \in Workers \cup {None}
  /\ run \in [Workers -> [Operations -> [phase : Producing \cup {None, "following"}, session : Sessions \cup {None}]]]
  /\ claim \in [Operations -> Workers \cup {None, "over"}]
  /\ borrow \in [Workers -> [Sessions -> {None, "opening", "ready", "failed"}]]

\* A tool is invoked at most once for an operation, whatever crashes, is sent again, moves
\* to another session or is suspected to be dead.
EffectOnce == \A o \in Operations : effects[o] <= 1

\* The coordinator's history of an operation is a beginning of the worker's, and there is
\* one outcome for both.
HistoriesAgree ==
  \A o \in Operations : IsPrefix(coord.op[o].events, worker.op[o].events)

\* An outcome without a start is proof that the tool was not and will not be invoked.
NoEffectWithoutStart ==
  \A o \in Operations : effects[o] > 0 => Len(worker.op[o].events) > 0 /\ worker.op[o].events[1] = "started"

\* What a caller is told is the outcome both ledgers keep; only revocation and a compacted
\* result leave it open.
CallersAreTold ==
  \A o \in Operations :
    /\ "completed" \in got[o] => State(worker, o) = "completed" /\ effects[o] = 1
    /\ Cardinality(got[o] \ {"expired", "uncertain"}) <= 1

\* A session that the coordinator sees settled is settled at the worker, with every
\* operation attached to it there at its end.
SettledIsFinal ==
  \A s \in Sessions : Settled(coord, s) =>
    Settled(worker, s) /\ \A o \in Operations : worker.op[o].session = s => Terminal(worker, o)

\* A ledger compacts nothing that its peer could still need: a retired operation is over,
\* and its peer has the whole history.
RetiredIsKnown ==
  \A o \in Operations :
    /\ worker.op[o].retired => coord.op[o].events = worker.op[o].events /\ Terminal(coord, o)
    /\ coord.op[o].retired => Terminal(coord, o)

\* The worker refuses no command the coordinator sends: order, duplicates, moved operations and
\* compacted sessions included.  What ends the connection can only be a chunk that comes too
\* late, of an operation the worker has compacted, or too early, before a later frame brings
\* the dispatch it belongs to.
RequestsAccepted ==
  server # None /\ ~worker.revoked => \A frame \in FramesToWorker :
    LET handled == WorkerHandles(frame, TRUE) IN
    \/ frame.revoked \/ handled.ok
    \/ /\ WorkerHandles([frame EXCEPT !.chunks = {}], TRUE).ok
       /\ \E o \in frame.chunks :
            \/ handled.ledger.op[o].retired
            \/ ~Exists(handled.ledger, o) /\ frame.commands # PendingCommands(coord)

\* The coordinator refuses no frame of the worker, whatever portion of its events a frame
\* carries and whatever arrived of the earlier ones.
EventsAccepted == server # None => \A frame \in FramesToCoordinator : CoordinatorStores(frame).ok

\* In the body of a maintenance context the process executes and prepares nothing.
MaintenanceIsQuiet ==
  \A p \in Workers : maintain[p] = "body" =>
    Running(p) = {} /\ \A s \in Sessions : borrow[p][s] # "opening"

\* What the coordinator accepted with all its bytes, and what it cancelled, gets an outcome
\* the coordinator learns, through crashes, lost receipts and refused frames.
OperationsEnd ==
  \A o \in Operations :
    (Exists(coord, o) /\ (UploadReady(coord, o) \/ coord.op[o].cancelled)) ~> (Terminal(coord, o) \/ coord.revoked)

\* A session the coordinator closes is settled for it.
SessionsSettle ==
  \A s \in Sessions : (coord.sess[s] = "closed") ~> (Settled(coord, s) \/ coord.revoked)
\* Exactly what was started had its effect, once, and its callers are told so: EffectOnce,
\* NoEffectWithoutStart and CallersAreTold.
EffectIsExact == EffectOnce /\ NoEffectWithoutStart /\ CallersAreTold

\* The two ledgers tell one story: RemoteTypeOK, HistoriesAgree, SettledIsFinal and
\* RetiredIsKnown.
LedgersAgree == RemoteTypeOK /\ HistoriesAgree /\ SettledIsFinal /\ RetiredIsKnown

\* Operations get their outcome and closed sessions are settled.
EverythingEnds == OperationsEnd /\ SessionsSettle
=============================================================================
