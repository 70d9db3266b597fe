---------------------------- MODULE RemoteLedger ----------------------------
(***************************************************************************)
(* The durable records of remote execution (tinkerfin-remote, _store.py).  *)
(* The coordinator and the worker each keep a ledger of the same shape:    *)
(* workspace sessions, operations with their event histories, and the      *)
(* command, chunk, event and workspace items that are still to be          *)
(* confirmed by the peer.  An operator below gives the ledger after one    *)
(* transaction.                                                            *)
(*                                                                         *)
(* Payloads, digests and byte budgets are abstracted: an item is its       *)
(* identity.  An operation in Uploads needs one chunk, the result of one   *)
(* in Large is too large to be kept once its session is compacted.         *)
(***************************************************************************)
EXTENDS Naturals, Sequences, FiniteSets, SequencesExt

CONSTANTS
  Sessions,
  Operations,
  Uploads,
  Large,
  MaxSessions   \* limits.sessions

None == "none"

ASSUME RemoteAssumption ==
  /\ Uploads \subseteq Operations /\ Large \subseteq Operations /\ MaxSessions \in Nat \ {0}
  /\ None \notin Sessions

TerminalEvents == {"completed", "failed", "cancelled", "uncertain"}

Open(s) == [type |-> "open", session |-> s, operation |-> None]
Close(s) == [type |-> "close", session |-> s, operation |-> None]
Dispatch(s, o) == [type |-> "dispatch", session |-> s, operation |-> o]
Cancel(o) == [type |-> "cancel", session |-> None, operation |-> o]

NoOperation == [session |-> None, events |-> <<>>, cancelled |-> FALSE, retired |-> FALSE]

\* replies: "ready" or "error" answers the open command, "closed" settles the session;
\* eventAcks: the part of a history the peer has confirmed; commands in their order.
EmptyLedger ==
  [sess      |-> [s \in Sessions |-> None],
   replies   |-> [s \in Sessions |-> {}],
   replyAcks |-> [s \in Sessions |-> {}],
   compacted |-> [s \in Sessions |-> FALSE],
   op        |-> [o \in Operations |-> NoOperation],
   eventAcks |-> [o \in Operations |-> 0],
   commands  |-> <<>>,
   chunks    |-> [o \in Operations |-> None],
   revoked   |-> FALSE]

Exists(L, o) == L.op[o].session # None

\* The column "state": the last event that changed it.
State(L, o) ==
  LET events == L.op[o].events IN
  IF events = <<>> THEN "pending" ELSE IF Last(events) \in TerminalEvents THEN Last(events) ELSE "started"

Terminal(L, o) == State(L, o) \in TerminalEvents
Settled(L, s) == "closed" \in L.replies[s]

-----------------------------------------------------------------------------
(* command                                                                  *)

CommandRefused(L, c) ==
  CASE c.type = "open" -> L.revoked \/ (L.sess[c.session] = None
                            /\ Cardinality({s \in Sessions : L.sess[s] = "open"}) >= MaxSessions)
    [] c.type = "close" -> L.sess[c.session] = None
    [] c.type = "dispatch" -> L.revoked \/ L.sess[c.session] = None
                                \/ (~Exists(L, c.operation) /\ L.sess[c.session] = "closed")
    [] c.type = "cancel" -> ~Exists(L, c.operation)

\* Faulty variant: a closed session leaves its operations running.
CancelledByCallOnly(L, c, o) == c.type = "cancel" /\ c.operation = o

\* Closing a session cancels what is attached to it and has no outcome.
CancelledBy(L, c, o) ==
  \/ c.type = "cancel" /\ c.operation = o
  \/ c.type = "close" /\ L.op[o].session = c.session /\ ~Terminal(L, o)

\* A dispatch admits an operation, or moves one that is still pending to its session.
Row(L, c, o, accept) ==
  LET row == L.op[o] IN
  CASE c.type = "dispatch" /\ c.operation = o /\ row.session = None ->
         [NoOperation EXCEPT !.session = c.session, !.events = IF accept THEN <<>> ELSE <<"failed">>]
    [] c.type = "dispatch" /\ c.operation = o /\ row.session # None /\ row.events = <<>>
         /\ L.sess[c.session] = "open" -> [row EXCEPT !.session = c.session]
    [] row.session # None /\ CancelledBy(L, c, o) -> [row EXCEPT !.cancelled = TRUE]
    [] OTHER -> row

\* Faulty variant: a worker in maintenance takes the request in and refuses it later.
RefusalRecordedNot(L, c, accept) == FALSE

\* A worker in maintenance records its refusal of a workspace with the request.
RefusalRecorded(L, c, accept) == c.type = "open" /\ L.sess[c.session] = None /\ ~accept

WithCommand(L, c, accept) ==
  [L EXCEPT
    !.sess = CASE c.type = "open" /\ L.sess[c.session] = None -> [@ EXCEPT ![c.session] = "open"]
               [] c.type = "close" -> [@ EXCEPT ![c.session] = "closed"]
               [] OTHER -> @,
    !.replies = IF RefusalRecorded(L, c, accept) THEN [@ EXCEPT ![c.session] = {"error"}] ELSE @,
    !.op = [o \in Operations |-> Row(L, c, o, accept)],
    !.commands = IF \E i \in DOMAIN @ : @[i].command = c THEN @
                 ELSE Append(@, [command |-> c, ack |-> FALSE])]

-----------------------------------------------------------------------------
(* upload_chunk, events and workspace replies                               *)

\* The chunk of a retired operation is recognised, never stored again.
ChunkRefused(L, o) == ~Exists(L, o) \/ (L.op[o].retired /\ L.chunks[o] = None)

WithChunk(L, o) == [L EXCEPT !.chunks[o] = IF @ = None THEN "stored" ELSE @]

UploadReady(L, o) == o \in Uploads => L.chunks[o] # None

\* A pending operation may fail or start; nothing follows a terminal event.
MayFollow(L, o, kind) ==
  CASE State(L, o) = "pending" -> kind \in {"started", "failed", "cancelled", "uncertain"}
    [] State(L, o) = "started" -> kind # "started"
    [] OTHER -> FALSE

\* _receive_event: an event of the history again, or the next one.
EventKnown(L, e) == e.sequence <= Len(L.op[e.operation].events)

EventRefused(L, e) ==
  \/ ~Exists(L, e.operation)
  \/ /\ ~EventKnown(L, e)
     /\ e.sequence # Len(L.op[e.operation].events) + 1 \/ ~MayFollow(L, e.operation, e.kind)

\* Faulty variant: an event that arrives again is stored again.
WithEventAgain(L, e) == [L EXCEPT !.op[e.operation].events = Append(@, e.kind)]

WithEvent(L, e) == [L EXCEPT !.op[e.operation].events = IF EventKnown(L, e) THEN @ ELSE Append(@, e.kind)]

\* append: the next event of the worker's own history.
Recorded(L, o, kind) == [L EXCEPT !.op[o].events = Append(@, kind)]

\* finish: an outcome that is already there stays.
Finished(L, o, kind) == IF Terminal(L, o) THEN L ELSE Recorded(L, o, kind)

WithReply(L, s, kind) == [L EXCEPT !.replies[s] = @ \cup {kind}]

WithRevocation(L) ==
  [L EXCEPT !.revoked = TRUE,
            !.op = [o \in Operations |-> [L.op[o] EXCEPT !.cancelled = @ \/ (Exists(L, o) /\ ~Terminal(L, o))]],
            !.sess = [s \in Sessions |-> IF @[s] = None THEN None ELSE "closed"]]

-----------------------------------------------------------------------------
(* acknowledge, pending and reclaim                                         *)

\* Receipts: a set of commands, of operations whose chunk arrived, of events and of replies.
NoReceipts == [commands |-> {}, chunks |-> {}, events |-> {}, replies |-> {}]

Acknowledged(L, r) ==
  [L EXCEPT
    !.commands = [i \in DOMAIN @ |-> IF @[i].command \in r.commands THEN [@[i] EXCEPT !.ack = TRUE] ELSE @[i]],
    !.chunks = [o \in Operations |-> IF o \in r.chunks THEN "confirmed" ELSE @[o]],
    !.eventAcks = [o \in Operations |->
                     Max({@[o]} \cup {e.sequence : e \in {f \in r.events : f.operation = o}})],
    !.replyAcks = [s \in Sessions |-> @[s] \cup {w.reply : w \in {v \in r.replies : v.session = s}}]]

\* A payload that was compacted is no longer delivered.
PendingCommands(L) ==
  FoldLeft(LAMBDA queue, r : IF r.ack THEN queue ELSE Append(queue, r.command), <<>>, L.commands)

PendingChunks(L) == {o \in Operations : L.chunks[o] = "stored" /\ ~L.op[o].retired}

PendingEvents(L) ==
  UNION {{[operation |-> o, sequence |-> i, kind |-> L.op[o].events[i]] :
            i \in L.eventAcks[o] + 1 .. Len(L.op[o].events)} : o \in Operations}

PendingReplies(L) ==
  UNION {{[session |-> s, reply |-> k] : k \in L.replies[s] \ L.replyAcks[s]} : s \in Sessions}

Unconfirmed(L, s) ==
  LET owned == {o \in Operations : L.op[o].session = s} IN
  \/ L.replies[s] # L.replyAcks[s]
  \/ \E i \in DOMAIN L.commands :
       /\ ~L.commands[i].ack
       /\ LET c == L.commands[i].command IN
          IF c.type \in {"open", "close"} THEN c.session = s ELSE c.operation \in owned
  \/ \E o \in owned : L.chunks[o] = "stored" \/ L.eventAcks[o] < Len(L.op[o].events)

Reclaimable(L, s) ==
  /\ L.sess[s] = "closed" /\ Settled(L, s) /\ ~L.compacted[s]
  /\ \A o \in Operations : L.op[o].session = s => Terminal(L, o)
  /\ ~Unconfirmed(L, s)

Reclaimed(L) ==
  LET done == {s \in Sessions : Reclaimable(L, s)} IN
  [L EXCEPT !.compacted = [s \in Sessions |-> @[s] \/ s \in done],
            !.op = [o \in Operations |-> [L.op[o] EXCEPT !.retired = @ \/ L.op[o].session \in done]]]

\* A compacted operation keeps its outcome, and its result when that is small.
ResultAvailable(L, o) == ~(L.op[o].retired /\ o \in Large /\ State(L, o) = "completed")
=============================================================================
