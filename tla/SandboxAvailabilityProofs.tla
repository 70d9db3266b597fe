--------------------- MODULE SandboxAvailabilityProofs ---------------------
(***************************************************************************)
(* Pause and resume for any number of managers, operations, polls and      *)
(* mishaps: nobody calls a sandbox that is being paused, and no request    *)
(* meets another intent than its own.                                      *)
(***************************************************************************)
EXTENDS SandboxAvailability, TLAPS

-----------------------------------------------------------------------------
(* Types.                                                                   *)

Snapshots == [phase : Phases, sequence : Nat, connection : Nat]
MaybeSnapshots == Snapshots \cup {NoSnapshot}
Rows == [registered : BOOLEAN, ack : Nat]
Handles == [known : MaybeSnapshots, open : BOOLEAN, calls : 0 .. 1, connection : Nat]
States == {"none", "running", "paused"}
Pcs == {"idle", "reading", "confirming", "closing", "draining", "pausing", "sent", "reopening", "inspecting",
        "waking", "resuming", "resumeSent", "rejected", "connecting", "registering", "committing",
        "registered", "releasing"}
Ops == [kind : {"none", "get", "pause", "resume", "refresh"}, pc : Pcs, seen : MaybeSnapshots,
        original : Phases \cup {"none"}, saw : States]
Polls == [pc : {"off", "applying", "acknowledging"}, update : MaybeSnapshots]

Types ==
  /\ avail \in Snapshots /\ avail.sequence <= MaxSequence
  /\ row \in [Holders -> Rows]
  /\ claim \in [holder : Holders \cup {Nobody}, live : BOOLEAN]
  /\ instance \in {"running", "paused"} /\ requests \subseteq {"pause", "resume"}
  /\ local \in [Holders -> Handles]
  /\ op \in [Holders -> Ops]
  /\ sync \in [Holders -> Polls]
  /\ late \subseteq Holders

-----------------------------------------------------------------------------
(* Operations and their requests.                                           *)

\* Snapshots are of the past: only the current one has the current sequence.
Past(s) ==
  \/ s = NoSnapshot
  \/ /\ s \in Snapshots
     /\ s.sequence <= avail.sequence /\ s.connection <= avail.connection
     /\ s.sequence = avail.sequence => s = avail

\* What an operation knows at each place.  Between the change of the intent and the request
\* nobody else can move the intent, even when the claim is lost.
OpOK(o) ==
  /\ Past(o.seen)
  /\ o.pc \notin {"idle", "reading", "releasing"} => o.seen # NoSnapshot
  /\ o.pc # "idle" => o.kind # "none"
  /\ o.pc = "confirming" => o.seen.phase \in {"pausing", "resuming"}
  /\ o.pc = "closing" => o.seen.phase \in {"running", "paused"} /\ (o.seen = avail => instance = "running")
  /\ o.pc = "reopening" => o.seen.phase = "draining"
  /\ o.pc = "inspecting" => o.seen.phase \in {"running", "paused"}
  /\ o.pc = "waking" => o.saw # "none" /\ (o.seen = avail => avail.phase = "paused" /\ instance = o.saw)
  /\ o.pc = "draining" => o.seen.phase = "draining" /\ o.original \in {"running", "paused"}
  /\ o.pc = "pausing" => /\ o.seen = avail /\ avail.phase = "pausing" /\ o.original \in {"running", "paused"}
                         /\ instance = "running" /\ requests = {}
  /\ o.pc = "sent" => o.seen.phase = "pausing"
  /\ o.pc = "resuming" => /\ o.seen.phase = "resuming" /\ o.original = "paused" /\ o.saw # "none"
                          /\ o.saw # "running" => o.seen = avail /\ instance = "paused"
                          /\ o.seen = avail => requests = {}
  /\ o.pc = "resumeSent" => o.seen.phase = "resuming"
  /\ o.pc = "rejected" => o.seen.phase \in {"pausing", "resuming"} /\ (o.seen = avail => requests = {})

\* The operation that made the intent what it is, until its outcome is known.
Author(o) == o.pc \in {"draining", "pausing", "sent", "rejected", "resuming", "resumeSent"}

OneAuthor ==
  \A h, g \in Holders :
    Author(op[h]) /\ Author(op[g]) /\ op[h].seen.sequence = op[g].seen.sequence => h = g

\* A request is under way only while it would change something.
RequestsDiffer ==
  /\ "pause" \in requests => instance = "running"
  /\ "resume" \in requests => instance = "paused"

Awake == avail.phase \in {"running", "draining"} => instance = "running"

IntentInv == (\A h \in Holders : OpOK(op[h])) /\ OneAuthor /\ RequestMatchesIntent /\ RequestsDiffer /\ Awake

-----------------------------------------------------------------------------
(* Handles.                                                                 *)

\* The sandbox is paused, or it is drained again after somebody resumed it from outside.
Quiet ==
  \/ avail.phase \in {"pausing", "paused", "resuming"}
  \/ avail.phase = "draining" /\ \E g \in Holders : op[g].pc = "draining" /\ op[g].original = "paused"
                                                   /\ op[g].seen = avail

Silent(h) == ~local[h].open /\ local[h].calls = 0

HandleOK(h) ==
  /\ ~row[h].registered => Silent(h) /\ sync[h].pc = "off" /\ op[h].pc # "registered" /\ row[h].ack = 0
  /\ Past(local[h].known) /\ Past(sync[h].update)
  /\ sync[h].pc # "off" => sync[h].update # NoSnapshot
  /\ sync[h].pc = "acknowledging" => sync[h].update.phase = "draining"
  /\ row[h].ack <= avail.sequence
  /\ local[h].connection <= avail.connection
  /\ op[h].pc = "registered" /\ Holding(h) => op[h].seen = avail /\ avail.phase = "running"

\* For the handles that were registered under the claim: what was acknowledged, polled or
\* kept open agrees with the intent.
Trusted(h) ==
  /\ row[h].ack <= local[h].known.sequence
  /\ sync[h].pc # "off" /\ sync[h].update.sequence >= local[h].known.sequence =>
       sync[h].update.connection >= local[h].known.connection
  /\ sync[h].pc = "acknowledging" => /\ local[h].known.sequence >= sync[h].update.sequence
                                     /\ sync[h].update = avail => Silent(h)
  /\ ~Silent(h) => local[h].known.connection = avail.connection
  /\ avail.phase = "draining" /\ row[h].ack = avail.sequence => Silent(h)
  /\ Quiet => Silent(h)
  /\ sync[h].pc = "applying" /\ sync[h].update.phase = "running"
     /\ sync[h].update.sequence >= local[h].known.sequence =>
       ~Quiet /\ sync[h].update.connection = avail.connection

HandleInv == (\A h \in Holders : HandleOK(h)) /\ \A h \in Holders \ late : Trusted(h)

\* A handle is never behind what it knows, and is current from its connection to the end of
\* its registration; unless it took over a generation without a connection.
Registering(o) == o.pc \in {"registering", "committing", "registered"}

Connected(h) ==
  h \notin adopted =>
    /\ local[h].known.connection <= local[h].connection
    /\ Registering(op[h]) /\ Holding(h) => local[h].connection = avail.connection

ConnectionInv == \A h \in Holders \ late : Connected(h)

\* The inductive invariant; ConnectionInv is inductive given it.
AInv == Types /\ IntentInv /\ HandleInv

-----------------------------------------------------------------------------
(* Types are kept.                                                          *)

USE AvailabilityAssumption

LEMMA TypesInit == AvailabilityInit => Types
BY DEF AvailabilityInit, Types, Snapshots, MaybeSnapshots, Rows, Handles, States, Pcs, Ops, Polls, NoSnapshot,
       NoOp, NoSync, Phases, Nobody

\* The fields of the records.
LEMMA Fields ==
  ASSUME Types, NEW h \in Holders
  PROVE  /\ row[h].registered \in BOOLEAN /\ row[h].ack \in Nat
         /\ local[h].known \in MaybeSnapshots /\ local[h].open \in BOOLEAN /\ local[h].calls \in 0 .. 1
         /\ local[h].connection \in Nat
         /\ op[h] \in Ops /\ op[h].pc \in Pcs /\ op[h].seen \in MaybeSnapshots
         /\ op[h].original \in Phases \cup {"none"} /\ op[h].saw \in States
         /\ sync[h].pc \in {"off", "applying", "acknowledging"} /\ sync[h].update \in MaybeSnapshots
         /\ avail \in Snapshots /\ avail.sequence \in Nat /\ avail.connection \in Nat /\ avail.phase \in Phases
BY DEF Types, Rows, Handles, Ops, Polls, Snapshots

LEMMA SnapshotFields ==
  /\ \A s \in MaybeSnapshots : s.sequence \in Nat /\ s.connection \in Nat
  /\ \A s \in Snapshots : s.phase \in Phases /\ s # NoSnapshot
BY DEF MaybeSnapshots, Snapshots, NoSnapshot, Phases

\* The State's answer to a change.
LEMMA ChangeTypes ==
  ASSUME Types, NEW h \in Holders, NEW phase \in Phases, CanChange(h, phase)
  PROVE  /\ NextAvailability(phase) \in Snapshots
         /\ NextAvailability(phase).sequence = avail.sequence + 1
         /\ NextAvailability(phase).sequence <= MaxSequence
         /\ NextAvailability(phase).phase = phase
         /\ NextAvailability(phase).connection \in {avail.connection, avail.connection + 1}
BY DEF Types, Snapshots, CanChange, NextAvailability

-----------------------------------------------------------------------------
(* How a step may change the operations: one operation moves on, or it      *)
(* changes the intent.                                                      *)

\* The operation of h becomes o; the intent, the sandbox and the requests stay.
Moves(h, o) ==
  /\ o \in Ops /\ op' = [op EXCEPT ![h] = o]
  /\ UNCHANGED <<avail, instance, requests>>

\* The operation of h becomes o and the intent becomes s.
Turns(h, o, s) ==
  /\ o \in Ops /\ op' = [op EXCEPT ![h] = o] /\ o.seen = s
  /\ s \in Snapshots /\ avail' = s
  /\ Holding(h) /\ op[h].seen = avail /\ s.phase \in Transitions[avail.phase]
  /\ s.sequence = avail.sequence + 1 /\ s.sequence <= MaxSequence
  /\ s.connection = IF avail.phase = "resuming" /\ s.phase = "running" THEN avail.connection + 1
                                                                       ELSE avail.connection
  /\ UNCHANGED <<row, claim, instance, requests, local, sync, late>>

LEMMA IntentMoves ==
  ASSUME Types, IntentInv, NEW h \in Holders, NEW o, Moves(h, o), OpOK(o),
         Author(o) => Author(op[h]) /\ o.seen = op[h].seen
  PROVE  IntentInv'
<1>1. op'[h] = o /\ \A g \in Holders \ {h} : op'[g] = op[g]
  BY DEF Moves, Types
<1>2. ASSUME NEW g \in Holders PROVE OpOK(op[g])'
  <2>1. OpOK(op'[g])
    BY <1>1 DEF IntentInv
  <2>2. QED BY <2>1 DEF Moves, OpOK, Past
<1>3. OneAuthor'
  BY <1>1 DEF IntentInv, OneAuthor, Author
<1>4. (RequestMatchesIntent /\ RequestsDiffer /\ Awake)'
  BY DEF IntentInv, Moves, RequestMatchesIntent, RequestsDiffer, Awake
<1>5. QED BY <1>2, <1>3, <1>4 DEF IntentInv

\* Nobody else is between its change of the intent and its request.
Alone(h) ==
  \A g \in Holders \ {h} : op[g].pc # "pausing" /\ (op[g].pc = "resuming" => op[g].saw = "running")

LEMMA IntentTurns ==
  ASSUME Types, IntentInv, NEW h \in Holders, NEW o, NEW s, Turns(h, o, s), Alone(h), requests = {},
         OpOK(o)', s.phase \in {"running", "draining"} => instance = "running"
  PROVE  IntentInv'
<1>1. op'[h] = o /\ \A g \in Holders \ {h} : op'[g] = op[g]
  BY DEF Turns, Types
<1>2. \A t : Past(t) => (Past(t))' /\ t # s /\ t.sequence # s.sequence
  BY SnapshotFields DEF Turns, Past, Types, Snapshots, NoSnapshot
<1>3. ASSUME NEW g \in Holders \ {h} PROVE OpOK(op[g])'
  <2>1. OpOK(op[g]) /\ op'[g] = op[g]
    BY <1>1 DEF IntentInv
  <2>2. (Past(op[g].seen))' /\ op[g].seen # avail'
    BY <1>2, <2>1 DEF OpOK, Turns
  <2>3. QED BY <2>1, <2>2 DEF OpOK, Alone, Turns
<1>4. \A g \in Holders : OpOK(op[g])'
  BY <1>1, <1>3 DEF OpOK
<1>5. OneAuthor'
  <2>1. \A g \in Holders \ {h} : op'[g] = op[g] /\ Past(op[g].seen)
    BY <1>1 DEF IntentInv, OpOK
  <2>2. \A g \in Holders \ {h} : op'[g].seen.sequence # s.sequence
    BY <1>2, <2>1
  <2>3. QED BY <1>1, <2>1, <2>2 DEF IntentInv, OneAuthor, Author, Turns
<1>6. (RequestMatchesIntent /\ RequestsDiffer /\ Awake)'
  BY DEF Turns, RequestMatchesIntent, RequestsDiffer, Awake
<1>7. QED BY <1>4, <1>5, <1>6 DEF IntentInv

LEMMA AuthorIsAlone ==
  ASSUME Types, IntentInv, NEW h \in Holders, op[h].seen = avail,
         \/ Author(op[h]) \/ avail.phase \in {"running", "paused", "draining"}
         \/ avail.phase = "pausing" /\ instance = "paused"
         \/ avail.phase = "resuming" /\ instance = "running"
  PROVE  Alone(h)
<1> SUFFICES ASSUME NEW g \in Holders \ {h},
                    op[g].pc = "pausing" \/ (op[g].pc = "resuming" /\ op[g].saw # "running")
             PROVE  FALSE
  BY DEF Alone
<1>1. op[g].seen = avail /\ Author(op[g])
  BY DEF IntentInv, OpOK, Author
<1>2. ~Author(op[h])
  BY <1>1 DEF IntentInv, OneAuthor
<1>3. QED BY <1>1, <1>2 DEF IntentInv, OpOK

\* The holders' side of the same steps.
KeepsClaims == \A g \in Holders : op'[g].pc = "registered" /\ Holding(g)' => Holding(g)

LEMMA HandlesMove ==
  ASSUME Types, HandleInv, NEW h \in Holders, NEW o, op' = [op EXCEPT ![h] = o],
         UNCHANGED <<avail, row, local, sync, late>>, o.pc # "registered", KeepsClaims,
         o.pc = "draining" => op[h].pc = "draining" /\ o.original = op[h].original /\ o.seen = op[h].seen
  PROVE  HandleInv'
<1>1. op'[h] = o /\ \A g \in Holders \ {h} : op'[g] = op[g]
  BY DEF Types
<1>2. Quiet' => Quiet
  BY <1>1 DEF Quiet
<1>3. ASSUME NEW g \in Holders PROVE HandleOK(g)'
  <2>1. HandleOK(g)
    BY DEF HandleInv
  <2>2. op'[g].pc = "registered" => g # h /\ op'[g] = op[g]
    BY <1>1
  <2>3. QED BY <2>1, <2>2 DEF HandleOK, KeepsClaims, Past, Silent
<1>4. ASSUME NEW g \in Holders \ late PROVE Trusted(g)'
  <2>1. Trusted(g)
    BY DEF HandleInv
  <2>2. QED BY <2>1, <1>2 DEF Trusted, Silent
<1>5. QED BY <1>3, <1>4 DEF HandleInv

LEMMA HandlesTurn ==
  ASSUME Types, HandleInv, NEW h \in Holders, NEW o, NEW s, Turns(h, o, s), o.pc # "registered",
         Quiet' => Quiet \/ (avail.phase = "draining" /\ AllHoldersIdle)
  PROVE  HandleInv'
<1>1. op'[h] = o /\ \A g \in Holders \ {h} : op'[g] = op[g]
  BY DEF Turns, Types
<1>2. \A t : Past(t) => (Past(t))' /\ t # s /\ t.sequence # s.sequence
  BY SnapshotFields DEF Turns, Past, Types, Snapshots, NoSnapshot
<1>3. ASSUME NEW g \in Holders PROVE HandleOK(g)'
  <2>1. HandleOK(g)
    BY DEF HandleInv
  <2>2. ~(op'[g].pc = "registered" /\ Holding(g)')
    BY <1>1 DEF Turns, Holding
  <2>3. op'[g].pc = "registered" => op[g].pc = "registered"
    BY <1>1
  <2>4. row[g].ack <= avail'.sequence /\ local[g].connection <= avail'.connection
    BY <2>1, Fields DEF HandleOK, Turns
  <2>5. QED BY <1>2, <2>1, <2>2, <2>3, <2>4 DEF HandleOK, Turns, Silent
<1>4. ASSUME NEW g \in Holders \ late PROVE Trusted(g)'
  <2>1. Trusted(g) /\ HandleOK(g)
    BY DEF HandleInv
  <2>2. sync[g].update # avail'
    BY <1>2, <2>1 DEF HandleOK, Turns
  <2>3. ~Quiet => avail'.connection = avail.connection
    BY DEF Turns, Quiet
  <2>4. row[g].ack # avail'.sequence
    BY <2>1, Fields DEF HandleOK, Turns
  <2>5. Quiet' => Silent(g)
    BY <2>1 DEF HandleOK, Trusted, AllHoldersIdle
  <2>6. ASSUME sync[g].pc = "applying", sync[g].update.phase = "running",
               sync[g].update.sequence >= local[g].known.sequence
        PROVE  ~Quiet' /\ sync[g].update.connection = avail'.connection
    <3>1. ~Quiet /\ sync[g].update.connection = avail.connection
      BY <2>1, <2>6 DEF Trusted
    <3>2. ASSUME avail.phase = "draining", AllHoldersIdle PROVE FALSE
      <4>1. row[g].ack = avail.sequence
        BY <2>1, <2>6, <3>2 DEF HandleOK, AllHoldersIdle
      <4>2. sync[g].update.sequence >= avail.sequence
        BY <2>1, <2>6, <4>1, Fields, SnapshotFields DEF Trusted
      <4>3. sync[g].update = avail
        BY <2>1, <2>6, <4>2, Fields, SnapshotFields DEF HandleOK, Past
      <4>4. QED BY <2>6, <3>2, <4>3
    <3>3. QED BY <2>3, <3>1, <3>2
  <2>7. QED BY <2>1, <2>2, <2>3, <2>4, <2>5, <2>6 DEF Trusted, Turns, Silent
<1>5. QED BY <1>3, <1>4 DEF HandleInv, Turns

-----------------------------------------------------------------------------
(* The actions.                                                             *)

LEMMA Moved ==
  ASSUME AInv, NEW h \in Holders, NEW o, Moves(h, o), UNCHANGED <<row, local, sync, late>>,
         claim' \in [holder : Holders \cup {Nobody}, live : BOOLEAN],
         OpOK(o), Author(o) => Author(op[h]) /\ o.seen = op[h].seen, o.pc # "registered", KeepsClaims,
         o.pc = "draining" => op[h].pc = "draining" /\ o.original = op[h].original /\ o.seen = op[h].seen
  PROVE  AInv'
<1>1. Types'
  BY DEF AInv, Types, Moves
<1>2. IntentInv'
  BY IntentMoves DEF AInv
<1>3. HandleInv'
  BY HandlesMove DEF AInv, Moves
<1>4. QED BY <1>1, <1>2, <1>3 DEF AInv

LEMMA Turned ==
  ASSUME AInv, NEW h \in Holders, NEW o, NEW s, Turns(h, o, s), requests = {}, OpOK(o)',
         \/ Author(op[h]) \/ avail.phase \in {"running", "paused", "draining"}
         \/ avail.phase = "pausing" /\ instance = "paused"
         \/ avail.phase = "resuming" /\ instance = "running",
         s.phase \in {"running", "draining"} => instance = "running",
         o.pc # "registered",
         Quiet' => Quiet \/ (avail.phase = "draining" /\ AllHoldersIdle)
  PROVE  AInv'
<1>1. Types'
  BY DEF AInv, Types, Turns
<1>2. IntentInv'
  BY IntentTurns, AuthorIsAlone DEF AInv, Turns
<1>3. HandleInv'
  BY HandlesTurn DEF AInv
<1>4. QED BY <1>1, <1>2, <1>3 DEF AInv

\* An operation that has not begun or has ended knows nothing.
LEMMA Harmless ==
  ASSUME NEW o, o.pc \in {"idle", "reading", "releasing"}, Past(o.seen), o.pc # "idle" => o.kind # "none"
  PROVE  OpOK(o) /\ ~Author(o)
BY DEF OpOK, Author

LEMMA Plans ==
  ASSUME Types, NEW kind \in {"get", "pause", "resume", "refresh"}, NEW phase \in Phases
  PROVE  /\ Plan(kind, phase) \in {"confirming", "releasing", "connecting", "closing", "reopening", "inspecting"}
         /\ Plan(kind, phase) = "confirming" => phase \in {"pausing", "resuming"}
         /\ Plan(kind, phase) = "closing" => phase = "running" \/ (phase = "paused" /\ instance = "running")
         /\ Plan(kind, phase) = "reopening" => phase = "draining"
         /\ Plan(kind, phase) = "inspecting" => phase \in {"running", "paused"}
<1>1. CASE kind \in {"get", "refresh"}
  BY <1>1 DEF Plan
<1>2. CASE kind = "pause"
  BY <1>2 DEF Plan, Types
<1>3. CASE kind = "resume"
  BY <1>3 DEF Plan, Phases
<1>4. QED BY <1>1, <1>2, <1>3

LEMMA ClaimSteps ==
  ASSUME AInv, NEW h \in Holders,
         \/ \E kind \in {"get", "pause", "resume", "refresh"} : ClaimOwner(h, kind)
         \/ ReleaseClaim(h)
  PROVE  AInv'
<1> USE DEF AInv
<1>1. Past(NoSnapshot)
  BY DEF Past
<1>2. ASSUME NEW kind \in {"get", "pause", "resume", "refresh"}, ClaimOwner(h, kind) PROVE AInv'
  <2> DEFINE o == [NoOp EXCEPT !.kind = kind, !.pc = "reading"]
  <2>1. o.pc = "reading" /\ o.kind = kind /\ o.seen = NoSnapshot /\ o \in Ops
    BY DEF NoOp, Ops, Pcs, States, MaybeSnapshots
  <2>2. OpOK(o) /\ ~Author(o)
    <3> HIDE DEF o
    <3>1. Past(o.seen) /\ o.kind # "none" /\ o.pc \in {"idle", "reading", "releasing"}
      BY <1>1, <2>1
    <3>2. QED BY <3>1, Harmless
  <2>3. Moves(h, o) /\ UNCHANGED <<row, local, sync, late>>
    BY <1>2, <2>1 DEF ClaimOwner, Moves
  <2>4. claim' \in [holder : Holders \cup {Nobody}, live : BOOLEAN]
    BY <1>2 DEF ClaimOwner
  <2>5. KeepsClaims
    BY <1>2, <2>1 DEF ClaimOwner, KeepsClaims, Holding, Types
  <2> HIDE DEF o
  <2>6. QED BY <2>1, <2>2, <2>3, <2>4, <2>5, Moved
<1>3. ASSUME ReleaseClaim(h) PROVE AInv'
  <2>1. NoOp.pc = "idle" /\ NoOp.seen = NoSnapshot /\ NoOp \in Ops
    BY DEF NoOp, Ops, Pcs, States, MaybeSnapshots
  <2>2. OpOK(NoOp) /\ ~Author(NoOp)
    BY <1>1, <2>1, Harmless
  <2>3. Moves(h, NoOp) /\ UNCHANGED <<row, local, sync, late>>
    BY <1>3, <2>1 DEF ReleaseClaim, Moves
  <2>4. claim' \in [holder : Holders \cup {Nobody}, live : BOOLEAN]
    BY <1>3 DEF ReleaseClaim, Types
  <2>5. KeepsClaims
    BY <1>3, <2>1 DEF ReleaseClaim, KeepsClaims, Holding, Types, Nobody
  <2>6. QED BY <2>1, <2>2, <2>3, <2>4, <2>5, Moved
<1>4. QED BY <1>2, <1>3

\* An operation ends without a change.
LEMMA Ends ==
  ASSUME AInv, NEW h \in Holders, op[h].pc # "idle", Step(h, "releasing"), UNCHANGED avail, OthersThanOp
  PROVE  AInv'
<1> USE DEF AInv
<1> DEFINE o == [op[h] EXCEPT !.pc = "releasing"]
<1>1. o \in Ops /\ o.pc = "releasing" /\ o.kind = op[h].kind /\ o.seen = op[h].seen /\ op' = [op EXCEPT ![h] = o]
  BY DEF Step, Pcs, Types, Ops
<1> HIDE DEF o
<1>2. OpOK(op[h])
  BY DEF IntentInv
<1>3. OpOK(o) /\ ~Author(o)
  <2>1. Past(o.seen) /\ o.kind # "none"
    BY <1>1, <1>2 DEF OpOK
  <2>2. QED BY <1>1, <2>1, Harmless
<1>4. Moves(h, o) /\ UNCHANGED <<row, local, sync, late>>
  BY <1>1 DEF Moves, OthersThanOp
<1>5. claim' \in [holder : Holders \cup {Nobody}, live : BOOLEAN]
  BY DEF OthersThanOp, Types
<1>6. KeepsClaims
  BY DEF OthersThanOp, KeepsClaims, Holding
<1>7. QED BY <1>1, <1>3, <1>4, <1>5, <1>6, Moved

LEMMA GiveUpStep ==
  ASSUME AInv, NEW h \in Holders, GiveUp(h)
  PROVE  AInv'
BY Ends DEF GiveUp

LEMMA ReadIntentStep ==
  ASSUME AInv, NEW h \in Holders, ReadIntent(h)
  PROVE  AInv'
<1> USE DEF AInv
<1>1. PICK pc : /\ pc = "releasing" \/ pc = Plan(op[h].kind, avail.phase)
                /\ op' = [op EXCEPT ![h].seen = avail, ![h].pc = pc]
  BY DEF ReadIntent
<1>2. OpOK(op[h]) /\ op[h].pc = "reading"
  BY DEF IntentInv, ReadIntent
<1>3. op[h].kind \in {"get", "pause", "resume", "refresh"}
  BY <1>2 DEF OpOK, Types, Ops
<1>4. avail \in Snapshots /\ avail.phase \in Phases /\ avail \in MaybeSnapshots /\ avail # NoSnapshot
  BY Fields, SnapshotFields DEF MaybeSnapshots
<1>5. /\ pc \in {"confirming", "releasing", "connecting", "closing", "reopening", "inspecting"}
      /\ pc = "confirming" => avail.phase \in {"pausing", "resuming"}
      /\ pc = "closing" => avail.phase = "running" \/ (avail.phase = "paused" /\ instance = "running")
      /\ pc = "reopening" => avail.phase = "draining"
      /\ pc = "inspecting" => avail.phase \in {"running", "paused"}
  BY <1>1, <1>3, <1>4, Plans
<1> DEFINE o == [op[h] EXCEPT !.seen = avail, !.pc = pc]
<1>6. o \in Ops /\ o.pc = pc /\ o.kind = op[h].kind /\ o.seen = avail /\ op' = [op EXCEPT ![h] = o]
  BY <1>1, <1>4, <1>5 DEF Types, Ops, Pcs
<1> HIDE DEF o
<1>7. Past(avail)
  BY <1>4, Fields DEF Past
<1>8. OpOK(o) /\ ~Author(o)
  BY <1>3, <1>4, <1>5, <1>6, <1>7 DEF OpOK, Author, IntentInv, Awake
<1>9. Moves(h, o) /\ UNCHANGED <<row, local, sync, late>>
  BY <1>6 DEF Moves, ReadIntent, OnlyOp, OthersThanOp
<1>10. claim' \in [holder : Holders \cup {Nobody}, live : BOOLEAN] /\ KeepsClaims
  BY DEF ReadIntent, OnlyOp, OthersThanOp, KeepsClaims, Holding, Types
<1>11. QED BY <1>5, <1>6, <1>8, <1>9, <1>10, Moved

LEMMA InspectStep ==
  ASSUME AInv, NEW h \in Holders, Inspect(h)
  PROVE  AInv'
<1> USE DEF AInv
<1>1. PICK pc : /\ pc = IF op[h].seen.phase = "paused" \/ (op[h].seen.phase = "running" /\ instance = "paused")
                        THEN "waking" ELSE "connecting"
                /\ op' = [op EXCEPT ![h].saw = instance, ![h].pc = pc]
  BY DEF Inspect
<1>2. OpOK(op[h]) /\ op[h].pc = "inspecting"
  BY DEF IntentInv, Inspect
<1> DEFINE o == [op[h] EXCEPT !.saw = instance, !.pc = pc]
<1>3. o \in Ops /\ o.pc = pc /\ o.kind = op[h].kind /\ o.seen = op[h].seen /\ o.saw = instance
      /\ op' = [op EXCEPT ![h] = o]
  BY <1>1 DEF Types, Ops, Pcs, States
<1> HIDE DEF o
<1>4. instance # "none"
  BY DEF Types
<1>5. op[h].seen = avail /\ pc = "waking" => avail.phase = "paused"
  BY <1>1 DEF IntentInv, Awake
<1>6. pc \in {"waking", "connecting"}
  BY <1>1
<1>7. OpOK(o) /\ ~Author(o)
  BY <1>2, <1>3, <1>4, <1>5, <1>6 DEF OpOK, Author
<1>8. Moves(h, o) /\ UNCHANGED <<row, local, sync, late>>
  BY <1>3 DEF Moves, Inspect, OnlyOp, OthersThanOp
<1>9. claim' \in [holder : Holders \cup {Nobody}, live : BOOLEAN] /\ KeepsClaims
  BY DEF Inspect, OnlyOp, OthersThanOp, KeepsClaims, Holding, Types
<1>10. QED BY <1>3, <1>6, <1>7, <1>8, <1>9, Moved

-----------------------------------------------------------------------------
(* The changes of the intent.                                               *)

LEMMA ChangeTurns ==
  ASSUME AInv, NEW h \in Holders, NEW phase \in Phases, NEW pc \in Pcs, OthersThanOp,
         Change(h, phase, pc) \/ ChangeFirst(h, phase, pc)
  PROVE  /\ Change(h, phase, pc) =>
              \E o, s : /\ Turns(h, o, s) /\ s.phase = phase /\ o.pc = pc
                       /\ o.kind = op[h].kind /\ o.saw = op[h].saw /\ o.original = op[h].original
         /\ ChangeFirst(h, phase, pc) =>
              \E o, s : /\ Turns(h, o, s) /\ s.phase = phase /\ o.pc = pc
                       /\ o.kind = op[h].kind /\ o.saw = op[h].saw /\ o.original = avail.phase
<1> USE DEF AInv
<1> DEFINE s == NextAvailability(phase)
<1>1. CanChange(h, phase) /\ avail' = s
  BY DEF Change, ChangeFirst
<1>2. /\ s \in Snapshots /\ s.sequence = avail.sequence + 1 /\ s.sequence <= MaxSequence /\ s.phase = phase
      /\ s \in MaybeSnapshots
  BY <1>1, ChangeTypes DEF MaybeSnapshots
<1>3. s.connection = IF avail.phase = "resuming" /\ s.phase = "running" THEN avail.connection + 1
                                                                       ELSE avail.connection
  BY DEF NextAvailability
<1>4. Holding(h) /\ op[h].seen = avail /\ s.phase \in Transitions[avail.phase]
  BY <1>1, <1>2 DEF CanChange
<1>5. UNCHANGED <<row, claim, instance, requests, local, sync, late>>
  BY DEF OthersThanOp
<1>6. avail.phase \in Phases
  BY DEF Types, Snapshots
<1>7. ASSUME Change(h, phase, pc)
      PROVE  \E o : /\ Turns(h, o, s) /\ o.pc = pc /\ o.kind = op[h].kind /\ o.saw = op[h].saw
                    /\ o.original = op[h].original
  <2> DEFINE o == [op[h] EXCEPT !.seen = s, !.pc = pc]
  <2> HIDE DEF s
  <2>1. /\ o \in Ops /\ o.pc = pc /\ o.seen = s /\ o.kind = op[h].kind /\ o.saw = op[h].saw
        /\ o.original = op[h].original
    BY <1>2 DEF Types, Ops
  <2>2. op' = [op EXCEPT ![h] = o]
    BY <1>7 DEF Change, Types, Ops, s
  <2> HIDE DEF o
  <2>3. Turns(h, o, s)
    BY <1>1, <1>2, <1>3, <1>4, <1>5, <2>1, <2>2 DEF Turns
  <2>4. QED BY <2>1, <2>3
<1>8. ASSUME ChangeFirst(h, phase, pc)
      PROVE  \E o : /\ Turns(h, o, s) /\ o.pc = pc /\ o.kind = op[h].kind /\ o.saw = op[h].saw
                    /\ o.original = avail.phase
  <2> DEFINE o == [op[h] EXCEPT !.seen = s, !.pc = pc, !.original = avail.phase]
  <2> HIDE DEF s
  <2>1. /\ o \in Ops /\ o.pc = pc /\ o.seen = s /\ o.kind = op[h].kind /\ o.saw = op[h].saw
        /\ o.original = avail.phase
    BY <1>2, <1>6 DEF Types, Ops
  <2>2. op' = [op EXCEPT ![h] = o]
    BY <1>4, <1>8 DEF ChangeFirst, Types, Ops, s
  <2> HIDE DEF o
  <2>3. Turns(h, o, s)
    BY <1>1, <1>2, <1>3, <1>4, <1>5, <2>1, <2>2 DEF Turns
  <2>4. QED BY <2>1, <2>3
<1> HIDE DEF s
<1>9. QED BY <1>2, <1>7, <1>8

\* What is taken back is a drain, a pause that was not sent, or a resume of a paused sandbox.
LEMMA UndoChanges ==
  ASSUME Types, NEW h \in Holders, NEW phase \in Phases, NEW pc, Undo(h, phase, pc),
         avail.phase = "resuming" => phase # "running"
  PROVE  Change(h, phase, pc)
<1>1. [phase |-> phase, sequence |-> avail.sequence + 1, connection |-> avail.connection] = NextAvailability(phase)
  BY DEF NextAvailability
<1>2. QED BY <1>1 DEF Undo, Change

\* The intent moves on only when no request is under way.
LEMMA NoRequests ==
  ASSUME Types, IntentInv,
         \/ avail.phase \in {"running", "paused", "draining"}
         \/ avail.phase = "pausing" /\ instance = "paused"
         \/ avail.phase = "resuming" /\ instance = "running"
  PROVE  requests = {}
BY DEF Types, IntentInv, RequestMatchesIntent, RequestsDiffer

LEMMA Present ==
  ASSUME NEW h, NEW o, NEW s, Turns(h, o, s)
  PROVE  (Past(o.seen))' /\ o.seen # NoSnapshot /\ (o.seen = avail)'
BY SnapshotFields DEF Turns, Past, Snapshots

LEMMA QuietTurn ==
  ASSUME AInv, NEW h \in Holders, NEW o, NEW s, Turns(h, o, s),
         \/ s.phase = "running"
         \/ s.phase = "draining" /\ o.original = "running"
         \/ avail.phase \in {"pausing", "paused", "resuming"}
         \/ avail.phase = "draining" /\ op[h].pc = "draining" /\ op[h].original = "paused"
         \/ avail.phase = "draining" /\ AllHoldersIdle
  PROVE  Quiet' => Quiet \/ (avail.phase = "draining" /\ AllHoldersIdle)
<1>1. op'[h] = o /\ \A g \in Holders \ {h} : op'[g] = op[g]
  BY DEF Turns, AInv, Types
<1>2. \A g \in Holders \ {h} : op'[g].seen # avail'
  <2>1. \A t : Past(t) => t # s
    BY SnapshotFields DEF AInv, Turns, Past, Types, Snapshots, NoSnapshot
  <2>2. \A g \in Holders : Past(op[g].seen)
    BY DEF AInv, IntentInv, OpOK
  <2>3. QED BY <1>1, <2>1, <2>2 DEF Turns
<1>3. CASE s.phase = "running"
  BY <1>3 DEF Quiet, Turns
<1>4. CASE s.phase = "draining" /\ o.original = "running"
  BY <1>1, <1>2, <1>4 DEF Quiet, Turns
<1>5. CASE avail.phase = "draining" /\ op[h].pc = "draining" /\ op[h].original = "paused"
  BY <1>5 DEF Quiet, Turns
<1>6. QED BY <1>3, <1>4, <1>5 DEF Quiet

LEMMA ConfirmStep ==
  ASSUME AInv, NEW h \in Holders, Confirm(h)
  PROVE  AInv'
<1> USE DEF AInv
<1>1. PICK target \in {"paused", "running"} :
        /\ instance = target /\ Change(h, target, Plan(op[h].kind, target)) /\ OthersThanOp
        /\ target = IF op[h].seen.phase = "pausing" THEN "paused" ELSE "running"
  BY DEF Confirm, Observed, OnlyOp
<1>2. OpOK(op[h]) /\ op[h].pc = "confirming" /\ op[h].seen = avail
  BY <1>1 DEF IntentInv, Confirm, Change, CanChange
<1>3. op[h].kind \in {"get", "pause", "resume", "refresh"} /\ target \in Phases
  BY <1>2 DEF OpOK, Types, Ops, Phases
<1>4. PICK pc : pc = Plan(op[h].kind, target)
  OBVIOUS
<1>5. /\ pc \in {"releasing", "connecting", "closing", "inspecting"}
      /\ pc = "closing" => instance = "running"
  BY <1>1, <1>3, <1>4, Plans
<1>6. pc \in Pcs
  BY <1>5 DEF Pcs
<1>7. PICK o, s : Turns(h, o, s) /\ s.phase = target /\ o.pc = pc /\ o.kind = op[h].kind
  BY <1>1, <1>3, <1>4, <1>6, ChangeTurns
<1>8. \/ avail.phase = "pausing" /\ instance = "paused"
      \/ avail.phase = "resuming" /\ instance = "running"
  BY <1>1, <1>2 DEF OpOK
<1>9. requests = {}
  BY <1>8, NoRequests
<1>10. OpOK(o)'
  BY <1>1, <1>3, <1>5, <1>7, Present DEF OpOK, Turns
<1>11. Quiet' => Quiet \/ (avail.phase = "draining" /\ AllHoldersIdle)
  BY <1>7, <1>8, QuietTurn
<1>12. s.phase \in {"running", "draining"} => instance = "running"
  BY <1>1, <1>7
<1>13. o.pc # "registered"
  BY <1>5, <1>7
<1>14. QED BY <1>7, <1>8, <1>9, <1>10, <1>11, <1>12, <1>13, Turned

LEMMA BeginDrainStep ==
  ASSUME AInv, NEW h \in Holders, BeginDrain(h)
  PROVE  AInv'
<1> USE DEF AInv
<1>1. ChangeFirst(h, "draining", "draining") /\ OthersThanOp
  BY DEF BeginDrain, OnlyOp
<1>2. OpOK(op[h]) /\ op[h].pc = "closing" /\ op[h].seen = avail
  BY <1>1 DEF IntentInv, BeginDrain, ChangeFirst, CanChange
<1>3. avail.phase \in {"running", "paused"} /\ instance = "running"
  BY <1>2 DEF OpOK
<1>4. PICK o, s : /\ Turns(h, o, s) /\ s.phase = "draining" /\ o.pc = "draining" /\ o.kind = op[h].kind
                  /\ o.original = avail.phase
  BY <1>1, ChangeTurns DEF Phases, Pcs
<1>5. requests = {}
  BY <1>3, NoRequests
<1>6. OpOK(o)'
  BY <1>2, <1>3, <1>4, Present DEF OpOK, Turns
<1>7. Quiet' => Quiet \/ (avail.phase = "draining" /\ AllHoldersIdle)
  BY <1>3, <1>4, QuietTurn
<1>8. QED BY <1>3, <1>4, <1>5, <1>6, <1>7, Turned

LEMMA DrainedStep ==
  ASSUME AInv, NEW h \in Holders, Drained(h)
  PROVE  AInv'
<1> USE DEF AInv
<1>1. Change(h, "pausing", "pausing") /\ OthersThanOp /\ AllHoldersIdle
  BY DEF Drained, OnlyOp
<1>2. OpOK(op[h]) /\ op[h].pc = "draining" /\ op[h].seen = avail
  BY <1>1 DEF IntentInv, Drained, Change, CanChange
<1>3. avail.phase = "draining" /\ instance = "running"
  BY <1>2 DEF OpOK, IntentInv, Awake
<1>4. PICK o, s : /\ Turns(h, o, s) /\ s.phase = "pausing" /\ o.pc = "pausing" /\ o.kind = op[h].kind
                  /\ o.original = op[h].original
  BY <1>1, ChangeTurns DEF Phases, Pcs
<1>5. requests = {}
  BY <1>3, NoRequests
<1>6. OpOK(o)'
  BY <1>2, <1>3, <1>4, <1>5, Present DEF OpOK, Turns
<1>7. Quiet' => Quiet \/ (avail.phase = "draining" /\ AllHoldersIdle)
  BY <1>1, <1>3, <1>4, QuietTurn
<1>8. QED BY <1>3, <1>4, <1>5, <1>6, <1>7, Turned

LEMMA CancelDrainStep ==
  ASSUME AInv, NEW h \in Holders, CancelDrain(h), Undo(h, op[h].original, "releasing")
  PROVE  AInv'
<1> USE DEF AInv
<1>1. OpOK(op[h]) /\ op[h].pc \in {"draining", "pausing"} /\ op[h].seen = avail /\ OthersThanOp
  BY DEF IntentInv, CancelDrain, Undo, CanChange
<1>2. /\ avail.phase = IF op[h].pc = "draining" THEN "draining" ELSE "pausing"
      /\ instance = "running" /\ op[h].original \in {"running", "paused"}
  BY <1>1 DEF OpOK, IntentInv, Awake
<1>3. PICK original \in {"running", "paused"} : original = op[h].original
  BY <1>2
<1>4. PICK o, s : /\ Turns(h, o, s) /\ s.phase = original /\ o.pc = "releasing" /\ o.kind = op[h].kind
  BY <1>1, <1>2, <1>3, UndoChanges, ChangeTurns DEF Phases, Pcs
<1>5. requests = {}
  BY <1>1, <1>2, NoRequests DEF OpOK
<1>6. OpOK(o)'
  BY <1>1, <1>4, Present DEF OpOK
<1>7. Quiet' => Quiet \/ (avail.phase = "draining" /\ AllHoldersIdle)
  BY <1>1, <1>2, <1>3, <1>4, QuietTurn
<1>8. Author(op[h])
  BY <1>1 DEF Author
<1>9. QED BY <1>2, <1>4, <1>5, <1>6, <1>7, <1>8, Turned

LEMMA PausedStep ==
  ASSUME AInv, NEW h \in Holders, Paused(h)
  PROVE  AInv'
<1> USE DEF AInv
<1>1. Change(h, "paused", "releasing") /\ OthersThanOp /\ instance = "paused"
  BY DEF Paused, OnlyOp
<1>2. OpOK(op[h]) /\ op[h].pc = "sent" /\ op[h].seen = avail
  BY <1>1 DEF IntentInv, Paused, Change, CanChange
<1>3. avail.phase = "pausing"
  BY <1>2 DEF OpOK
<1>4. PICK o, s : /\ Turns(h, o, s) /\ s.phase = "paused" /\ o.pc = "releasing" /\ o.kind = op[h].kind
  BY <1>1, ChangeTurns DEF Phases, Pcs
<1>5. requests = {}
  BY <1>1, <1>3, NoRequests
<1>6. OpOK(o)'
  BY <1>2, <1>4, Present DEF OpOK
<1>7. Quiet' => Quiet \/ (avail.phase = "draining" /\ AllHoldersIdle)
  BY <1>3, <1>4, QuietTurn
<1>8. QED BY <1>1, <1>3, <1>4, <1>5, <1>6, <1>7, Turned

LEMMA ReopenStep ==
  ASSUME AInv, NEW h \in Holders, Reopen(h)
  PROVE  AInv'
<1> USE DEF AInv
<1>1. Change(h, "running", "inspecting") /\ OthersThanOp
  BY DEF Reopen, OnlyOp
<1>2. OpOK(op[h]) /\ op[h].pc = "reopening" /\ op[h].seen = avail
  BY <1>1 DEF IntentInv, Reopen, Change, CanChange
<1>3. avail.phase = "draining" /\ instance = "running"
  BY <1>2 DEF OpOK, IntentInv, Awake
<1>4. PICK o, s : /\ Turns(h, o, s) /\ s.phase = "running" /\ o.pc = "inspecting" /\ o.kind = op[h].kind
  BY <1>1, ChangeTurns DEF Phases, Pcs
<1>5. requests = {}
  BY <1>3, NoRequests
<1>6. OpOK(o)'
  BY <1>2, <1>4, Present DEF OpOK, Turns
<1>7. Quiet' => Quiet \/ (avail.phase = "draining" /\ AllHoldersIdle)
  BY <1>4, QuietTurn
<1>8. QED BY <1>3, <1>4, <1>5, <1>6, <1>7, Turned

LEMMA WakeStep ==
  ASSUME AInv, NEW h \in Holders, Wake(h)
  PROVE  AInv'
<1> USE DEF AInv
<1>1. ChangeFirst(h, "resuming", "resuming") /\ OthersThanOp
  BY DEF Wake, OnlyOp
<1>2. OpOK(op[h]) /\ op[h].pc = "waking" /\ op[h].seen = avail
  BY <1>1 DEF IntentInv, Wake, ChangeFirst, CanChange
<1>3. avail.phase = "paused" /\ instance = op[h].saw /\ instance \in {"running", "paused"}
  BY <1>2 DEF OpOK, Types
<1>4. PICK o, s : /\ Turns(h, o, s) /\ s.phase = "resuming" /\ o.pc = "resuming" /\ o.kind = op[h].kind
                  /\ o.original = avail.phase /\ o.saw = op[h].saw
  BY <1>1, ChangeTurns DEF Phases, Pcs
<1>5. requests = {}
  BY <1>3, NoRequests
<1>6. OpOK(o)'
  BY <1>2, <1>3, <1>4, <1>5, Present DEF OpOK, Turns
<1>7. Quiet' => Quiet \/ (avail.phase = "draining" /\ AllHoldersIdle)
  BY <1>3, <1>4, QuietTurn
<1>8. QED BY <1>3, <1>4, <1>5, <1>6, <1>7, Turned

LEMMA CancelResumeStep ==
  ASSUME AInv, NEW h \in Holders, CancelResume(h), Undo(h, op[h].original, "releasing")
  PROVE  AInv'
<1> USE DEF AInv
<1>1. OpOK(op[h]) /\ op[h].pc = "resuming" /\ op[h].seen = avail /\ OthersThanOp
  BY DEF IntentInv, CancelResume, Undo, CanChange
<1>2. avail.phase = "resuming" /\ op[h].original = "paused" /\ requests = {} /\ Author(op[h])
  BY <1>1 DEF OpOK, Author
<1>3. PICK o, s : /\ Turns(h, o, s) /\ s.phase = "paused" /\ o.pc = "releasing" /\ o.kind = op[h].kind
  BY <1>1, <1>2, UndoChanges, ChangeTurns DEF Phases, Pcs
<1>4. OpOK(o)'
  BY <1>1, <1>3, Present DEF OpOK
<1>5. Quiet' => Quiet \/ (avail.phase = "draining" /\ AllHoldersIdle)
  BY <1>2, <1>3, QuietTurn
<1>6. QED BY <1>2, <1>3, <1>4, <1>5, Turned

LEMMA ResumedStep ==
  ASSUME AInv, NEW h \in Holders, Resumed(h)
  PROVE  AInv'
<1> USE DEF AInv
<1>1. Change(h, "running", "connecting") /\ OthersThanOp /\ instance = "running"
  BY DEF Resumed, OnlyOp
<1>2. OpOK(op[h]) /\ op[h].pc = "resumeSent" /\ op[h].seen = avail
  BY <1>1 DEF IntentInv, Resumed, Change, CanChange
<1>3. avail.phase = "resuming"
  BY <1>2 DEF OpOK
<1>4. PICK o, s : /\ Turns(h, o, s) /\ s.phase = "running" /\ o.pc = "connecting" /\ o.kind = op[h].kind
  BY <1>1, ChangeTurns DEF Phases, Pcs
<1>5. requests = {}
  BY <1>1, <1>3, NoRequests
<1>6. OpOK(o)'
  BY <1>2, <1>4, Present DEF OpOK
<1>7. Quiet' => Quiet \/ (avail.phase = "draining" /\ AllHoldersIdle)
  BY <1>4, QuietTurn
<1>8. QED BY <1>1, <1>3, <1>4, <1>5, <1>6, <1>7, Turned

LEMMA RestoreStep ==
  ASSUME AInv, NEW h \in Holders, Restore(h)
  PROVE  AInv'
<1> USE DEF AInv
<1>1. PICK original \in {"running", "paused"} :
        /\ instance = original /\ Undo(h, original, "releasing") /\ OthersThanOp
        /\ original = IF op[h].seen.phase = "pausing" THEN "running" ELSE "paused"
  BY DEF Restore, OnlyOp
<1>2. OpOK(op[h]) /\ op[h].pc = "rejected" /\ op[h].seen = avail
  BY <1>1 DEF IntentInv, Restore, Undo, CanChange
<1>3. avail.phase \in {"pausing", "resuming"} /\ requests = {} /\ Author(op[h])
  BY <1>2 DEF OpOK, Author
<1>4. PICK o, s : /\ Turns(h, o, s) /\ s.phase = original /\ o.pc = "releasing" /\ o.kind = op[h].kind
  BY <1>1, <1>2, <1>3, UndoChanges, ChangeTurns DEF Phases, Pcs
<1>5. OpOK(o)'
  BY <1>2, <1>4, Present DEF OpOK
<1>6. Quiet' => Quiet \/ (avail.phase = "draining" /\ AllHoldersIdle)
  BY <1>3, <1>4, QuietTurn
<1>7. QED BY <1>1, <1>3, <1>4, <1>5, <1>6, Turned

-----------------------------------------------------------------------------
(* Requests.                                                                *)

LEMMA SendSteps ==
  ASSUME AInv, NEW h \in Holders, NEW request \in {"pause", "resume"}, NEW pc \in {"sent", "resumeSent"},
         Send(h, request, pc),
         \/ request = "pause" /\ pc = "sent" /\ op[h].pc = "pausing"
         \/ request = "resume" /\ pc = "resumeSent" /\ op[h].pc = "resuming" /\ op[h].saw # "running"
  PROVE  AInv'
<1> USE DEF AInv
<1> DEFINE o == [op[h] EXCEPT !.pc = pc]
<1>1. /\ o \in Ops /\ o.pc = pc /\ o.kind = op[h].kind /\ o.seen = op[h].seen
      /\ op' = [op EXCEPT ![h] = o]
  BY DEF Send, Step, Pcs, Types, Ops
<1> HIDE DEF o
<1>2. op'[h] = o /\ \A g \in Holders \ {h} : op'[g] = op[g]
  BY <1>1 DEF Types
<1>3. OpOK(op[h]) /\ Author(op[h])
  BY DEF IntentInv, Author
<1>4. op[h].seen = avail
  BY <1>3 DEF OpOK
<1>5. /\ request = "pause" => avail.phase = "pausing" /\ instance = "running"
      /\ request = "resume" => avail.phase = "resuming" /\ instance = "paused"
      /\ requests = {}
  BY <1>3, <1>4 DEF OpOK
<1>6. UNCHANGED <<avail, row, claim, instance, local, sync, late>> /\ requests' = {request}
  BY <1>5 DEF Send
<1>7. Types'
  BY <1>1, <1>6 DEF Types
<1>8. ASSUME NEW g \in Holders \ {h} PROVE OpOK(op[g])'
  <2>1. OpOK(op[g]) /\ op'[g] = op[g]
    BY <1>2 DEF IntentInv
  <2>2. Author(op[g]) => op[g].seen # avail
    BY <1>3, <1>4 DEF IntentInv, OneAuthor
  <2>3. QED BY <2>1, <2>2, <1>6 DEF OpOK, Author, Past
<1>9. OpOK(op[h])'
  BY <1>1, <1>2, <1>3, <1>6 DEF OpOK, Past
<1>10. OneAuthor'
  BY <1>1, <1>2, <1>3 DEF IntentInv, OneAuthor, Author
<1>11. (RequestMatchesIntent /\ RequestsDiffer /\ Awake)'
  BY <1>5, <1>6 DEF RequestMatchesIntent, RequestsDiffer, Awake, IntentInv
<1>12. IntentInv'
  BY <1>8, <1>9, <1>10, <1>11 DEF IntentInv
<1>13. KeepsClaims
  BY <1>6 DEF KeepsClaims, Holding
<1>14. HandleInv'
  BY <1>1, <1>6, <1>13, HandlesMove
<1>15. QED BY <1>7, <1>12, <1>14

LEMMA SendPauseStep ==
  ASSUME AInv, NEW h \in Holders, SendPause(h)
  PROVE  AInv'
BY SendSteps DEF SendPause

LEMMA SendResumeStep ==
  ASSUME AInv, NEW h \in Holders, SendResume(h)
  PROVE  AInv'
<1> USE DEF AInv
<1>1. CASE op[h].saw # "running" /\ Send(h, "resume", "resumeSent")
  BY <1>1, SendSteps DEF SendResume
<1>2. CASE op[h].saw = "running" /\ Step(h, "resumeSent") /\ UNCHANGED avail /\ OnlyOp
  <2> DEFINE o == [op[h] EXCEPT !.pc = "resumeSent"]
  <2>1. /\ o \in Ops /\ o.pc = "resumeSent" /\ o.kind = op[h].kind /\ o.seen = op[h].seen
        /\ op' = [op EXCEPT ![h] = o]
    BY <1>2 DEF Step, Pcs, Types, Ops
  <2> HIDE DEF o
  <2>2. OpOK(op[h]) /\ op[h].pc = "resuming"
    BY DEF IntentInv, SendResume
  <2>3. OpOK(o) /\ Author(op[h])
    BY <2>1, <2>2 DEF OpOK, Author
  <2>4. Moves(h, o) /\ UNCHANGED <<row, local, sync, late>>
    BY <1>2, <2>1 DEF Moves, OnlyOp, OthersThanOp
  <2>5. claim' \in [holder : Holders \cup {Nobody}, live : BOOLEAN] /\ KeepsClaims
    BY <1>2 DEF OnlyOp, OthersThanOp, KeepsClaims, Holding, Types
  <2>6. QED BY <2>1, <2>3, <2>4, <2>5, Moved
<1>3. QED BY <1>1, <1>2 DEF SendResume

\* Steps that leave the operations and the handles alone.
LEMMA HandlesStay ==
  ASSUME Types, HandleInv, UNCHANGED <<avail, row, local, op, sync, late>>,
         \A h \in Holders : Holding(h)' => Holding(h)
  PROVE  HandleInv'
<1>1. Quiet' = Quiet
  BY DEF Quiet
<1>2. ASSUME NEW g \in Holders PROVE HandleOK(g)'
  <2>1. HandleOK(g)
    BY DEF HandleInv
  <2>2. QED BY <2>1 DEF HandleOK, Past, Silent
<1>3. ASSUME NEW g \in Holders \ late PROVE Trusted(g)'
  <2>1. Trusted(g)
    BY DEF HandleInv
  <2>2. QED BY <2>1, <1>1 DEF Trusted, Silent
<1>4. QED BY <1>2, <1>3 DEF HandleInv

LEMMA ServeStep ==
  ASSUME AInv, NEW request \in {"pause", "resume"}, Serve(request)
  PROVE  AInv'
<1> USE DEF AInv
<1>1. /\ requests = {request}
      /\ request = "pause" => avail.phase = "pausing"
      /\ request = "resume" => avail.phase = "resuming"
  BY DEF Serve, IntentInv, RequestMatchesIntent, Types
<1>2. requests' = {} /\ instance' \in {"running", "paused"} /\ UNCHANGED <<avail, row, claim, local, op, sync, late>>
  BY <1>1 DEF Serve, Target
<1>3. Types'
  BY <1>2 DEF Types
<1>4. ASSUME NEW g \in Holders PROVE OpOK(op[g])'
  <2>1. OpOK(op[g]) /\ op'[g] = op[g]
    BY <1>2 DEF IntentInv
  <2>2. (Past(op[g].seen))'
    BY <1>2, <2>1 DEF OpOK, Past
  <2>3. op[g].pc # "pausing" /\ (op[g].pc = "resuming" => op[g].saw = "running")
    BY <1>1, <2>1 DEF OpOK
  <2>4. QED BY <1>1, <1>2, <2>1, <2>2, <2>3 DEF OpOK
<1>5. (OneAuthor /\ RequestMatchesIntent /\ RequestsDiffer /\ Awake)'
  BY <1>1, <1>2 DEF IntentInv, OneAuthor, Author, RequestMatchesIntent, RequestsDiffer, Awake
<1>6. IntentInv'
  BY <1>4, <1>5 DEF IntentInv
<1>7. HandleInv'
  BY <1>2, HandlesStay DEF Holding
<1>8. QED BY <1>3, <1>6, <1>7

LEMMA ResumeOutsideStep ==
  ASSUME AInv, ResumeOutside
  PROVE  AInv'
<1> USE DEF AInv
<1>1. /\ avail.phase = "paused" /\ instance' = "running" /\ UNCHANGED <<avail, requests, row, claim, local, op, sync, late>>
      /\ \A h \in Holders : op[h].pc # "waking"
  BY DEF ResumeOutside
<1>2. requests = {}
  BY <1>1, NoRequests
<1>3. Types'
  BY <1>1 DEF Types
<1>4. ASSUME NEW g \in Holders PROVE OpOK(op[g])'
  <2>1. OpOK(op[g]) /\ op'[g] = op[g]
    BY <1>1 DEF IntentInv
  <2>2. (Past(op[g].seen))'
    BY <1>1, <2>1 DEF OpOK, Past
  <2>3. op[g].pc # "pausing" /\ (op[g].pc = "resuming" => op[g].saw = "running")
    BY <1>1, <2>1 DEF OpOK
  <2>4. QED BY <1>1, <2>1, <2>2, <2>3 DEF OpOK
<1>5. (OneAuthor /\ RequestMatchesIntent /\ RequestsDiffer /\ Awake)'
  BY <1>1, <1>2 DEF IntentInv, OneAuthor, Author, RequestMatchesIntent, RequestsDiffer, Awake
<1>6. IntentInv'
  BY <1>4, <1>5 DEF IntentInv
<1>7. HandleInv'
  BY <1>1, HandlesStay DEF Holding
<1>8. QED BY <1>3, <1>6, <1>7

LEMMA ExpireClaimStep ==
  ASSUME AInv, ExpireClaim
  PROVE  AInv'
<1> USE DEF AInv
<1>1. UNCHANGED <<avail, instance, requests, row, local, op, sync, late>> /\ claim' = [claim EXCEPT !.live = FALSE]
  BY DEF ExpireClaim
<1>2. claim' \in [holder : Holders \cup {Nobody}, live : BOOLEAN] /\ claim'.live = FALSE
  BY <1>1 DEF Types
<1>3. Types'
  BY <1>1, <1>2 DEF Types
<1>4. IntentInv'
  BY <1>1 DEF IntentInv, OpOK, Past, OneAuthor, Author, RequestMatchesIntent, RequestsDiffer, Awake
<1>5. HandleInv'
  BY <1>1, <1>2, HandlesStay DEF Holding
<1>6. QED BY <1>3, <1>4, <1>5

LEMMA RejectStep ==
  ASSUME AInv, NEW h \in Holders, Reject(h)
  PROVE  AInv'
<1> USE DEF AInv
<1> DEFINE o == [op[h] EXCEPT !.pc = "rejected"]
<1>1. /\ o \in Ops /\ o.pc = "rejected" /\ o.kind = op[h].kind /\ o.seen = op[h].seen
      /\ op' = [op EXCEPT ![h] = o]
  BY DEF Reject, Step, Pcs, Types, Ops
<1> HIDE DEF o
<1>2. op'[h] = o /\ \A g \in Holders \ {h} : op'[g] = op[g]
  BY <1>1 DEF Types
<1>3. OpOK(op[h]) /\ Author(op[h]) /\ op[h].pc \in {"sent", "resumeSent"}
  BY DEF IntentInv, Author, Reject
<1>4. requests' = {} /\ UNCHANGED <<avail, row, claim, instance, local, sync, late>>
  BY DEF Reject, IntentInv, RequestMatchesIntent, Types
<1>5. Types'
  BY <1>1, <1>4 DEF Types
<1>6. ASSUME NEW g \in Holders \ {h} PROVE OpOK(op[g])'
  <2>1. OpOK(op[g]) /\ op'[g] = op[g]
    BY <1>2 DEF IntentInv
  <2>2. QED BY <2>1, <1>4 DEF OpOK, Past
<1>7. OpOK(op[h])'
  BY <1>1, <1>2, <1>3, <1>4 DEF OpOK, Past
<1>8. OneAuthor'
  BY <1>1, <1>2, <1>3 DEF IntentInv, OneAuthor, Author
<1>9. (RequestMatchesIntent /\ RequestsDiffer /\ Awake)'
  BY <1>4 DEF RequestMatchesIntent, RequestsDiffer, Awake, IntentInv
<1>10. IntentInv'
  BY <1>6, <1>7, <1>8, <1>9 DEF IntentInv
<1>11. KeepsClaims
  BY <1>4 DEF KeepsClaims, Holding
<1>12. HandleInv'
  BY <1>1, <1>4, <1>11, HandlesMove
<1>13. QED BY <1>5, <1>10, <1>12

-----------------------------------------------------------------------------
(* Handles.                                                                 *)

\* Only what belongs to h changes.
OnlyAt(h) ==
  \A g \in Holders \ {h} : row'[g] = row[g] /\ local'[g] = local[g] /\ sync'[g] = sync[g] /\ op'[g] = op[g]

LEMMA HandleMoves ==
  ASSUME Types, HandleInv, NEW h \in Holders, OnlyAt(h), UNCHANGED <<avail, claim>>, Quiet' => Quiet,
         late \subseteq late', late' \subseteq late \cup {h},
         HandleOK(h)', h \notin late' => Trusted(h)'
  PROVE  HandleInv'
<1>1. ASSUME NEW g \in Holders \ {h} PROVE HandleOK(g)'
  <2>1. HandleOK(g)
    BY DEF HandleInv
  <2>2. QED BY <2>1 DEF HandleOK, OnlyAt, Past, Silent, Holding
<1>2. ASSUME NEW g \in Holders \ {h}, g \notin late' PROVE Trusted(g)'
  <2>1. Trusted(g)
    BY <1>2 DEF HandleInv
  <2>2. QED BY <2>1, <1>2 DEF Trusted, OnlyAt, Silent
<1>3. QED BY <1>1, <1>2 DEF HandleInv

\* A step of the poll or of the calls.
LEMMA IntentStays ==
  ASSUME IntentInv, UNCHANGED <<avail, op, instance, requests>>
  PROVE  IntentInv'
BY DEF IntentInv, OpOK, Past, OneAuthor, Author, RequestMatchesIntent, RequestsDiffer, Awake

LEMMA ConnectStep ==
  ASSUME AInv, NEW h \in Holders, Connect(h)
  PROVE  AInv'
<1> USE DEF AInv
<1> DEFINE o == [op[h] EXCEPT !.pc = "registering"]
<1>1. /\ o \in Ops /\ o.pc = "registering" /\ o.kind = op[h].kind /\ o.seen = op[h].seen
      /\ op' = [op EXCEPT ![h] = o]
  BY DEF Connect, Step, Pcs, Types, Ops
<1> HIDE DEF o
<1>2. UNCHANGED <<avail, claim, instance, requests, sync, row, late>>
  BY DEF Connect, OnlyHandle
<1>3. local' = local \/ local' = [local EXCEPT ![h].connection = avail.connection]
  BY DEF Connect
<1>4. Types'
  BY <1>1, <1>2, <1>3 DEF Types, Snapshots, Handles
<1>5. OpOK(op[h]) /\ op[h].pc = "connecting"
  BY DEF IntentInv, Connect
<1>6. OpOK(o) /\ ~Author(o) /\ Moves(h, o)
  BY <1>1, <1>2, <1>5 DEF OpOK, Author, Moves
<1>7. IntentInv'
  BY <1>6, IntentMoves
<1>8. op'[h] = o /\ OnlyAt(h)
  BY <1>1, <1>2, <1>3 DEF OnlyAt, Types
<1>9. Quiet' => Quiet
  BY <1>1, <1>2, <1>8 DEF Quiet, OnlyAt
<1>10. /\ local'[h].known = local[h].known /\ local'[h].open = local[h].open /\ local'[h].calls = local[h].calls
       /\ local'[h].connection \in {local[h].connection, avail.connection}
  BY <1>3 DEF Types, Handles
<1>11. HandleOK(h)'
  <2>1. HandleOK(h)
    BY DEF HandleInv
  <2>2. QED BY <1>1, <1>2, <1>8, <1>10, <2>1, Fields DEF HandleOK, Past, Silent
<1>12. h \notin late' => Trusted(h)'
  BY <1>2, <1>9, <1>10 DEF HandleInv, Trusted, Silent
<1>13. HandleInv'
  BY <1>2, <1>8, <1>9, <1>11, <1>12, HandleMoves
<1>14. QED BY <1>4, <1>7, <1>13

\* Handles that know the current snapshot of a running sandbox.
LEMMA KnowsCurrent ==
  ASSUME Types, NEW h \in Holders, HandleOK(h), avail.phase = "running"
  PROVE  /\ ~Quiet /\ Past(avail)
         /\ row[h].ack <= avail.sequence
         /\ sync[h].update.sequence >= avail.sequence => sync[h].update = avail \/ sync[h].update = NoSnapshot
         /\ sync[h].update.sequence <= avail.sequence
<1>1. ~Quiet /\ Past(avail)
  BY Fields DEF Quiet, Past
<1>2. sync[h].update.sequence <= avail.sequence
  BY Fields DEF HandleOK, Past, NoSnapshot
<1>3. QED BY <1>1, <1>2, Fields, SnapshotFields DEF HandleOK, Past

LEMMA BeginRegisterStep ==
  ASSUME AInv, NEW h \in Holders, BeginRegister(h)
  PROVE  AInv'
<1> USE DEF AInv
<1> DEFINE o == [op[h] EXCEPT !.pc = "committing"]
<1>1. /\ o \in Ops /\ o.pc = "committing" /\ o.kind = op[h].kind /\ o.seen = op[h].seen
      /\ op' = [op EXCEPT ![h] = o]
  BY DEF BeginRegister, Step, Pcs, Types, Ops
<1> HIDE DEF o
<1>2. /\ UNCHANGED <<avail, claim, instance, requests, sync, row>> /\ avail.phase = "running"
      /\ local' = [local EXCEPT ![h].known = avail] /\ late' \in {late, late \cup {h}}
  BY DEF BeginRegister, OnlyHandle
<1>3. Types'
  BY <1>1, <1>2 DEF Types, Handles, MaybeSnapshots
<1>4. OpOK(op[h]) /\ op[h].pc = "registering"
  BY DEF IntentInv, BeginRegister
<1>5. OpOK(o) /\ ~Author(o) /\ Moves(h, o)
  BY <1>1, <1>2, <1>4 DEF OpOK, Author, Moves
<1>6. IntentInv'
  BY <1>5, IntentMoves
<1>7. op'[h] = o /\ OnlyAt(h)
  BY <1>1, <1>2 DEF OnlyAt, Types
<1>8. HandleOK(h)
  BY DEF HandleInv
<1>9. ~Quiet /\ ~Quiet'
  BY <1>2 DEF Quiet
<1>10. /\ local'[h].known = avail /\ local'[h].open = local[h].open /\ local'[h].calls = local[h].calls
       /\ local'[h].connection = local[h].connection
  BY <1>2 DEF Types, Handles
<1>11. HandleOK(h)'
  BY <1>1, <1>2, <1>7, <1>8, <1>10, KnowsCurrent DEF HandleOK, Past, Silent
<1>12. Trusted(h)'
  BY <1>2, <1>8, <1>9, <1>10, KnowsCurrent, Fields DEF HandleOK, Trusted, Silent
<1>13. HandleInv'
  BY <1>2, <1>7, <1>9, <1>11, <1>12, HandleMoves
<1>14. QED BY <1>3, <1>6, <1>13

LEMMA RegisterHolderStep ==
  ASSUME AInv, NEW h \in Holders, RegisterHolder(h)
  PROVE  AInv'
<1> USE DEF AInv
<1> DEFINE o == [op[h] EXCEPT !.seen = avail, !.pc = "registered"]
<1>1. /\ o \in Ops /\ o.pc = "registered" /\ o.kind = op[h].kind /\ o.seen = avail
      /\ op' = [op EXCEPT ![h] = o]
  BY DEF RegisterHolder, Pcs, Types, Ops, MaybeSnapshots
<1> HIDE DEF o
<1>2. /\ UNCHANGED <<avail, claim, instance, requests, sync, local, late>> /\ avail.phase = "running"
      /\ row' = [row EXCEPT ![h] = [registered |-> TRUE, ack |-> 0]]
  BY DEF RegisterHolder, OnlyHandle
<1>3. Types'
  BY <1>1, <1>2 DEF Types, Rows
<1>4. OpOK(op[h]) /\ op[h].pc = "committing"
  BY DEF IntentInv, RegisterHolder
<1>5. OpOK(o) /\ ~Author(o) /\ Moves(h, o)
  <2>1. Past(avail) /\ avail # NoSnapshot
    BY Fields, SnapshotFields DEF Past
  <2>2. QED BY <1>1, <1>2, <1>4, <2>1 DEF OpOK, Author, Moves
<1>6. IntentInv'
  BY <1>5, IntentMoves
<1>7. op'[h] = o /\ OnlyAt(h) /\ row'[h].registered = TRUE /\ row'[h].ack = 0
  BY <1>1, <1>2 DEF OnlyAt, Types
<1>8. HandleOK(h)
  BY DEF HandleInv
<1>9. ~Quiet /\ ~Quiet'
  BY <1>2 DEF Quiet
<1>10. HandleOK(h)'
  BY <1>1, <1>2, <1>7, <1>8, Fields DEF HandleOK, Past, Silent
<1>11. h \notin late' => Trusted(h)'
  <2>1. local[h].known.sequence \in Nat
    BY Fields, SnapshotFields
  <2>2. QED BY <1>2, <1>7, <1>9, <2>1 DEF HandleInv, Trusted, Silent
<1>12. HandleInv'
  BY <1>2, <1>7, <1>9, <1>10, <1>11, HandleMoves
<1>13. QED BY <1>3, <1>6, <1>12

LEMMA EndRegisterStep ==
  ASSUME AInv, NEW h \in Holders, EndRegister(h)
  PROVE  AInv'
<1> USE DEF AInv
<1> DEFINE o == [op[h] EXCEPT !.pc = "releasing"]
<1>1. /\ o \in Ops /\ o.pc = "releasing" /\ o.kind = op[h].kind /\ o.seen = op[h].seen
      /\ op' = [op EXCEPT ![h] = o]
  BY DEF EndRegister, Step, Pcs, Types, Ops
<1> HIDE DEF o
<1>2. /\ UNCHANGED <<avail, claim, instance, requests, sync, row>>
      /\ local' = [local EXCEPT ![h].known = op[h].seen, ![h].open = TRUE]
      /\ late' = IF Holding(h) THEN late ELSE late \cup {h}
  BY DEF EndRegister, OnlyHandle
<1>3. Types'
  <2>1. op[h].seen \in MaybeSnapshots
    BY Fields
  <2>2. local' \in [Holders -> Handles]
    BY <1>2, <2>1 DEF Types, Handles
  <2>3. QED BY <1>1, <1>2, <2>2 DEF Types
<1>4. OpOK(op[h]) /\ op[h].pc = "registered"
  BY DEF IntentInv, EndRegister
<1>5. OpOK(o) /\ ~Author(o) /\ Moves(h, o)
  BY <1>1, <1>2, <1>4 DEF OpOK, Author, Moves
<1>6. IntentInv'
  BY <1>5, IntentMoves
<1>7. op'[h] = o /\ OnlyAt(h)
  BY <1>1, <1>2 DEF OnlyAt, Types
<1>8. HandleOK(h) /\ row[h].registered
  BY <1>4 DEF HandleInv, HandleOK
<1>9. Quiet' => Quiet
  BY <1>1, <1>2, <1>7 DEF Quiet, OnlyAt
<1>10. /\ local'[h].known = op[h].seen /\ local'[h].open = TRUE /\ local'[h].calls = local[h].calls
       /\ local'[h].connection = local[h].connection
  BY <1>2 DEF Types, Handles
<1>11. HandleOK(h)'
  BY <1>1, <1>2, <1>4, <1>7, <1>8, <1>10 DEF HandleOK, Past, Silent, OpOK
<1>12. ASSUME h \notin late' PROVE Trusted(h)'
  <2>1. op[h].seen = avail /\ avail.phase = "running"
    BY <1>2, <1>4, <1>8, <1>12 DEF HandleOK
  <2>2. ~Quiet /\ ~Quiet'
    BY <1>2, <2>1 DEF Quiet
  <2>3. QED BY <1>2, <1>8, <1>10, <2>1, <2>2, KnowsCurrent, Fields DEF HandleOK, Trusted, Silent
<1>13. HandleInv'
  BY <1>2, <1>7, <1>9, <1>11, <1>12, HandleMoves
<1>14. QED BY <1>3, <1>6, <1>13

LEMMA SyncReadStep ==
  ASSUME AInv, NEW h \in Holders, SyncRead(h)
  PROVE  AInv'
<1> USE DEF AInv
<1>1. /\ UNCHANGED <<avail, claim, instance, requests, op, local, row, late>> /\ row[h].registered
      /\ sync' = [sync EXCEPT ![h] = [pc |-> "applying", update |-> avail]]
  BY DEF SyncRead, OnlyPoll
<1>2. sync'[h].pc = "applying" /\ sync'[h].update = avail /\ OnlyAt(h)
  BY <1>1 DEF Types, OnlyAt
<1>3. Types'
  BY <1>1 DEF Types, Polls, MaybeSnapshots
<1>4. IntentInv'
  BY <1>1, IntentStays
<1>5. HandleOK(h)
  BY DEF HandleInv
<1>6. Past(avail) /\ avail # NoSnapshot
  BY Fields, SnapshotFields DEF Past
<1>7. HandleOK(h)'
  BY <1>1, <1>2, <1>5, <1>6 DEF HandleOK, Past, Silent, Holding
<1>8. Quiet' = Quiet
  BY <1>1 DEF Quiet
<1>9. ASSUME h \notin late' PROVE Trusted(h)'
  <2>1. Trusted(h)
    BY <1>1, <1>9 DEF HandleInv
  <2>2. local[h].known.connection <= avail.connection
    BY <1>5, Fields DEF HandleOK, Past, NoSnapshot
  <2>3. avail.phase = "running" => ~Quiet
    BY DEF Quiet
  <2>4. QED BY <1>1, <1>2, <1>8, <2>1, <2>2, <2>3 DEF Trusted, Silent
<1>10. HandleInv'
  BY <1>1, <1>2, <1>7, <1>8, <1>9, HandleMoves
<1>11. QED BY <1>3, <1>4, <1>10

LEMMA SyncApplyStep ==
  ASSUME AInv, NEW h \in Holders, SyncApply(h)
  PROVE  AInv'
<1> USE DEF AInv
<1> DEFINE u == sync[h].update
<1> DEFINE known == local[h].known
<1>1. UNCHANGED <<avail, claim, instance, requests, op, row, late>> /\ sync[h].pc = "applying"
  BY DEF SyncApply, OnlyPoll
<1>2. PICK pc, update : /\ sync' = [sync EXCEPT ![h] = [pc |-> pc, update |-> update]]
                        /\ \/ pc = "off" /\ update = NoSnapshot
                           \/ pc = "acknowledging" /\ update = u /\ u.phase = "draining" /\ Idle(h)
                              /\ u.sequence >= known.sequence /\ u.phase # "running"
                              /\ local' = [local EXCEPT ![h].open = FALSE, ![h].known = u]
  <2>1. CASE sync' = [sync EXCEPT ![h] = NoSync]
    BY <2>1 DEF NoSync
  <2>2. CASE /\ sync' = [sync EXCEPT ![h].pc = "acknowledging"] /\ u.phase = "draining" /\ Idle(h)
             /\ u.sequence >= known.sequence /\ u.phase # "running"
             /\ local' = [local EXCEPT ![h].open = FALSE, ![h].known = u]
    <3>1. [sync EXCEPT ![h].pc = "acknowledging"] = [sync EXCEPT ![h] = [pc |-> "acknowledging", update |-> u]]
      <4>1. sync[h] \in Polls
        BY DEF Types
      <4>2. [sync[h] EXCEPT !.pc = "acknowledging"] = [pc |-> "acknowledging", update |-> sync[h].update]
        BY <4>1 DEF Polls
      <4>3. QED BY <4>2 DEF Types
    <3>2. QED BY <2>2, <3>1
  <2>3. QED BY <2>1, <2>2 DEF SyncApply
<1>3. PICK open, snapshot :
        /\ local' = [local EXCEPT ![h].open = open, ![h].known = snapshot]
        /\ \/ open = local[h].open /\ snapshot = known
           \/ open = FALSE /\ snapshot \in {u, known} /\ u.sequence >= known.sequence
           \/ open = TRUE /\ snapshot = u /\ u.phase = "running" /\ u.connection = known.connection
              /\ u.sequence >= known.sequence
        /\ pc = "acknowledging" => open = FALSE /\ snapshot = u
  <2>1. CASE local' = local /\ pc = "off"
    <3>1. local = [local EXCEPT ![h].open = local[h].open, ![h].known = known]
      BY DEF Types, Handles
    <3>2. QED BY <2>1, <3>1
  <2>2. CASE local' = [local EXCEPT ![h].open = FALSE, ![h].known = u] /\ u.sequence >= known.sequence
    BY <2>2
  <2>3. CASE local' = [local EXCEPT ![h].open = FALSE] /\ u.sequence >= known.sequence /\ pc = "off"
    <3>1. [local EXCEPT ![h].open = FALSE] = [local EXCEPT ![h].open = FALSE, ![h].known = known]
      BY DEF Types, Handles
    <3>2. QED BY <2>3, <3>1
  <2>4. CASE /\ local' = [local EXCEPT ![h].open = TRUE, ![h].known = u] /\ u.sequence >= known.sequence
             /\ u.phase = "running" /\ u.connection = known.connection
    BY <1>2, <2>4
  <2>5. QED BY <1>2, <2>1, <2>2, <2>3, <2>4 DEF SyncApply, Reconnects
<1>4. sync'[h].pc = pc /\ sync'[h].update = update /\ OnlyAt(h)
  BY <1>1, <1>2, <1>3 DEF Types, OnlyAt
<1>5. /\ local'[h].open = open /\ local'[h].known = snapshot /\ local'[h].calls = local[h].calls
      /\ local'[h].connection = local[h].connection
  BY <1>3 DEF Types, Handles
<1>6. u \in MaybeSnapshots /\ known \in MaybeSnapshots /\ open \in BOOLEAN /\ snapshot \in MaybeSnapshots
      /\ update \in MaybeSnapshots /\ pc \in {"off", "acknowledging"}
  BY <1>2, <1>3, Fields DEF MaybeSnapshots
<1>7. Types'
  <2>1. local' \in [Holders -> Handles]
    BY <1>3, <1>6, ZenonT(40) DEF Types, Handles
  <2>2. sync' \in [Holders -> Polls]
    BY <1>2, <1>6 DEF Types, Polls
  <2>3. QED BY <1>1, <2>1, <2>2 DEF Types
<1>8. IntentInv'
  BY <1>1, IntentStays
<1>9. HandleOK(h) /\ row[h].registered
  BY <1>1 DEF HandleInv, HandleOK
<1>10. Past(NoSnapshot) /\ u # NoSnapshot
  BY <1>1, <1>9 DEF Past, HandleOK
<1>11. HandleOK(h)'
  BY <1>1, <1>2, <1>3, <1>4, <1>5, <1>9, <1>10 DEF HandleOK, Past, Holding
<1>12. Quiet' = Quiet
  BY <1>1 DEF Quiet
<1>13. ASSUME h \notin late' PROVE Trusted(h)'
  <2>1. Trusted(h)
    BY <1>1, <1>13 DEF HandleInv
  <2>2. /\ u.sequence \in Nat /\ u.connection \in Nat /\ known.sequence \in Nat /\ known.connection \in Nat
        /\ row[h].ack \in Nat /\ avail.sequence \in Nat /\ avail.connection \in Nat
    BY <1>6, Fields, SnapshotFields
  <2>3. u.connection <= avail.connection
    BY <1>9, <1>10 DEF HandleOK, Past
  <2>4. row[h].ack <= snapshot.sequence
    BY <1>3, <2>1, <2>2 DEF Trusted
  <2>5. local[h].calls \in 0 .. 1 /\ local[h].open \in BOOLEAN
    BY Fields
  <2>6. CASE open = TRUE /\ snapshot = u /\ u.phase = "running" /\ u.connection = known.connection
             /\ u.sequence >= known.sequence
    <3>1. ~Quiet /\ u.connection = avail.connection
      BY <1>1, <2>1, <2>6 DEF Trusted
    <3>2. ~(avail.phase = "draining" /\ row[h].ack = avail.sequence)
      <4>1. SUFFICES ASSUME avail.phase = "draining", row[h].ack = avail.sequence PROVE FALSE
        OBVIOUS
      <4>2. u.sequence >= avail.sequence
        BY <2>1, <2>2, <2>6, <4>1 DEF Trusted
      <4>3. u = avail
        BY <1>9, <1>10, <2>2, <4>2 DEF HandleOK, Past
      <4>4. QED BY <2>6, <4>1, <4>3
    <3>3. pc = "off"
      BY <1>3, <1>6, <2>6
    <3>4. QED BY <1>1, <1>4, <1>5, <1>12, <2>4, <2>6, <3>1, <3>2, <3>3 DEF Trusted, Silent
  <2>7. CASE open = FALSE /\ snapshot \in {u, known} /\ u.sequence >= known.sequence
    <3>1. local[h].calls # 0 => known.connection = avail.connection /\ u.connection = avail.connection
      BY <1>1, <2>1, <2>2, <2>3, <2>7 DEF Trusted, Silent
    <3>2. pc = "acknowledging" => local[h].calls = 0 /\ update = u /\ snapshot = u
      BY <1>2, <1>3 DEF Idle
    <3>3. QED BY <1>1, <1>2, <1>4, <1>5, <1>12, <2>1, <2>2, <2>4, <2>7, <3>1, <3>2 DEF Trusted, Silent
  <2>8. CASE open = local[h].open /\ snapshot = known /\ pc = "off"
    BY <1>1, <1>4, <1>5, <1>12, <2>1, <2>8 DEF Trusted, Silent
  <2>9. QED BY <1>2, <1>3, <2>6, <2>7, <2>8
<1>14. HandleInv'
  BY <1>1, <1>4, <1>11, <1>12, <1>13, HandleMoves
<1>15. QED BY <1>7, <1>8, <1>14

LEMMA AcknowledgeStep ==
  ASSUME AInv, NEW h \in Holders, Acknowledge(h)
  PROVE  AInv'
<1> USE DEF AInv
<1>1. /\ UNCHANGED <<avail, claim, instance, requests, op, local, late>> /\ sync[h].pc = "acknowledging"
      /\ sync' = [sync EXCEPT ![h] = NoSync]
  BY DEF Acknowledge, OnlyPoll
<1>2. PICK ack \in Nat : /\ row' = [row EXCEPT ![h].ack = ack]
                         /\ ack = row[h].ack \/ (ack = avail.sequence /\ avail = sync[h].update /\ row[h].registered)
  <2>1. row = [row EXCEPT ![h].ack = row[h].ack]
    BY DEF Types, Rows
  <2>2. QED BY <2>1, Fields DEF Acknowledge
<1>3. sync'[h].pc = "off" /\ sync'[h].update = NoSnapshot /\ OnlyAt(h)
  BY <1>1, <1>2 DEF Types, OnlyAt, NoSync
<1>4. row'[h].ack = ack /\ row'[h].registered = row[h].registered
  BY <1>2 DEF Types, Rows
<1>5. Types'
  BY <1>1, <1>2 DEF Types, Polls, Rows, NoSync, MaybeSnapshots
<1>6. IntentInv'
  BY <1>1, IntentStays
<1>7. HandleOK(h)
  BY DEF HandleInv
<1>8. HandleOK(h)'
  BY <1>1, <1>2, <1>3, <1>4, <1>7, Fields DEF HandleOK, Past, Silent, Holding
<1>9. Quiet' = Quiet
  BY <1>1 DEF Quiet
<1>10. ASSUME h \notin late' PROVE Trusted(h)'
  <2>1. Trusted(h)
    BY <1>1, <1>10 DEF HandleInv
  <2>2. QED BY <1>1, <1>2, <1>3, <1>4, <1>9, <2>1 DEF Trusted, Silent
<1>11. HandleInv'
  BY <1>1, <1>3, <1>8, <1>9, <1>10, HandleMoves
<1>12. QED BY <1>5, <1>6, <1>11

LEMMA CallSteps ==
  ASSUME AInv, NEW h \in Holders, StartCall(h) \/ EndCall(h)
  PROVE  AInv'
<1> USE DEF AInv
<1>1. UNCHANGED <<avail, claim, instance, requests, op, row, sync, late>>
  BY DEF StartCall, EndCall, OnlyCalls
<1>2. PICK calls \in 0 .. 1 : local' = [local EXCEPT ![h].calls = calls] /\ (calls = 1 => local[h].open)
  BY DEF StartCall, EndCall
<1>3. /\ local'[h].calls = calls /\ local'[h].open = local[h].open /\ local'[h].known = local[h].known
      /\ local'[h].connection = local[h].connection /\ OnlyAt(h)
  BY <1>1, <1>2 DEF Types, Handles, OnlyAt
<1>4. Types'
  BY <1>1, <1>2 DEF Types, Handles
<1>5. IntentInv'
  BY <1>1, IntentStays
<1>6. Silent(h) => Silent(h)'
  BY <1>2, <1>3 DEF Silent
<1>7. HandleOK(h)'
  <2>1. HandleOK(h)
    BY DEF HandleInv
  <2>2. QED BY <1>1, <1>3, <1>6, <2>1 DEF HandleOK, Past, Holding
<1>8. Quiet' = Quiet
  BY <1>1 DEF Quiet
<1>9. ASSUME h \notin late' PROVE Trusted(h)'
  <2>1. Trusted(h)
    BY <1>1, <1>9 DEF HandleInv
  <2>2. QED BY <1>1, <1>3, <1>6, <1>8, <2>1 DEF Trusted
<1>10. HandleInv'
  BY <1>1, <1>3, <1>7, <1>8, <1>9, HandleMoves
<1>11. QED BY <1>4, <1>5, <1>10

LEMMA CrashHolderStep ==
  ASSUME AInv, NEW h \in Holders, CrashHolder(h)
  PROVE  AInv'
<1> USE DEF AInv
<1>1. /\ UNCHANGED <<avail, claim, instance, requests, row, late>> /\ op' = [op EXCEPT ![h] = NoOp]
      /\ local' = [local EXCEPT ![h].open = FALSE] /\ sync' = [sync EXCEPT ![h] = NoSync]
  BY DEF CrashHolder
<1>2. /\ local'[h].open = FALSE /\ local'[h].calls = local[h].calls /\ local'[h].known = local[h].known
      /\ local'[h].connection = local[h].connection /\ op'[h] = NoOp /\ OnlyAt(h)
      /\ sync'[h].pc = "off" /\ sync'[h].update = NoSnapshot
  BY <1>1 DEF Types, Handles, OnlyAt, NoSync
<1>3. NoOp.pc = "idle" /\ NoOp.seen = NoSnapshot /\ NoOp \in Ops
  BY DEF NoOp, Ops, Pcs, States, MaybeSnapshots
<1>4. Types'
  <2>1. local' \in [Holders -> Handles]
    BY <1>1 DEF Types, Handles
  <2>2. sync' \in [Holders -> Polls]
    BY <1>1 DEF Types, Polls, NoSync, MaybeSnapshots
  <2>3. op' \in [Holders -> Ops]
    BY <1>1, <1>3 DEF Types
  <2>4. QED BY <1>1, <2>1, <2>2, <2>3 DEF Types
<1>5. Past(NoSnapshot)
  BY DEF Past
<1>6. OpOK(NoOp) /\ ~Author(NoOp) /\ Moves(h, NoOp)
  BY <1>1, <1>3, <1>5, Harmless DEF Moves
<1>7. IntentInv'
  BY <1>6, IntentMoves
<1>8. Silent(h) => Silent(h)'
  BY <1>2 DEF Silent
<1>9. HandleOK(h)'
  <2>1. HandleOK(h)
    BY DEF HandleInv
  <2>2. QED BY <1>1, <1>2, <1>3, <1>5, <1>8, <2>1 DEF HandleOK, Past
<1>10. Quiet' => Quiet
  BY <1>1, <1>2, <1>3 DEF Quiet, OnlyAt
<1>11. ASSUME h \notin late' PROVE Trusted(h)'
  <2>1. Trusted(h)
    BY <1>1, <1>11 DEF HandleInv
  <2>2. QED BY <1>1, <1>2, <1>8, <1>10, <2>1 DEF Trusted
<1>12. HandleInv'
  BY <1>1, <1>2, <1>9, <1>10, <1>11, HandleMoves
<1>13. QED BY <1>4, <1>7, <1>12

LEMMA CloseHolderStep ==
  ASSUME AInv, NEW h \in Holders, CloseHolder(h)
  PROVE  AInv'
<1> USE DEF AInv
<1>1. /\ UNCHANGED <<avail, claim, instance, requests, op, sync, late>> /\ op[h] = NoOp /\ sync[h] = NoSync
      /\ local[h].calls = 0 /\ local' = [local EXCEPT ![h].open = FALSE]
      /\ row' = [row EXCEPT ![h] = [registered |-> FALSE, ack |-> 0]]
  BY DEF CloseHolder, Idle
<1>2. /\ local'[h].open = FALSE /\ local'[h].calls = 0 /\ local'[h].known = local[h].known
      /\ local'[h].connection = local[h].connection /\ OnlyAt(h)
      /\ row'[h].registered = FALSE /\ row'[h].ack = 0
  BY <1>1 DEF Types, Handles, OnlyAt
<1>3. Types'
  BY <1>1 DEF Types, Handles, Rows
<1>4. IntentInv'
  BY <1>1, IntentStays
<1>5. op'[h].pc = "idle" /\ sync'[h].pc = "off" /\ Silent(h)'
  BY <1>1, <1>2 DEF NoOp, NoSync, Silent
<1>6. HandleOK(h)'
  <2>1. HandleOK(h)
    BY DEF HandleInv
  <2>2. QED BY <1>1, <1>2, <1>5, <2>1, Fields DEF HandleOK, Past
<1>7. Quiet' = Quiet
  BY <1>1 DEF Quiet
<1>8. h \notin late' => Trusted(h)'
  <2>1. local[h].known.sequence \in Nat
    BY Fields, SnapshotFields
  <2>2. QED BY <1>2, <1>5, <2>1 DEF Trusted
<1>9. HandleInv'
  BY <1>1, <1>2, <1>6, <1>7, <1>8, HandleMoves
<1>10. QED BY <1>3, <1>4, <1>9

-----------------------------------------------------------------------------
(* The theorems.                                                            *)

\* Every step of the managers, the server and the outside keeps the invariant: what the
\* operations know of the intent, that one operation answers for each change of it, and what
\* a registered handle has acknowledged, polled or kept open.
THEOREM AvailabilityInductive == AvailabilitySpec => []AInv
<1>1. AvailabilityInit => AInv
  <2> SUFFICES ASSUME AvailabilityInit PROVE AInv
    OBVIOUS
  <2>1. Types
    BY TypesInit
  <2>2. /\ requests = {} /\ instance = "running" /\ avail.phase = "running" /\ avail.sequence = 0
        /\ avail.connection = 0
        /\ \A h \in Holders : /\ op[h] = NoOp /\ sync[h] = NoSync /\ row[h].ack = 0 /\ ~row[h].registered
                              /\ local[h].known = NoSnapshot /\ local[h].calls = 0 /\ local[h].open = FALSE
                              /\ local[h].connection = 0
    BY DEF AvailabilityInit
  <2>3. /\ NoOp.pc = "idle" /\ NoOp.seen = NoSnapshot /\ NoSync.pc = "off" /\ NoSync.update = NoSnapshot
        /\ NoSnapshot.sequence = 0 /\ Past(NoSnapshot)
    BY DEF NoOp, NoSync, NoSnapshot, Past
  <2>4. IntentInv
    BY <2>2, <2>3 DEF IntentInv, OpOK, OneAuthor, Author, RequestMatchesIntent, RequestsDiffer, Awake
  <2>5. HandleInv
    BY <2>2, <2>3 DEF HandleInv, HandleOK, Trusted, Silent, Quiet
  <2>6. QED BY <2>1, <2>4, <2>5 DEF AInv
<1>2. AInv /\ [AvailabilityNext]_availabilityVars => AInv'
  <2> SUFFICES ASSUME AInv, [AvailabilityNext]_availabilityVars PROVE AInv'
    OBVIOUS
  <2>1. ASSUME NEW h \in Holders, NEW kind \in {"get", "pause", "resume", "refresh"}, ClaimOwner(h, kind)
        PROVE  AInv'
    BY <2>1, ClaimSteps
  <2>2. ASSUME NEW h \in Holders, ReadIntent(h) \/ Confirm(h) \/ GiveUp(h) \/ ReleaseClaim(h)
        PROVE  AInv'
    BY <2>2, ReadIntentStep, ConfirmStep, GiveUpStep, ClaimSteps
  <2>3. ASSUME NEW h \in Holders, BeginDrain(h) \/ Drained(h) \/ CancelDrain(h) \/ SendPause(h) \/ Paused(h)
        PROVE  AInv'
    <3>1. CASE CancelDrain(h)
      <4>1. CASE Undo(h, op[h].original, "releasing")
        BY <3>1, <4>1, CancelDrainStep
      <4>2. CASE ~Holding(h) /\ Step(h, "releasing") /\ UNCHANGED <<avail, mishaps>>
        BY <3>1, <4>2, Ends DEF CancelDrain
      <4>3. QED BY <3>1, <4>1, <4>2 DEF CancelDrain
    <3>2. QED BY <2>3, <3>1, BeginDrainStep, DrainedStep, SendPauseStep, PausedStep
  <2>4. ASSUME NEW h \in Holders,
               Reopen(h) \/ Inspect(h) \/ Wake(h) \/ SendResume(h) \/ CancelResume(h) \/ Resumed(h)
        PROVE  AInv'
    <3>1. CASE CancelResume(h)
      <4>1. CASE Undo(h, op[h].original, "releasing")
        BY <3>1, <4>1, CancelResumeStep
      <4>2. CASE ~Holding(h) /\ Step(h, "releasing") /\ UNCHANGED <<avail, mishaps>>
        BY <3>1, <4>2, Ends DEF CancelResume
      <4>3. QED BY <3>1, <4>1, <4>2 DEF CancelResume
    <3>2. QED BY <2>4, <3>1, ReopenStep, InspectStep, WakeStep, SendResumeStep, ResumedStep
  <2>5. ASSUME NEW h \in Holders, Reject(h) \/ Restore(h)
        PROVE  AInv'
    BY <2>5, RejectStep, RestoreStep
  <2>6. ASSUME NEW h \in Holders, Connect(h) \/ BeginRegister(h) \/ RegisterHolder(h) \/ EndRegister(h)
        PROVE  AInv'
    BY <2>6, ConnectStep, BeginRegisterStep, RegisterHolderStep, EndRegisterStep
  <2>7. ASSUME NEW h \in Holders, SyncRead(h) \/ SyncApply(h) \/ Acknowledge(h)
        PROVE  AInv'
    BY <2>7, SyncReadStep, SyncApplyStep, AcknowledgeStep
  <2>8. ASSUME NEW h \in Holders, StartCall(h) \/ EndCall(h) \/ CrashHolder(h) \/ CloseHolder(h)
        PROVE  AInv'
    BY <2>8, CallSteps, CrashHolderStep, CloseHolderStep
  <2>9. ASSUME NEW request \in {"pause", "resume"}, Serve(request) PROVE AInv'
    BY <2>9, ServeStep
  <2>10. CASE UNCHANGED availabilityVars
    <3>1. UNCHANGED <<avail, row, claim, instance, requests, local, op, sync, late>>
      BY <2>10 DEF availabilityVars
    <3>2. Types' /\ IntentInv'
      BY <3>1, IntentStays DEF AInv, Types
    <3>3. HandleInv'
      BY <3>1, HandlesStay DEF AInv, Holding
    <3>4. QED BY <3>2, <3>3 DEF AInv
  <2>11. QED BY <2>1, <2>2, <2>3, <2>4, <2>5, <2>6, <2>7, <2>8, <2>9, <2>10, ExpireClaimStep, ResumeOutsideStep
            DEF AvailabilityNext
<1>3. QED BY <1>1, <1>2, PTL DEF AvailabilitySpec

-----------------------------------------------------------------------------
(* Connections.                                                             *)

\* The handles stay as they are and no registration becomes possible.
LEMMA ConnectionKept ==
  ASSUME ConnectionInv, avail'.connection = avail.connection, late \subseteq late', adopted' = adopted,
         \A g \in Holders : /\ local'[g].known = local[g].known /\ local'[g].connection = local[g].connection
                            /\ Registering(op'[g]) /\ Holding(g)' => Registering(op[g]) /\ Holding(g)
  PROVE  ConnectionInv'
BY DEF ConnectionInv, Connected, Registering

\* The operation of h moves on, outside its registration.
LEMMA ConnectionMoves ==
  ASSUME ConnectionInv, NEW h \in Holders, UNCHANGED <<local, late, adopted>>,
         \A g \in Holders \ {h} : op'[g] = op[g], ~Registering(op'[h]),
         \/ UNCHANGED claim /\ (UNCHANGED avail \/ Holding(h))
         \/ UNCHANGED avail /\ \A g \in Holders \ {h} : Holding(g)' => Holding(g)
  PROVE  ConnectionInv'
<1>1. ASSUME NEW g \in Holders \ late PROVE Connected(g)'
  <2>1. Connected(g)
    BY DEF ConnectionInv
  <2>2. CASE g = h
    BY <2>1, <2>2 DEF Connected, Registering
  <2>3. CASE g # h
    <3>1. Holding(g)' => Holding(g) /\ UNCHANGED avail
      BY <2>3 DEF Holding
    <3>2. QED BY <2>1, <2>3, <3>1 DEF Connected, Registering
  <2>4. QED BY <2>2, <2>3
<1>2. QED BY <1>1 DEF ConnectionInv

\* Only the handle of h changes.
LEMMA ConnectionOfOne ==
  ASSUME ConnectionInv, NEW h \in Holders, UNCHANGED <<avail, claim>>, late \subseteq late',
         adopted \ {h} = adopted' \ {h}, \A g \in Holders \ {h} : op'[g] = op[g] /\ local'[g] = local[g],
         h \notin late' => Connected(h)'
  PROVE  ConnectionInv'
<1>1. ASSUME NEW g \in Holders, g \notin late' PROVE Connected(g)'
  <2>1. CASE g = h
    BY <1>1, <2>1
  <2>2. CASE g # h
    <3>1. Connected(g) /\ op'[g] = op[g] /\ local'[g] = local[g] /\ (g \in adopted' <=> g \in adopted)
      BY <1>1, <2>2 DEF ConnectionInv
    <3>2. QED BY <3>1 DEF Connected, Registering, Holding
  <2>3. QED BY <2>1, <2>2
<1>2. QED BY <1>1 DEF ConnectionInv

\* An open handle that knows the present generation has its connection.
LEMMA OpenIsCurrent ==
  ASSUME AInv, ConnectionInv, NEW h \in Holders, h \notin late, h \notin adopted, ~Silent(h)
  PROVE  local[h].connection = avail.connection
<1>1. HandleOK(h) /\ Trusted(h) /\ Connected(h)
  BY DEF AInv, HandleInv, ConnectionInv
<1>2. local[h].known.connection \in Nat
  BY Fields, SnapshotFields DEF AInv
<1>3. QED BY <1>1, <1>2, Fields DEF AInv, HandleOK, Trusted, Connected

\* A change of the intent, and the move of the operation that makes it.
LEMMA ConnectionTurns ==
  ASSUME AInv, ConnectionInv, NEW h \in Holders, NEW phase, NEW pc \in Pcs, OthersThanOp,
         Change(h, phase, pc) \/ ChangeFirst(h, phase, pc) \/ Undo(h, phase, pc),
         pc \notin {"registering", "committing", "registered"}
  PROVE  ConnectionInv'
<1>1. Holding(h) /\ UNCHANGED <<claim, local, late, adopted>>
  BY DEF Change, ChangeFirst, Undo, CanChange, OthersThanOp
<1>2. op'[h].pc = pc /\ \A g \in Holders \ {h} : op'[g] = op[g]
  BY DEF Change, ChangeFirst, Undo, AInv, Types, Ops
<1>3. QED BY <1>1, <1>2, ConnectionMoves DEF Registering

\* A step of an operation that leaves the intent and the claim.
LEMMA ConnectionSteps ==
  ASSUME AInv, ConnectionInv, NEW h \in Holders, NEW pc \in Pcs, Step(h, pc),
         UNCHANGED <<avail, claim, local, late, adopted>>,
         pc \notin {"registering", "committing", "registered"}
  PROVE  ConnectionInv'
<1>1. op'[h].pc = pc /\ \A g \in Holders \ {h} : op'[g] = op[g]
  BY DEF Step, AInv, Types, Ops
<1>2. QED BY <1>1, ConnectionMoves DEF Registering

LEMMA PlanIsOutside ==
  ASSUME NEW kind \in {"get", "pause", "resume", "refresh"}, NEW phase
  PROVE  Plan(kind, phase) \in Pcs \ {"registering", "committing", "registered"}
BY DEF Plan, Pcs

LEMMA ConnectionInIntent ==
  ASSUME AInv, ConnectionInv, NEW h \in Holders,
         \/ Confirm(h) \/ BeginDrain(h) \/ Drained(h) \/ CancelDrain(h) \/ Paused(h)
         \/ Reopen(h) \/ Wake(h) \/ CancelResume(h) \/ Resumed(h) \/ Restore(h)
  PROVE  ConnectionInv'
<1>1. OthersThanOp
  BY DEF Confirm, BeginDrain, Drained, CancelDrain, Paused, Reopen, Wake, CancelResume, Resumed, Restore, OnlyOp
<1>2. CASE Confirm(h)
  <2>1. op[h].kind \in {"get", "pause", "resume", "refresh"}
    BY <1>2, Fields DEF AInv, IntentInv, OpOK, Ops, Confirm
  <2>2. PICK target : Change(h, target, Plan(op[h].kind, target))
    BY <1>2 DEF Confirm
  <2>3. QED BY <1>1, <2>1, <2>2, PlanIsOutside, ConnectionTurns
<1>3. CASE CancelDrain(h) \/ CancelResume(h)
  <2>1. CASE Undo(h, op[h].original, "releasing")
    BY <1>1, <2>1, ConnectionTurns DEF Pcs
  <2>2. CASE Step(h, "releasing") /\ UNCHANGED avail
    BY <1>1, <2>2, ConnectionSteps DEF Pcs, OthersThanOp
  <2>3. QED BY <1>3, <2>1, <2>2 DEF CancelDrain, CancelResume
<1>4. CASE BeginDrain(h) \/ Wake(h)
  BY <1>1, <1>4, ConnectionTurns DEF BeginDrain, Wake, Pcs
<1>5. CASE Drained(h) \/ Paused(h) \/ Reopen(h) \/ Resumed(h)
  BY <1>1, <1>5, ConnectionTurns DEF Drained, Paused, Reopen, Resumed, Pcs
<1>6. CASE Restore(h)
  BY <1>1, <1>6, ConnectionTurns DEF Restore, Pcs
<1>7. QED BY <1>2, <1>3, <1>4, <1>5, <1>6

LEMMA ConnectionInOperations ==
  ASSUME AInv, ConnectionInv, NEW h \in Holders,
         \/ \E kind \in {"get", "pause", "resume", "refresh"} : ClaimOwner(h, kind)
         \/ ReadIntent(h) \/ GiveUp(h) \/ ReleaseClaim(h) \/ Inspect(h)
         \/ SendPause(h) \/ SendResume(h) \/ Reject(h)
  PROVE  ConnectionInv'
<1>1. UNCHANGED <<avail, local, late, adopted>>
  BY DEF ClaimOwner, ReadIntent, GiveUp, ReleaseClaim, Inspect, SendPause, SendResume, Reject, Send,
         OnlyOp, OthersThanOp
<1>2. CASE \E kind \in {"get", "pause", "resume", "refresh"} : ClaimOwner(h, kind)
  <2>1. PICK kind \in {"get", "pause", "resume", "refresh"} : ClaimOwner(h, kind)
    BY <1>2
  <2>2. /\ op'[h].pc = "reading" /\ \A g \in Holders \ {h} : op'[g] = op[g]
        /\ claim' = [holder |-> h, live |-> TRUE]
    BY <2>1 DEF ClaimOwner, AInv, Types, NoOp
  <2>3. \A g \in Holders \ {h} : ~Holding(g)'
    BY <2>2 DEF Holding
  <2>4. QED BY <1>1, <2>2, <2>3, ConnectionMoves DEF Registering
<1>3. CASE ReadIntent(h)
  <2>1. op[h].kind \in {"get", "pause", "resume", "refresh"}
    BY <1>3, Fields DEF AInv, IntentInv, OpOK, Ops, ReadIntent
  <2>2. op'[h].pc \in {"releasing", Plan(op[h].kind, avail.phase)} /\ \A g \in Holders \ {h} : op'[g] = op[g]
    BY <1>3 DEF ReadIntent, AInv, Types, Ops
  <2>3. ~Registering(op'[h]) /\ UNCHANGED claim
    BY <1>3, <2>1, <2>2, PlanIsOutside DEF Registering, ReadIntent, OnlyOp, OthersThanOp
  <2>4. QED BY <1>1, <2>2, <2>3, ConnectionMoves
<1>4. CASE GiveUp(h)
  BY <1>1, <1>4, ConnectionSteps DEF GiveUp, OthersThanOp, Pcs
<1>5. CASE ReleaseClaim(h)
  <2>1. /\ op'[h].pc = "idle" /\ \A g \in Holders \ {h} : op'[g] = op[g]
        /\ \A g \in Holders : Holding(g)' => Holding(g)
    BY <1>5 DEF ReleaseClaim, AInv, Types, NoOp, Holding
  <2>2. QED BY <1>1, <2>1, ConnectionMoves DEF Registering
<1>6. CASE Inspect(h)
  <2>1. op'[h].pc \in {"waking", "connecting"} /\ \A g \in Holders \ {h} : op'[g] = op[g]
    BY <1>6 DEF Inspect, AInv, Types, Ops
  <2>2. QED BY <1>1, <1>6, <2>1, ConnectionMoves DEF Registering, Inspect, OnlyOp, OthersThanOp
<1>7. CASE SendPause(h) \/ SendResume(h) \/ Reject(h)
  BY <1>1, <1>7, ConnectionSteps DEF SendPause, SendResume, Reject, Send, OnlyOp, OthersThanOp, Pcs
<1>8. QED BY <1>2, <1>3, <1>4, <1>5, <1>6, <1>7

\* A registration under its claim keeps the generation of the connection it made or found.
LEMMA ConnectionInRegistration ==
  ASSUME AInv, ConnectionInv, NEW h \in Holders,
         Connect(h) \/ BeginRegister(h) \/ RegisterHolder(h) \/ EndRegister(h)
  PROVE  ConnectionInv'
<1> USE DEF AInv
<1>1. UNCHANGED <<avail, claim>> /\ late \subseteq late'
  BY DEF Connect, BeginRegister, RegisterHolder, EndRegister, OnlyHandle
<1>2. \A g \in Holders \ {h} : op'[g] = op[g] /\ local'[g] = local[g]
  BY DEF Connect, BeginRegister, RegisterHolder, EndRegister, Step, Types
<1>3. adopted \ {h} = adopted' \ {h}
  BY DEF Connect, BeginRegister, RegisterHolder, EndRegister
<1>4. HandleOK(h) /\ (h \notin late => Connected(h)) /\ (h \notin late => Trusted(h))
  BY DEF HandleInv, ConnectionInv
<1>5. local[h].known.connection <= avail.connection /\ local[h].connection <= avail.connection
  BY <1>4, Fields DEF HandleOK, Past, NoSnapshot
<1>6. ASSUME h \notin late' PROVE Connected(h)'
  <2>1. h \notin late
    BY <1>1, <1>6
  <2>2. CASE Connect(h)
    <3>1. CASE UNCHANGED <<local, adopted>> /\ local[h].open
      BY <1>1, <1>4, <1>5, <2>1, <3>1, OpenIsCurrent DEF Connected, Silent
    <3>2. CASE local' = [local EXCEPT ![h].connection = avail.connection]
      <4>1. local'[h].connection = avail.connection /\ local'[h].known = local[h].known
        BY <3>2 DEF Types, Handles
      <4>2. QED BY <1>1, <1>5, <4>1 DEF Connected
    <3>3. QED BY <2>2, <3>1, <3>2 DEF Connect
  <2>3. CASE BeginRegister(h)
    <3>1. Holding(h) /\ Registering(op[h]) /\ UNCHANGED adopted
      BY <1>6, <2>3 DEF BeginRegister, Registering
    <3>2. local'[h].connection = local[h].connection /\ local'[h].known = avail
      BY <2>3 DEF BeginRegister, Types, Handles
    <3>3. QED BY <1>1, <1>4, <1>5, <2>1, <3>1, <3>2, Fields DEF Connected
  <2>4. CASE RegisterHolder(h)
    <3>1. Holding(h) /\ Registering(op[h]) /\ UNCHANGED <<local, adopted>>
      BY <2>4 DEF RegisterHolder, Registering
    <3>2. QED BY <1>1, <1>4, <2>1, <3>1 DEF Connected
  <2>5. CASE EndRegister(h)
    <3>1. Holding(h) /\ op[h].pc = "registered" /\ UNCHANGED adopted
      BY <1>6, <2>5 DEF EndRegister
    <3>2. local'[h].connection = local[h].connection /\ local'[h].known = op[h].seen
      BY <2>5 DEF EndRegister, Types, Handles
    <3>3. op[h].seen = avail
      BY <1>4, <3>1 DEF HandleOK
    <3>4. QED BY <1>1, <1>4, <2>1, <3>1, <3>2, <3>3, Fields DEF Connected, Registering
  <2>6. QED BY <2>2, <2>3, <2>4, <2>5
<1>7. QED BY <1>1, <1>2, <1>3, <1>6, ConnectionOfOne

LEMMA ConnectionInPolls ==
  ASSUME AInv, ConnectionInv, NEW h \in Holders, SyncRead(h) \/ SyncApply(h) \/ Acknowledge(h)
  PROVE  ConnectionInv'
<1> USE DEF AInv
<1>1. UNCHANGED <<avail, claim, op, late>>
  BY DEF SyncRead, SyncApply, Acknowledge, OnlyPoll
<1>2. CASE SyncRead(h) \/ Acknowledge(h)
  BY <1>1, <1>2, ConnectionKept DEF SyncRead, Acknowledge, Holding
<1>3. CASE SyncApply(h)
  <2> DEFINE u == sync[h].update
  <2>1. (\A g \in Holders \ {h} : local'[g] = local[g]) /\ adopted \ {h} = adopted' \ {h}
    BY <1>3 DEF SyncApply, Types
  <2>2. /\ local'[h].connection = local[h].connection
        /\ \/ local'[h].known.connection = local[h].known.connection /\ adopted' = adopted
           \/ /\ local'[h].known = u
              /\ adopted' = IF u.connection > local[h].connection THEN adopted \cup {h} ELSE adopted
    BY <1>3 DEF SyncApply, Reconnects, Types, Handles
  <2>3. u.connection \in Nat /\ local[h].connection \in Nat
    BY Fields, SnapshotFields
  <2>4. ASSUME h \notin late PROVE Connected(h)'
    <3>1. Connected(h)
      BY <2>4 DEF ConnectionInv
    <3>2. QED BY <1>1, <2>2, <2>3, <3>1 DEF Connected, Registering, Holding
  <2>5. QED BY <1>1, <2>1, <2>4, ConnectionOfOne
<1>4. QED BY <1>2, <1>3

LEMMA ConnectionElsewhere ==
  ASSUME AInv, ConnectionInv,
         \/ \E h \in Holders : StartCall(h) \/ EndCall(h) \/ CrashHolder(h) \/ CloseHolder(h)
         \/ \E request \in {"pause", "resume"} : Serve(request)
         \/ ExpireClaim \/ ResumeOutside \/ UNCHANGED availabilityVars
  PROVE  ConnectionInv'
<1> USE DEF AInv
<1>1. UNCHANGED <<avail, late, adopted>>
  BY DEF StartCall, EndCall, CrashHolder, CloseHolder, OnlyCalls, Serve, ExpireClaim, ResumeOutside,
         availabilityVars
<1>2. \A g \in Holders : local'[g].known = local[g].known /\ local'[g].connection = local[g].connection
  BY DEF StartCall, EndCall, CrashHolder, CloseHolder, Serve, ExpireClaim, ResumeOutside, availabilityVars,
         Types, Handles
<1>3. \A g \in Holders : op'[g] \in {op[g], NoOp}
  BY DEF StartCall, EndCall, CrashHolder, CloseHolder, OnlyCalls, Serve, ExpireClaim, ResumeOutside,
         availabilityVars, Types
<1>4. \A g \in Holders : Holding(g)' => Holding(g)
  BY DEF StartCall, EndCall, CrashHolder, CloseHolder, OnlyCalls, Serve, ExpireClaim, ResumeOutside,
         availabilityVars, Types, Holding
<1>5. ~Registering(NoOp)
  BY DEF Registering, NoOp
<1>6. \A g \in Holders : Registering(op'[g]) /\ Holding(g)' => Registering(op[g]) /\ Holding(g)
  BY <1>3, <1>4, <1>5
<1>7. QED BY <1>1, <1>2, <1>6, ConnectionKept

\* Every step keeps the connections in order.
LEMMA ConnectionNext ==
  ASSUME AInv, ConnectionInv, [AvailabilityNext]_availabilityVars
  PROVE  ConnectionInv'
BY ConnectionInIntent, ConnectionInOperations, ConnectionInRegistration, ConnectionInPolls, ConnectionElsewhere
   DEF AvailabilityNext

\* For any number of managers, operations, polls and mishaps: from the request to pause until
\* the sandbox runs again no handle registered under the claim has a call in flight or lets
\* one begin; and a call runs on a connection made since the last resume, unless its handle
\* took over the new generation from a later drain without connecting again.
THEOREM CallsStayOut == AvailabilitySpec => []CallsRespectIntent
<1>1. AvailabilityInit => ConnectionInv
  BY DEF AvailabilityInit, ConnectionInv, Connected, Registering, NoOp, NoSnapshot
<1>2. AInv /\ ConnectionInv /\ [AvailabilityNext]_availabilityVars => ConnectionInv'
  BY ConnectionNext
<1>3. AInv /\ ConnectionInv => CallsRespectIntent
  <2> SUFFICES ASSUME AInv, ConnectionInv PROVE CallsRespectIntent
    OBVIOUS
  <2> USE DEF AInv
  <2>1. AvailabilityTypeOK
    <3>1. ASSUME NEW h \in Holders
          PROVE  /\ row[h].ack \in 0 .. avail.sequence /\ (row[h].ack # 0 => row[h].registered)
                 /\ local[h].calls \in 0 .. 1 /\ local[h].connection <= avail.connection
                 /\ local[h].known.sequence <= avail.sequence
      <4>1. HandleOK(h)
        BY DEF HandleInv
      <4>2. QED BY <4>1, Fields DEF HandleOK, Past, NoSnapshot
    <3>2. /\ avail.phase \in Phases /\ avail.sequence \in 0 .. MaxSequence /\ avail.connection \in Nat
          /\ claim.holder \in Holders \cup {Nobody}
      BY DEF Types, Snapshots
    <3>3. QED BY <3>1, <3>2 DEF AvailabilityTypeOK, Types
  <2>2. PauseIsQuiet
    BY DEF HandleInv, Trusted, Silent, Quiet, PauseIsQuiet
  <2>3. ConnectedSinceResume
    BY OpenIsCurrent, Fields DEF ConnectedSinceResume, Silent
  <2>4. QED BY <2>1, <2>2, <2>3 DEF CallsRespectIntent
<1>4. QED BY <1>1, <1>2, <1>3, AvailabilityInductive, PTL DEF AvailabilitySpec

\* A pause or resume that the server may still carry out is always the one the intent names,
\* whoever lost its claim, its answer or its process in between.
THEOREM RequestsFollowIntent == AvailabilitySpec => []RequestMatchesIntent
<1>1. AInv => RequestMatchesIntent
  BY DEF AInv, IntentInv
<1>2. QED BY <1>1, AvailabilityInductive, PTL
=============================================================================
