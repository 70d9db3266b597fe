------------------------ MODULE CommandReceiptsProofs ------------------------
(***************************************************************************)
(* Repeated commands for any commands, request IDs, attempts and limits:   *)
(* one effect, one answer, no false conflict and no lost update.           *)
(***************************************************************************)
EXTENDS CommandReceipts, FiniteSetTheorems, TLAPS

-----------------------------------------------------------------------------
(* Definitions and receipts.                                                *)

Kinds == {"create", "update", "pause", "delete"}

IsTask(t) ==
  /\ t = [id |-> t.id, name |-> t.name, input |-> t.input, paused |-> t.paused, space |-> t.space, rev |-> t.rev]
  /\ t.id \in TaskIds /\ t.rev \in Nat \ {0}

DefinitionsOK ==
  /\ DOMAIN definitions = TaskIds
  /\ \A t \in TaskIds : definitions[t] = NoTask \/ (IsTask(definitions[t]) /\ definitions[t].id = t)

\* Whose effect a receipt keeps: its digest is that of the command and of the result.
MadeBy(c, x) ==
  /\ c.req = x.req /\ c.kind = x.kind
  /\ x.kind # "delete" => IsTask(x.result)
  /\ x.kind # "create" => x.result.id = c.task /\ c.rev \in Nat
  /\ x.kind = "create" =>
       /\ x.result.rev = 1 /\ x.result.name = c.name /\ x.result.input = c.input
       /\ c.space # Lazy => x.result.space = c.space
       /\ x.digest = <<"create", x.result.name, x.result.input, x.result.space>>
  /\ x.kind = "update" =>
       /\ x.result.rev = c.rev + 1
       /\ c.name # Keep => x.result.name = c.name
       /\ c.input # Keep => x.result.input = c.input
       /\ x.digest = <<"update", x.result.id, c.rev, x.result.name, x.result.input>>
  /\ x.kind = "pause" => x.result.rev = c.rev + 1 /\ x.result.paused /\ x.digest = <<"pause", x.result.id, c.rev>>
  /\ x.kind = "delete" => x.digest = <<"delete", x.result.id, c.rev>>

ReceiptsOK ==
  \A x \in receipts : x.req \in RequestIds /\ x.kind \in Kinds /\ \E c \in Commands : MadeBy(c, x)

\* Every definition was created once, and its ID is never given out again.
Created(t) == \E x \in receipts : x.kind = "create" /\ x.result.id = t

History ==
  /\ \A t \in TaskIds : Stored(t) => Created(t)
  /\ \A x \in receipts : x.kind # "delete" =>
       /\ Created(x.result.id)
       /\ Stored(x.result.id) => definitions[x.result.id].rev >= x.result.rev

\* OneEffect without the arithmetic.
Single ==
  /\ DOMAIN effects = RequestIds
  /\ \A q \in RequestIds : \/ effects[q] = 0 /\ Receipts(q) = {}
                           \/ effects[q] = 1 /\ \E x \in receipts : Receipts(q) = {x}

-----------------------------------------------------------------------------
(* Attempts.                                                                *)

Waiting == {"receipt", "read"}
Holding == {"commit", "settle"}

\* What an attempt has seen is at least as new as what its caller had observed, and is the
\* stored task unless that is newer.
SeenOK(c, seen) ==
  /\ c.kind = "create" => (c.space # Lazy => seen = c.space)
  /\ c.kind \in {"update", "pause"} =>
       /\ IsTask(seen) /\ seen.id = c.task /\ seen.rev >= c.rev
       /\ Stored(c.task) => /\ definitions[c.task].rev >= seen.rev
                            /\ definitions[c.task].rev = seen.rev => definitions[c.task] = seen

CallOK(call) ==
  \/ call = NoCall
  \/ /\ call.command \in Commands /\ Observed(call.command)
     /\ \/ call.pc \in Waiting /\ call = [pc |-> call.pc, command |-> call.command]
        \/ /\ call.pc \in Holding /\ call = [pc |-> call.pc, command |-> call.command, seen |-> call.seen]
           /\ SeenOK(call.command, call.seen)
        \/ call.pc = "replied"
     /\ call.pc \in {"receipt", "settle"} => call.command.kind \in {"create", "update"}

\* The answers that were given, each for itself.
ForCommand(c, got) ==
  /\ c.kind = "create" => /\ got.rev = 1 /\ got.name = c.name /\ got.input = c.input
                          /\ c.space # Lazy => got.space = c.space
  /\ c.kind = "update" => /\ got.id = c.task /\ got.rev = c.rev + 1
                          /\ c.name # Keep => got.name = c.name
                          /\ c.input # Keep => got.input = c.input
  /\ c.kind = "pause" => got.id = c.task /\ got.rev = c.rev + 1 /\ got.paused
  /\ c.kind = "delete" => got.id = c.task

Reused(c) == \E d \in Commands \ {c} : d.req = c.req

TrueCall(call) ==
  call.pc = "replied" =>
    /\ call.outcome = "result" =>
         /\ \E x \in receipts : x.req = call.command.req /\ x.result = call.result
         /\ ForCommand(call.command, call.result)
    /\ call.outcome = "conflict" => Reused(call.command)

AttemptsOK == DOMAIN attempt = Attempts /\ \A a \in Attempts : CallOK(attempt[a]) /\ TrueCall(attempt[a])

\* The inductive invariant.
RInv == DefinitionsOK /\ ReceiptsOK /\ History /\ Single /\ AttemptsOK

-----------------------------------------------------------------------------
(* Steps that change one attempt only.                                      *)

LEMMA IdleCall == CallOK(NoCall) /\ TrueCall(NoCall) /\ NoCall.pc = "idle"
BY DEF CallOK, TrueCall, NoCall

LEMMA CallStep ==
  ASSUME RInv, NEW a \in Attempts, NEW call, UNCHANGED <<definitions, receipts, effects>>, Go(a, call),
         CallOK(call), TrueCall(call)
  PROVE  RInv'
<1>1. DefinitionsOK' /\ ReceiptsOK'
  BY DEF RInv, DefinitionsOK, ReceiptsOK, IsTask, MadeBy
<1>2. History'
  BY DEF RInv, History, Stored, Created
<1>3. Single'
  BY DEF RInv, Single, Receipts
<1>4. \A other : (CallOK(other) <=> CallOK(other)') /\ (TrueCall(other) <=> TrueCall(other)')
  BY DEF CallOK, TrueCall, SeenOK, Observed, Stored, IsTask, ForCommand, Reused
<1>5. AttemptsOK'
  <2>1. DOMAIN attempt' = Attempts
    BY DEF Go, RInv, AttemptsOK
  <2>2. ASSUME NEW n \in Attempts PROVE CallOK(attempt'[n]) /\ TrueCall(attempt'[n])
    BY DEF Go, RInv, AttemptsOK
  <2>3. ASSUME NEW n \in Attempts PROVE CallOK(attempt[n])' /\ TrueCall(attempt[n])'
    <3>1. PICK other : other = attempt'[n]
      OBVIOUS
    <3>2. CallOK(other) /\ TrueCall(other)
      BY <2>2, <3>1
    <3>3. CallOK(other)' /\ TrueCall(other)'
      BY <1>4, <3>2
    <3> QED
      BY <3>1, <3>3
  <2> QED
    BY <2>1, <2>3 DEF AttemptsOK
<1> QED
  BY <1>1, <1>2, <1>3, <1>5 DEF RInv

\* What a stored digest says of the command that was bound to it.
LEMMA DigestTells ==
  ASSUME ReceiptsOK, NEW x \in receipts, NEW c
  PROVE  /\ \A space : x.digest = CreateDigest(c, space) =>
                   /\ x.kind = "create" /\ x.result.rev = 1 /\ x.result.name = c.name /\ x.result.input = c.input
                   /\ x.result.space = space
         /\ \A base : x.digest = UpdateDigest(c, base) =>
                   /\ x.kind = "update" /\ x.result.id = c.task /\ x.result.rev = c.rev + 1
                   /\ c.name # Keep => x.result.name = c.name
                   /\ c.input # Keep => x.result.input = c.input
         /\ x.digest = <<"pause", c.task, c.rev>> =>
              x.kind = "pause" /\ x.result.id = c.task /\ x.result.rev = c.rev + 1 /\ x.result.paused
         /\ x.digest = <<"delete", c.task, c.rev>> => x.kind = "delete" /\ x.result.id = c.task
<1>1. PICK d \in Commands : MadeBy(d, x)
  BY DEF ReceiptsOK
<1>2. x.kind \in Kinds
  BY DEF ReceiptsOK
<1>3. x.digest[1] = x.kind
  BY <1>1, <1>2 DEF MadeBy, Kinds
<1>4. ASSUME NEW space, x.digest = CreateDigest(c, space)
      PROVE  /\ x.kind = "create" /\ x.result.rev = 1 /\ x.result.name = c.name /\ x.result.input = c.input
             /\ x.result.space = space
  <2>1. x.kind = "create"
    BY <1>3, <1>4 DEF CreateDigest
  <2> QED
    BY <1>1, <1>4, <2>1 DEF MadeBy, CreateDigest
<1>5. ASSUME NEW base, x.digest = UpdateDigest(c, base)
      PROVE  /\ x.kind = "update" /\ x.result.id = c.task /\ x.result.rev = c.rev + 1
             /\ c.name # Keep => x.result.name = c.name
             /\ c.input # Keep => x.result.input = c.input
  <2>1. x.kind = "update"
    BY <1>3, <1>5 DEF UpdateDigest
  <2> QED
    BY <1>1, <1>5, <2>1 DEF MadeBy, UpdateDigest
<1>6. ASSUME x.digest = <<"pause", c.task, c.rev>>
      PROVE  x.kind = "pause" /\ x.result.id = c.task /\ x.result.rev = c.rev + 1 /\ x.result.paused
  <2>1. x.kind = "pause"
    BY <1>3, <1>6
  <2> QED
    BY <1>1, <1>6, <2>1 DEF MadeBy
<1>7. ASSUME x.digest = <<"delete", c.task, c.rev>> PROVE x.kind = "delete" /\ x.result.id = c.task
  <2>1. x.kind = "delete"
    BY <1>3, <1>7
  <2> QED
    BY <1>1, <1>7, <2>1 DEF MadeBy
<1> QED
  BY <1>4, <1>5, <1>6, <1>7

\* A reply leaves the rest of the state alone.
LEMMA ReplyStep ==
  ASSUME RInv, NEW a \in Attempts, NEW outcome, NEW result, UNCHANGED <<definitions, receipts, effects>>,
         attempt[a].pc # "idle", Reply(a, outcome, result),
         outcome = "result" => /\ \E x \in receipts : x.req = CommandOf(a).req /\ x.result = result
                               /\ ForCommand(CommandOf(a), result),
         outcome = "conflict" => Reused(CommandOf(a))
  PROVE  RInv'
<1> DEFINE call == [pc |-> "replied", command |-> CommandOf(a), outcome |-> outcome, result |-> result]
<1>1. /\ call.pc = "replied" /\ call.command = CommandOf(a) /\ call.outcome = outcome /\ call.result = result
      /\ Go(a, call)
  BY DEF Reply
<1>2. CommandOf(a) \in Commands /\ Observed(CommandOf(a))
  BY IdleCall DEF RInv, AttemptsOK, CallOK, CommandOf
<1> HIDE DEF call
<1>3. CallOK(call) /\ TrueCall(call)
  BY <1>1, <1>2 DEF CallOK, TrueCall
<1> QED
  BY <1>1, <1>3, CallStep

LEMMA ReplayStep ==
  ASSUME RInv, NEW a \in Attempts, attempt[a].pc \in {"receipt", "settle"}, NEW x \in Receipts(CommandOf(a).req),
         Replay(a, x), UNCHANGED <<definitions, receipts, effects>>
  PROVE  RInv'
<1> DEFINE c == CommandOf(a)
<1>1. c \in Commands /\ c.kind \in {"create", "update"} /\ x \in receipts /\ x.req = c.req
  BY IdleCall DEF RInv, AttemptsOK, CallOK, CommandOf, Receipts
<1>2. CASE x.kind # "delete" /\ x.digest = ReplayDigest(c, x.result)
  <2>1. Reply(a, "result", x.result)
    BY <1>2 DEF Replay
  <2>2. ForCommand(c, x.result)
    <3>1. CASE c.kind = "create"
      BY <1>1, <1>2, <3>1, DigestTells DEF ReplayDigest, Space, ForCommand, RInv
    <3>2. CASE c.kind = "update"
      BY <1>1, <1>2, <3>2, DigestTells DEF ReplayDigest, ForCommand, RInv
    <3> QED
      BY <1>1, <3>1, <3>2
  <2> QED
    BY <1>1, <2>1, <2>2, ReplyStep
<1>3. CASE ~(x.kind # "delete" /\ x.digest = ReplayDigest(c, x.result))
  <2>1. Reply(a, "conflict", NoTask)
    BY <1>3 DEF Replay, Refuse
  <2>2. Reused(c)
    <3>1. PICK d \in Commands : MadeBy(d, x)
      BY <1>1 DEF RInv, ReceiptsOK
    <3>2. d.req = c.req
      BY <1>1, <3>1 DEF MadeBy
    <3>3. d # c
      BY <1>1, <1>3, <3>1 DEF MadeBy, ReplayDigest, CreateDigest, UpdateDigest, Space
    <3> QED
      BY <3>2, <3>3 DEF Reused
  <2> QED
    BY <2>1, <2>2, ReplyStep
<1> QED
  BY <1>2, <1>3

LEMMA SubmitStep ==
  ASSUME RInv, NEW a \in Attempts, NEW c \in Commands, Submit(a, c)
  PROVE  RInv'
<1> DEFINE call == [pc |-> IF c.kind \in {"create", "update"} THEN "receipt" ELSE "read", command |-> c]
<1>1. /\ call.pc = IF c.kind \in {"create", "update"} THEN "receipt" ELSE "read"
      /\ call.command = c /\ call = [pc |-> call.pc, command |-> call.command]
  OBVIOUS
<1>2. Go(a, call) /\ Observed(c) /\ UNCHANGED <<definitions, receipts, effects>>
  BY DEF Submit
<1> HIDE DEF call
<1>3. CallOK(call) /\ TrueCall(call)
  BY <1>1, <1>2 DEF CallOK, TrueCall, Waiting
<1> QED
  BY <1>2, <1>3, CallStep

LEMMA ReadReceiptStep ==
  ASSUME RInv, NEW a \in Attempts, ReadReceipt(a)
  PROVE  RInv'
<1>1. attempt[a].pc = "receipt" /\ UNCHANGED <<definitions, receipts, effects>>
  BY DEF ReadReceipt
<1>2. CASE Go(a, [attempt[a] EXCEPT !.pc = "read"])
  <2>1. /\ attempt[a] = [pc |-> attempt[a].pc, command |-> attempt[a].command]
        /\ attempt[a].command \in Commands /\ Observed(attempt[a].command)
    BY <1>1, IdleCall DEF RInv, AttemptsOK, CallOK, Holding
  <2>2. PICK call : call = [attempt[a] EXCEPT !.pc = "read"]
    OBVIOUS
  <2>3. call.pc = "read" /\ call.command = attempt[a].command /\ call = [pc |-> call.pc, command |-> call.command]
    BY <2>1, <2>2
  <2>4. CallOK(call) /\ TrueCall(call)
    BY <2>1, <2>3 DEF CallOK, TrueCall, Waiting
  <2> QED
    BY <1>1, <1>2, <2>2, <2>4, CallStep
<1>3. CASE \E x \in Receipts(CommandOf(a).req) : Replay(a, x)
  BY <1>1, <1>3, ReplayStep
<1> QED
  BY <1>2, <1>3 DEF ReadReceipt

LEMMA ReadWinnerStep ==
  ASSUME RInv, NEW a \in Attempts, ReadWinner(a)
  PROVE  RInv'
BY ReplayStep DEF ReadWinner

\* What the caller of a command on a task has observed.
LEMMA ObservedTells ==
  ASSUME RInv, NEW c \in Commands, Observed(c), c.kind # "create"
  PROVE  /\ c.task \in TaskIds /\ c.rev \in Nat \ {0} /\ Created(c.task)
         /\ Stored(c.task) => definitions[c.task].rev >= c.rev
<1>1. PICK x \in receipts : x.kind # "delete" /\ x.result.id = c.task /\ x.result.rev = c.rev
  BY DEF Observed
<1>2. IsTask(x.result)
  BY <1>1 DEF RInv, ReceiptsOK, MadeBy
<1> QED
  BY <1>1, <1>2 DEF IsTask, RInv, History

LEMMA StoredTask ==
  ASSUME RInv, NEW t \in TaskIds, Stored(t)
  PROVE  IsTask(definitions[t]) /\ definitions[t].id = t
BY DEF RInv, DefinitionsOK, Stored, NoTask

LEMMA ReadBaseStep ==
  ASSUME RInv, NEW a \in Attempts, ReadBase(a)
  PROVE  RInv'
<1> DEFINE c == CommandOf(a)
<1>1. attempt[a].pc = "read" /\ UNCHANGED <<definitions, receipts, effects>>
  BY DEF ReadBase
<1>2. c \in Commands /\ Observed(c) /\ c.kind \in Kinds
  BY <1>1, IdleCall, ReceiptsAssumption DEF RInv, AttemptsOK, CallOK, CommandOf, Kinds
<1>3. \/ Reply(a, "missing", NoTask)
      \/ \E seen : Go(a, [pc |-> "commit", command |-> c, seen |-> seen]) /\ SeenOK(c, seen)
  <2>1. CASE c.kind = "create"
    <3>1. Go(a, [pc |-> "commit", command |-> c, seen |-> Space(c, policy)])
      BY <2>1 DEF ReadBase
    <3>2. SeenOK(c, Space(c, policy))
      BY <2>1 DEF SeenOK, Space
    <3> QED
      BY <3>1, <3>2
  <2>2. CASE c.kind = "delete"
    <3>1. Go(a, [pc |-> "commit", command |-> c, seen |-> NoTask])
      BY <2>2 DEF ReadBase
    <3>2. SeenOK(c, NoTask)
      BY <2>2 DEF SeenOK
    <3> QED
      BY <3>1, <3>2
  <2>3. CASE c.kind \in {"update", "pause"}
    <3>1. IF Stored(c.task) THEN Go(a, [pc |-> "commit", command |-> c, seen |-> definitions[c.task]])
          ELSE Refuse(a, "missing")
      BY <2>3 DEF ReadBase
    <3>2. Stored(c.task) => SeenOK(c, definitions[c.task])
      BY <1>2, <2>3, ObservedTells, StoredTask DEF SeenOK, IsTask
    <3> QED
      BY <3>1, <3>2 DEF Refuse
  <2> QED
    BY <1>2, <2>1, <2>2, <2>3 DEF Kinds
<1>4. CASE Reply(a, "missing", NoTask)
  BY <1>1, <1>4, ReplyStep
<1>5. ASSUME NEW seen, Go(a, [pc |-> "commit", command |-> c, seen |-> seen]), SeenOK(c, seen) PROVE RInv'
  <2>1. PICK call : call = [pc |-> "commit", command |-> c, seen |-> seen]
    OBVIOUS
  <2>2. CallOK(call) /\ TrueCall(call)
    BY <1>2, <1>5, <2>1 DEF CallOK, TrueCall, Holding
  <2> QED
    BY <1>1, <1>5, <2>1, <2>2, CallStep
<1> QED
  BY <1>3, <1>4, <1>5

\* The Store's lock: what an attempt has at its commit.
LEMMA AtCommit ==
  ASSUME RInv, NEW a \in Attempts, attempt[a].pc = "commit"
  PROVE  /\ CommandOf(a) \in Commands /\ Observed(CommandOf(a)) /\ CommandOf(a).kind \in Kinds
         /\ attempt[a] = [pc |-> "commit", command |-> CommandOf(a), seen |-> attempt[a].seen]
         /\ SeenOK(CommandOf(a), attempt[a].seen)
BY IdleCall, ReceiptsAssumption DEF RInv, AttemptsOK, CallOK, CommandOf, Kinds, Waiting

LEMMA CommitKnownStep ==
  ASSUME RInv, NEW a \in Attempts, CommitKnown(a)
  PROVE  RInv'
<1> DEFINE c == CommandOf(a)
<1>1. attempt[a].pc = "commit" /\ UNCHANGED <<definitions, receipts, effects>>
  BY DEF CommitKnown
<1>2. PICK x \in Receipts(c.req) :
        IF x.digest = Digest(c, attempt[a].seen) THEN Reply(a, "result", x.result)
        ELSE IF c.kind \in {"create", "update"} THEN Go(a, [attempt[a] EXCEPT !.pc = "settle"])
        ELSE Refuse(a, "conflict")
  BY DEF CommitKnown
<1>3. /\ c \in Commands /\ Observed(c) /\ c.kind \in Kinds
      /\ attempt[a] = [pc |-> "commit", command |-> c, seen |-> attempt[a].seen]
      /\ SeenOK(c, attempt[a].seen)
  BY <1>1, AtCommit
<1>4. x \in receipts /\ x.req = c.req
  BY DEF Receipts
<1>5. CASE x.digest = Digest(c, attempt[a].seen)
  <2>1. ForCommand(c, x.result)
    <3>1. CASE c.kind = "create"
      BY <1>3, <1>4, <1>5, <3>1, DigestTells DEF Digest, ForCommand, SeenOK, RInv
    <3>2. CASE c.kind = "update"
      BY <1>4, <1>5, <3>2, DigestTells DEF Digest, ForCommand, RInv
    <3>3. CASE c.kind = "pause"
      BY <1>4, <1>5, <3>3, DigestTells DEF Digest, ForCommand, RInv
    <3>4. CASE c.kind = "delete"
      BY <1>4, <1>5, <3>4, DigestTells DEF Digest, ForCommand, RInv
    <3> QED
      BY <1>3, <3>1, <3>2, <3>3, <3>4 DEF Kinds
  <2> QED
    BY <1>1, <1>2, <1>4, <1>5, <2>1, ReplyStep
<1>6. CASE x.digest # Digest(c, attempt[a].seen) /\ c.kind \in {"create", "update"}
  <2>1. PICK call : call = [attempt[a] EXCEPT !.pc = "settle"]
    OBVIOUS
  <2>2. /\ call.pc = "settle" /\ call.command = c /\ call.seen = attempt[a].seen
        /\ call = [pc |-> call.pc, command |-> call.command, seen |-> call.seen]
    BY <1>3, <2>1
  <2>3. CallOK(call) /\ TrueCall(call)
    BY <1>3, <1>6, <2>2 DEF CallOK, TrueCall, Holding
  <2> QED
    BY <1>1, <1>2, <1>6, <2>1, <2>3, CallStep
<1>7. CASE x.digest # Digest(c, attempt[a].seen) /\ c.kind \in {"pause", "delete"}
  <2>1. Reply(a, "conflict", NoTask)
    BY <1>2, <1>7 DEF Refuse
  <2>2. PICK d \in Commands : MadeBy(d, x)
    BY <1>4 DEF RInv, ReceiptsOK
  <2>3. d # c
    BY <1>4, <1>7, <2>2 DEF MadeBy, Digest
  <2>4. Reused(c)
    BY <1>4, <2>2, <2>3 DEF Reused, MadeBy
  <2> QED
    BY <1>1, <2>1, <2>4, ReplyStep
<1> QED
  BY <1>3, <1>5, <1>6, <1>7 DEF Kinds

LEMMA CommitRefusedStep ==
  ASSUME RInv, NEW a \in Attempts, CommitRefused(a)
  PROVE  RInv'
<1>1. attempt[a].pc = "commit" /\ UNCHANGED <<definitions, receipts, effects>>
  BY DEF CommitRefused
<1>2. Refuse(a, "missing") \/ Refuse(a, "stale") \/ Refuse(a, "full")
  BY DEF CommitRefused
<1> QED
  BY <1>1, <1>2, ReplyStep DEF Refuse

LEMMA LostStep ==
  ASSUME RInv, NEW a \in Attempts, Lost(a)
  PROVE  RInv'
BY IdleCall, CallStep DEF Lost

-----------------------------------------------------------------------------
(* Commits.                                                                 *)

\* One receipt more, for a request that had none, with one definition that becomes newer, is
\* created under an ID of its own, or is deleted.
LEMMA EffectStep ==
  ASSUME RInv, NEW a \in Attempts, NEW c \in Commands, c = CommandOf(a), attempt[a].pc = "commit", Unknown(c),
         NEW t \in TaskIds, NEW task, NEW result, Apply(a, t, task, result),
         MadeBy(c, [req |-> c.req, digest |-> Digest(c, attempt[a].seen), kind |-> c.kind, result |-> result]),
         task = NoTask \/ (IsTask(task) /\ task.id = t),
         Stored(t) /\ task # NoTask => task.rev > definitions[t].rev,
         ~Stored(t) => ~Created(t),
         c.kind = "create" \/ Created(t),
         c.kind # "delete" => result = task /\ task # NoTask,
         ForCommand(c, result)
  PROVE  RInv'
<1>1. PICK x : x = [req |-> c.req, digest |-> Digest(c, attempt[a].seen), kind |-> c.kind, result |-> result]
  OBVIOUS
<1>2. /\ x.req = c.req /\ x.kind = c.kind /\ x.result = result /\ MadeBy(c, x)
      /\ c.req \in RequestIds /\ c.kind \in Kinds
  BY <1>1, ReceiptsAssumption DEF Kinds
<1>3. /\ definitions' = [definitions EXCEPT ![t] = task]
      /\ receipts' = receipts \cup {x}
      /\ effects' = [effects EXCEPT ![c.req] = @ + 1]
      /\ Reply(a, "result", result)
  BY <1>1 DEF Apply, Save
<1>4. definitions'[t] = task /\ DOMAIN definitions' = TaskIds
      /\ \A u \in TaskIds : u # t => definitions'[u] = definitions[u]
  BY <1>3 DEF RInv, DefinitionsOK
<1>5. NoTask.rev = 0 /\ \A u \in TaskIds : definitions[u].rev \in Nat /\ definitions'[u].rev \in Nat
  BY <1>4 DEF RInv, DefinitionsOK, NoTask, IsTask
<1>6. DefinitionsOK'
  BY <1>4 DEF RInv, DefinitionsOK, IsTask
<1>7. ReceiptsOK'
  <2>1. x.req \in RequestIds /\ x.kind \in Kinds /\ \E d \in Commands : MadeBy(d, x)
    BY <1>2
  <2> QED
    BY <1>3, <2>1 DEF RInv, ReceiptsOK, MadeBy, IsTask
<1>8. \A u : Created(u) => Created(u)'
  BY <1>3 DEF Created
<1>9. \A u \in TaskIds : Stored(u)' /\ Stored(u) => definitions'[u].rev >= definitions[u].rev
  BY <1>4, <1>5 DEF Stored
<1>10. Created(t)'
  BY <1>2, <1>3, <1>5 DEF Created, IsTask, Kinds
<1>11. History'
  <2>1. ASSUME NEW u \in TaskIds, Stored(u)' PROVE Created(u)'
    BY <1>4, <1>8, <1>10, <2>1 DEF RInv, History, Stored
  <2>2. ASSUME NEW y \in receipts, y.kind # "delete"
        PROVE  Created(y.result.id)' /\ (Stored(y.result.id)' => definitions'[y.result.id].rev >= y.result.rev)
    <3>1. /\ Created(y.result.id) /\ y.result.id \in TaskIds /\ y.result.rev \in Nat
          /\ Stored(y.result.id) => definitions[y.result.id].rev >= y.result.rev
      BY <2>2 DEF RInv, History, ReceiptsOK, MadeBy, IsTask
    <3>2. Stored(y.result.id)' => Stored(y.result.id)
      BY <1>4, <3>1 DEF Stored
    <3> QED
      BY <1>5, <1>8, <1>9, <3>1, <3>2
  <2>3. x.kind # "delete" => x.result.id = t /\ definitions'[t].rev >= x.result.rev
    BY <1>2, <1>4, <1>5 DEF IsTask
  <2>4. \A y \in receipts' : y \in receipts \/ y = x
    BY <1>3
  <2> QED
    BY <1>10, <2>1, <2>2, <2>3, <2>4 DEF History
<1>12. Single'
  <2>1. Receipts(c.req) = {}
    BY DEF Unknown
  <2>2. effects[c.req] = 0 /\ DOMAIN effects = RequestIds
    BY <1>2, <2>1 DEF RInv, Single
  <2>3. Receipts(c.req)' = {x}
    BY <1>2, <1>3, <2>1 DEF Receipts
  <2>4. \A q \in RequestIds : q # c.req => Receipts(q)' = Receipts(q) /\ effects'[q] = effects[q]
    BY <1>2, <1>3, <2>2 DEF Receipts
  <2>5. effects'[c.req] = 1 /\ DOMAIN effects' = RequestIds /\ x \in receipts' /\ receipts \subseteq receipts'
    BY <1>2, <1>3, <2>2
  <2>6. ASSUME NEW q \in RequestIds
        PROVE  \/ effects'[q] = 0 /\ Receipts(q)' = {}
               \/ effects'[q] = 1 /\ \E y \in receipts' : Receipts(q)' = {y}
    <3>1. CASE q = c.req
      BY <2>3, <2>5, <3>1
    <3>2. CASE q # c.req
      BY <2>4, <2>5, <3>2 DEF RInv, Single
    <3> QED
      BY <3>1, <3>2
  <2> QED
    BY <2>5, <2>6 DEF Single
<1>13. \A d \in Commands : Observed(d) => Observed(d)'
  BY <1>3 DEF Observed
<1>14. ASSUME NEW d \in Commands, Observed(d), NEW seen, SeenOK(d, seen) PROVE SeenOK(d, seen)'
  <2>1. SUFFICES ASSUME d.kind \in {"update", "pause"}, Stored(d.task)'
                 PROVE  /\ definitions'[d.task].rev >= seen.rev
                        /\ definitions'[d.task].rev = seen.rev => definitions'[d.task] = seen
    BY <1>14 DEF SeenOK, IsTask
  <2>2. d.task \in TaskIds /\ Created(d.task)
    BY <1>14, <2>1, ObservedTells
  <2>3. Stored(d.task)
    BY <1>4, <2>1, <2>2 DEF Stored
  <2>4. /\ seen.rev \in Nat /\ definitions[d.task].rev >= seen.rev
        /\ definitions[d.task].rev = seen.rev => definitions[d.task] = seen
    BY <1>14, <2>1, <2>3 DEF SeenOK, IsTask
  <2>5. CASE d.task = t
    <3>1. task # NoTask
      BY <1>4, <1>5, <2>1, <2>5 DEF Stored
    <3> QED
      BY <1>4, <1>5, <2>2, <2>3, <2>4, <2>5, <3>1
  <2>6. CASE d.task # t
    BY <1>4, <2>2, <2>4, <2>6
  <2> QED
    BY <2>5, <2>6
<1>15. \A call : CallOK(call) => CallOK(call)'
  BY <1>13, <1>14 DEF CallOK
<1>16. \A call : TrueCall(call) => TrueCall(call)'
  BY <1>3 DEF TrueCall, ForCommand, Reused
<1>17. AttemptsOK'
  <2>1. DOMAIN attempt' = Attempts
        /\ attempt'[a] = [pc |-> "replied", command |-> c, outcome |-> "result", result |-> result]
        /\ \A n \in Attempts : n # a => attempt'[n] = attempt[n]
    BY <1>3 DEF Reply, Go, RInv, AttemptsOK
  <2>2. CallOK(attempt[a])' /\ TrueCall(attempt[a])'
    <3>1. Observed(c)'
      BY <1>13, AtCommit
    <3>2. TrueCall(attempt[a])'
      BY <1>2, <1>3, <2>1 DEF TrueCall, ForCommand
    <3> QED
      BY <2>1, <3>1, <3>2 DEF CallOK
  <2>3. ASSUME NEW n \in Attempts, n # a PROVE CallOK(attempt[n])' /\ TrueCall(attempt[n])'
    <3>1. PICK call : call = attempt[n]
      OBVIOUS
    <3>2. CallOK(call) /\ TrueCall(call)
      BY <3>1 DEF RInv, AttemptsOK
    <3>3. CallOK(call)' /\ TrueCall(call)' /\ call = attempt'[n]
      BY <1>15, <1>16, <2>1, <2>3, <3>1, <3>2
    <3> QED
      BY <3>3
  <2> QED
    BY <2>1, <2>2, <2>3 DEF AttemptsOK
<1> QED
  BY <1>6, <1>7, <1>11, <1>12, <1>17 DEF RInv

LEMMA CommitCreateStep ==
  ASSUME RInv, NEW a \in Attempts, CommitCreate(a)
  PROVE  RInv'
<1> DEFINE c == CommandOf(a)
           Task(t) == [id |-> t, name |-> c.name, input |-> c.input, paused |-> FALSE,
                       space |-> attempt[a].seen, rev |-> 1]
<1>1. attempt[a].pc = "commit" /\ c.kind = "create" /\ Unknown(c)
  BY DEF CommitCreate
<1>2. PICK t \in TaskIds : /\ ~Stored(t)
                           /\ \A x \in receipts : x.kind = "create" => x.result.id # t
                           /\ Apply(a, t, Task(t), Task(t))
  BY DEF CommitCreate
<1>3. PICK task : task = Task(t)
  OBVIOUS
<1>4. /\ task.id = t /\ task.name = c.name /\ task.input = c.input /\ task.rev = 1 /\ task.space = attempt[a].seen
      /\ IsTask(task)
  BY <1>3 DEF IsTask
<1>5. c \in Commands /\ SeenOK(c, attempt[a].seen)
  BY <1>1, AtCommit
<1>6. task # NoTask
  BY <1>4 DEF NoTask
<1>7. MadeBy(c, [req |-> c.req, digest |-> Digest(c, attempt[a].seen), kind |-> c.kind, result |-> task])
  BY <1>1, <1>4, <1>5 DEF MadeBy, Digest, CreateDigest, SeenOK
<1>8. ForCommand(c, task)
  BY <1>1, <1>4, <1>5 DEF ForCommand, SeenOK
<1>9. ~Created(t)
  BY <1>2 DEF Created
<1> HIDE DEF c, Task
<1>10. Apply(a, t, task, task)
  BY <1>2, <1>3
<1> QED
  BY <1>1, <1>2, <1>4, <1>5, <1>6, <1>7, <1>8, <1>9, <1>10, EffectStep DEF c

\* A change that passes the comparison of revisions is built on the stored task.
LEMMA ChangeDoes ==
  ASSUME RInv, NEW a \in Attempts, CommitChange(a)
  PROVE  /\ attempt[a].pc = "commit" /\ Unknown(CommandOf(a)) /\ CommandOf(a) \in Commands
         /\ CommandOf(a).kind \in {"update", "pause"}
         /\ CommandOf(a).task \in TaskIds /\ Stored(CommandOf(a).task) /\ Created(CommandOf(a).task)
         /\ attempt[a].seen = definitions[CommandOf(a).task] /\ IsTask(attempt[a].seen)
         /\ attempt[a].seen.rev = CommandOf(a).rev /\ attempt[a].seen.id = CommandOf(a).task
<1> DEFINE c == CommandOf(a)
<1>1. attempt[a].pc = "commit" /\ c.kind \in {"update", "pause"} /\ Unknown(c) /\ Stored(c.task) /\ definitions[c.task].rev = c.rev
  BY DEF CommitChange, CurrentRevision
<1>2. c \in Commands /\ Observed(c) /\ SeenOK(c, attempt[a].seen)
  BY <1>1, AtCommit
<1>3. c.task \in TaskIds /\ Created(c.task) /\ c.rev \in Nat
  BY <1>1, <1>2, ObservedTells
<1>4. attempt[a].seen.rev = c.rev
  BY <1>1, <1>2, <1>3 DEF SeenOK, IsTask
<1> QED
  BY <1>1, <1>2, <1>3, <1>4 DEF SeenOK

LEMMA ChangedTask ==
  ASSUME NEW c, NEW base, IsTask(base), c.kind \in {"update", "pause"}, c.rev = base.rev
  PROVE  /\ IsTask(Changed(c, base)) /\ Changed(c, base).id = base.id /\ Changed(c, base).rev = c.rev + 1
         /\ c.kind = "pause" => Changed(c, base).paused /\ Changed(c, base).name = base.name
         /\ c.kind = "update" =>
              /\ Changed(c, base).name = IF c.name = Keep THEN base.name ELSE c.name
              /\ Changed(c, base).input = IF c.input = Keep THEN base.input ELSE c.input
              /\ Changed(c, base).paused = base.paused
<1>1. /\ base = [id |-> base.id, name |-> base.name, input |-> base.input, paused |-> base.paused,
                 space |-> base.space, rev |-> base.rev]
      /\ base.id \in TaskIds /\ base.rev \in Nat
  BY DEF IsTask
<1>2. CASE c.kind = "pause"
  <2>1. Changed(c, base) = [id |-> base.id, name |-> base.name, input |-> base.input, paused |-> TRUE,
                            space |-> base.space, rev |-> c.rev + 1]
    BY <1>1, <1>2 DEF Changed
  <2> QED
    BY <1>1, <1>2, <2>1 DEF IsTask
<1>3. CASE c.kind = "update"
  <2>1. Changed(c, base) = [id |-> base.id, name |-> IF c.name = Keep THEN base.name ELSE c.name,
                            input |-> IF c.input = Keep THEN base.input ELSE c.input, paused |-> base.paused,
                            space |-> base.space, rev |-> c.rev + 1]
    BY <1>1, <1>3 DEF Changed
  <2> QED
    BY <1>1, <1>3, <2>1 DEF IsTask
<1> QED
  BY <1>2, <1>3

LEMMA CommitChangeStep ==
  ASSUME RInv, NEW a \in Attempts, CommitChange(a)
  PROVE  RInv'
<1>1. PICK c, seen, task : c = CommandOf(a) /\ seen = attempt[a].seen /\ task = Changed(c, seen)
  OBVIOUS
<1>2. /\ attempt[a].pc = "commit" /\ Unknown(c) /\ c \in Commands /\ c.kind \in {"update", "pause"}
      /\ c.task \in TaskIds /\ Stored(c.task) /\ Created(c.task)
      /\ seen = definitions[c.task] /\ IsTask(seen) /\ seen.rev = c.rev /\ seen.id = c.task
  BY <1>1, ChangeDoes
<1>3. Apply(a, c.task, task, task)
  BY <1>1 DEF CommitChange
<1>4. /\ IsTask(task) /\ task.id = c.task /\ task.rev = c.rev + 1
      /\ c.kind = "pause" => task.paused
      /\ c.kind = "update" =>
           /\ task.name = IF c.name = Keep THEN seen.name ELSE c.name
           /\ task.input = IF c.input = Keep THEN seen.input ELSE c.input
  BY <1>1, <1>2, ChangedTask
<1>5. c.rev \in Nat
  BY <1>2 DEF IsTask
<1>6. task # NoTask /\ task.rev > definitions[c.task].rev
  BY <1>2, <1>4, <1>5 DEF NoTask
<1>7. MadeBy(c, [req |-> c.req, digest |-> Digest(c, seen), kind |-> c.kind, result |-> task])
  BY <1>2, <1>4, <1>5 DEF MadeBy, Digest, UpdateDigest
<1>8. ForCommand(c, task)
  BY <1>2, <1>4 DEF ForCommand
<1> QED
  BY <1>1, <1>2, <1>3, <1>4, <1>6, <1>7, <1>8, EffectStep

LEMMA CommitDeleteStep ==
  ASSUME RInv, NEW a \in Attempts, CommitDelete(a)
  PROVE  RInv'
<1>1. PICK c, result : c = CommandOf(a) /\ result = [id |-> c.task]
  OBVIOUS
<1>2. attempt[a].pc = "commit" /\ c.kind = "delete" /\ Unknown(c) /\ Stored(c.task) /\ Apply(a, c.task, NoTask, result)
  BY <1>1 DEF CommitDelete
<1>3. c \in Commands /\ Observed(c)
  BY <1>1, <1>2, AtCommit
<1>4. c.task \in TaskIds /\ Created(c.task) /\ c.rev \in Nat
  BY <1>2, <1>3, ObservedTells
<1>5. result.id = c.task
  BY <1>1
<1>6. MadeBy(c, [req |-> c.req, digest |-> Digest(c, attempt[a].seen), kind |-> c.kind, result |-> result])
  BY <1>2, <1>4, <1>5 DEF MadeBy, Digest
<1>7. ForCommand(c, result)
  BY <1>2, <1>5 DEF ForCommand
<1> QED
  BY <1>1, <1>2, <1>3, <1>4, <1>6, <1>7, EffectStep

-----------------------------------------------------------------------------
(* The specification.                                                       *)

LEMMA ReceiptsStart == ReceiptsInit => RInv
<1> SUFFICES ASSUME ReceiptsInit PROVE RInv
  OBVIOUS
<1>1. NoTask.rev = 0
  BY DEF NoTask
<1>2. DefinitionsOK /\ ReceiptsOK /\ History
  BY <1>1 DEF ReceiptsInit, DefinitionsOK, ReceiptsOK, History, Stored
<1>3. Single
  BY DEF ReceiptsInit, Single, Receipts
<1>4. AttemptsOK
  BY IdleCall DEF ReceiptsInit, AttemptsOK
<1> QED
  BY <1>2, <1>3, <1>4 DEF RInv

\* A step that changes no attempt, definition or receipt.
LEMMA StandingStep ==
  ASSUME RInv, UNCHANGED <<definitions, receipts, attempt, effects>>
  PROVE  RInv'
<1>1. DefinitionsOK' /\ ReceiptsOK' /\ History' /\ Single'
  BY DEF RInv, DefinitionsOK, ReceiptsOK, IsTask, MadeBy, History, Stored, Created, Single, Receipts
<1>2. AttemptsOK'
  BY DEF RInv, AttemptsOK, CallOK, TrueCall, SeenOK, Observed, Stored, IsTask, ForCommand, Reused
<1> QED
  BY <1>1, <1>2 DEF RInv

LEMMA ReceiptsStep == RInv /\ [ReceiptsNext]_receiptsVars => RInv'
<1> SUFFICES ASSUME RInv, [ReceiptsNext]_receiptsVars PROVE RInv'
  OBVIOUS
<1>1. ASSUME NEW a \in Attempts, NEW c \in Commands, Submit(a, c) PROVE RInv'
  BY <1>1, SubmitStep
<1>2. ASSUME NEW a \in Attempts,
             \/ ReadReceipt(a) \/ ReadBase(a) \/ ReadWinner(a) \/ CommitKnown(a) \/ CommitCreate(a)
             \/ CommitChange(a) \/ CommitDelete(a) \/ CommitRefused(a) \/ Lost(a)
      PROVE  RInv'
  BY <1>2, ReadReceiptStep, ReadBaseStep, ReadWinnerStep, CommitKnownStep, CommitCreateStep, CommitChangeStep,
     CommitDeleteStep, CommitRefusedStep, LostStep
<1>3. ASSUME NEW s \in Spaces, Reconfigure(s) PROVE RInv'
  BY <1>3, StandingStep DEF Reconfigure
<1>4. CASE UNCHANGED receiptsVars
  BY <1>4, StandingStep DEF receiptsVars
<1> QED
  BY <1>1, <1>2, <1>3, <1>4 DEF ReceiptsNext

\* A step that changes a stored task and keeps it is one accepted change of that revision.
LEMMA ChangesInTurn ==
  ASSUME RInv, [ReceiptsNext]_receiptsVars, NEW t \in TaskIds, Stored(t),
         definitions'[t] # definitions[t], definitions'[t].rev > 0
  PROVE  /\ definitions'[t].rev = definitions[t].rev + 1
         /\ definitions[t].paused => definitions'[t].paused
         /\ definitions'[t].name # definitions[t].name =>
              \E c \in Commands : c.kind = "update" /\ c.task = t /\ c.rev = definitions[t].rev
                                  /\ c.name = definitions'[t].name
<1>1. PICK a \in Attempts : CommitCreate(a) \/ CommitChange(a) \/ CommitDelete(a)
  BY DEF ReceiptsNext, receiptsVars, Submit, ReadReceipt, ReadBase, ReadWinner, CommitKnown, CommitRefused, Lost,
         Reconfigure
<1>2. DOMAIN definitions = TaskIds
  BY DEF RInv, DefinitionsOK
<1>3. ~CommitCreate(a)
  BY <1>2 DEF CommitCreate, Apply
<1>4. ~CommitDelete(a)
  BY <1>2 DEF CommitDelete, Apply, NoTask
<1>5. CommitChange(a)
  BY <1>1, <1>3, <1>4
<1>6. PICK c, seen, task : c = CommandOf(a) /\ seen = attempt[a].seen /\ task = Changed(c, seen)
  OBVIOUS
<1>7. /\ c \in Commands /\ c.kind \in {"update", "pause"} /\ c.task \in TaskIds
      /\ seen = definitions[c.task] /\ IsTask(seen) /\ seen.rev = c.rev
  BY <1>5, <1>6, ChangeDoes
<1>8. definitions' = [definitions EXCEPT ![c.task] = task]
  BY <1>5, <1>6 DEF CommitChange, Apply
<1>9. c.task = t /\ definitions'[t] = task
  BY <1>2, <1>7, <1>8
<1>10. /\ task.rev = c.rev + 1
       /\ c.kind = "pause" => task.paused /\ task.name = seen.name
       /\ c.kind = "update" =>
            /\ task.name = IF c.name = Keep THEN seen.name ELSE c.name
            /\ task.paused = seen.paused
  BY <1>6, <1>7, ChangedTask
<1>11. seen.paused => task.paused
  BY <1>7, <1>10
<1>12. task.name # seen.name => c.kind = "update" /\ c.name = task.name
  BY <1>7, <1>10
<1> QED
  BY <1>7, <1>9, <1>10, <1>11, <1>12

\* The inductive invariant: receipts that tell the command and its result, definitions never
\* older than a receipt, and attempts that have seen the stored task or an older one.
THEOREM ReceiptsInductive == ReceiptsSpec => []RInv
<1> QED
  BY ReceiptsStart, ReceiptsStep, PTL DEF ReceiptsSpec

\* However often and concurrently a command is sent it has one effect, every answer is that
\* of its receipt and carries what was asked, the command that had the effect is never
\* refused as another use of its request ID, and no accepted change is overwritten.
THEOREM RepeatedCommands == ReceiptsSpec => CommandsTakeEffectOnce
<1>1. ASSUME RInv PROVE OneEffect /\ SameAnswer /\ NoFalseConflict /\ AnswerIsForCommand
  <2>1. OneEffect
    <3>1. ASSUME NEW q \in RequestIds PROVE effects[q] <= 1 /\ Cardinality(Receipts(q)) = effects[q]
      <4>1. CASE effects[q] = 0 /\ Receipts(q) = {}
        BY <4>1, FS_EmptySet
      <4>2. CASE effects[q] = 1 /\ \E x \in receipts : Receipts(q) = {x}
        BY <4>2, FS_Singleton
      <4> QED
        BY <1>1, <4>1, <4>2 DEF RInv, Single
    <3> QED
      BY <3>1 DEF OneEffect
  <2>2. \A a \in Attempts : TrueCall(attempt[a])
    BY <1>1 DEF RInv, AttemptsOK
  <2>3. SameAnswer /\ NoFalseConflict
    BY <2>2 DEF SameAnswer, NoFalseConflict, Answered, TrueCall, Reused, CommandOf, Receipts
  <2>4. AnswerIsForCommand
    <3>1. \A a \in Attempts : Answered(a, "result") =>
            CommandOf(a).kind \in Kinds /\ ForCommand(CommandOf(a), attempt[a].result)
      BY <1>1, <2>2, IdleCall, ReceiptsAssumption
         DEF Answered, TrueCall, CommandOf, RInv, AttemptsOK, CallOK, Kinds
    <3> QED
      BY <3>1 DEF AnswerIsForCommand, ForCommand, Kinds
  <2> QED
    BY <2>1, <2>3, <2>4
<1>2. ASSUME RInv, [ReceiptsNext]_receiptsVars
      PROVE  [\A t \in TaskIds : Stored(t) /\ definitions'[t] # definitions[t] /\ definitions'[t].rev > 0 =>
               /\ definitions'[t].rev = definitions[t].rev + 1
               /\ definitions[t].paused => definitions'[t].paused
               /\ definitions'[t].name # definitions[t].name =>
                    \E c \in Commands : c.kind = "update" /\ c.task = t /\ c.rev = definitions[t].rev
                                        /\ c.name = definitions'[t].name]_receiptsVars
  BY <1>2, ChangesInTurn
<1> QED
  BY <1>1, <1>2, ReceiptsInductive, PTL DEF ReceiptsSpec, CommandsTakeEffectOnce, NoLostUpdate
=============================================================================
