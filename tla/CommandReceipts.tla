--------------------------- MODULE CommandReceipts ---------------------------
(***************************************************************************)
(* Repeated commands of the Automation Service.  A command carries a       *)
(* request ID; the Store keeps, with the effect, a receipt of its input    *)
(* and result.  The Service reads receipts and definitions before it commits, so *)
(* attempts at one command, and at others, interleave between these steps. *)
(*                                                                         *)
(* Modelled from service.py (create_task, update_task, pause_task,         *)
(* delete_task) and memory.py (the commits under the Store's lock).        *)
(* Digests are the tuples that are digested.                               *)
(***************************************************************************)
EXTENDS Naturals, FiniteSets

CONSTANTS
  Commands,      \* commands that callers send, each any number of times
  RequestIds,
  Attempts,      \* calls of the Service
  Spaces,        \* execution namespaces
  MaxTasks,      \* limits.max_tasks, and bound on created definitions
  MaxOperations  \* limits.max_operations

Keep == "keep"     \* an update leaves the field alone
Lazy == "lazy"     \* the space is chosen by the target's policy
NoTask == [rev |-> 0]

ASSUME ReceiptsAssumption ==
  /\ MaxTasks \in Nat
  /\ MaxOperations \in Nat
  /\ \A c \in Commands : c.kind \in {"create", "update", "pause", "delete"} /\ c.req \in RequestIds

VARIABLES
  definitions, \* task ID -> stored task
  receipts,    \* committed receipts: [req, digest, kind, result]
  policy,      \* the space the target's policy selects now
  attempt,     \* attempt -> progress of its call
  effects      \* request ID -> effects it has had (history)

receiptsVars == <<definitions, receipts, policy, attempt, effects>>

TaskIds == 1..MaxTasks
NoCall == [pc |-> "idle"]

ReceiptsInit ==
  /\ definitions = [t \in TaskIds |-> NoTask]
  /\ receipts = {}
  /\ policy \in Spaces
  /\ attempt = [a \in Attempts |-> NoCall]
  /\ effects = [q \in RequestIds |-> 0]

Receipts(q) == {x \in receipts : x.req = q}
Stored(t) == definitions[t].rev > 0
CommandOf(a) == attempt[a].command
Go(a, call) == attempt' = [attempt EXCEPT ![a] = call]
Reply(a, outcome, result) ==
  Go(a, [pc |-> "replied", command |-> CommandOf(a), outcome |-> outcome, result |-> result])
Refuse(a, outcome) == Reply(a, outcome, NoTask)

-----------------------------------------------------------------------------
(* The input that a command is bound to.                                    *)

Space(c, chosen) == IF c.space = Lazy THEN chosen ELSE c.space

\* Fields that the caller left alone are bound to those of the base.
UpdateDigest(c, base) ==
  <<"update", c.task, c.rev, IF c.name = Keep THEN base.name ELSE c.name,
    IF c.input = Keep THEN base.input ELSE c.input>>

CreateDigest(c, space) == <<"create", c.name, c.input, space>>

\* The digest of a first attempt, from the task or the space it has seen.
Digest(c, seen) ==
  CASE c.kind = "create" -> CreateDigest(c, seen)
    [] c.kind = "update" -> UpdateDigest(c, seen)
    [] OTHER -> <<c.kind, c.task, c.rev>>

\* The digest of a repetition, from the saved result alone.
ReplayDigest(c, saved) ==
  IF c.kind = "create" THEN CreateDigest(c, Space(c, saved.space)) ELSE UpdateDigest(c, saved)

\* _receipt_result: the saved result of the same command, or a conflict.
Replay(a, x) ==
  IF x.kind # "delete" /\ x.digest = ReplayDigest(CommandOf(a), x.result)
  THEN Reply(a, "result", x.result)
  ELSE Refuse(a, "conflict")

-----------------------------------------------------------------------------
(* The Service.                                                             *)

\* A caller sends the revision that it has observed.
Observed(c) ==
  c.kind # "create" =>
    \E x \in receipts : x.kind # "delete" /\ x.result.id = c.task /\ x.result.rev = c.rev

Submit(a, c) ==
  /\ attempt[a].pc = "idle"
  /\ Observed(c)
  /\ Go(a, [pc |-> IF c.kind \in {"create", "update"} THEN "receipt" ELSE "read", command |-> c])
  /\ UNCHANGED <<definitions, receipts, policy, effects>>

\* A known request is answered from its receipt, whatever became of its task.
ReadReceipt(a) ==
  /\ attempt[a].pc = "receipt"
  /\ LET known == Receipts(CommandOf(a).req)
     IN IF known = {} THEN Go(a, [attempt[a] EXCEPT !.pc = "read"])
        ELSE \E x \in known : Replay(a, x)
  /\ UNCHANGED <<definitions, receipts, policy, effects>>

\* What the commit will build on: the policy's space, or the current task.
ReadBase(a) ==
  LET c == CommandOf(a)
  IN /\ attempt[a].pc = "read"
     /\ CASE c.kind = "create" -> Go(a, [pc |-> "commit", command |-> c, seen |-> Space(c, policy)])
          [] c.kind = "delete" -> Go(a, [pc |-> "commit", command |-> c, seen |-> NoTask])
          [] OTHER -> IF Stored(c.task)
                      THEN Go(a, [pc |-> "commit", command |-> c, seen |-> definitions[c.task]])
                      ELSE Refuse(a, "missing")
     /\ UNCHANGED <<definitions, receipts, policy, effects>>

\* After a conflict at the commit: the winner's receipt settles the intent.
ReadWinner(a) ==
  /\ attempt[a].pc = "settle"
  /\ \E x \in Receipts(CommandOf(a).req) : Replay(a, x)
  /\ UNCHANGED <<definitions, receipts, policy, effects>>

-----------------------------------------------------------------------------
(* The Store: one commit under its lock.                                    *)

\* The Store's answer to a request it knows.
CommitKnown(a) ==
  LET c == CommandOf(a)
  IN /\ attempt[a].pc = "commit"
     /\ \E x \in Receipts(c.req) :
          IF x.digest = Digest(c, attempt[a].seen) THEN Reply(a, "result", x.result)
          ELSE IF c.kind \in {"create", "update"} THEN Go(a, [attempt[a] EXCEPT !.pc = "settle"])
          ELSE Refuse(a, "conflict")
     /\ UNCHANGED <<definitions, receipts, policy, effects>>

\* Faulty variant: a full receipt table does not stop the effect.
SaveIfRoom(c, seen, result) ==
  receipts' = IF Cardinality(receipts) < MaxOperations
              THEN receipts \cup {[req |-> c.req, digest |-> Digest(c, seen),
                                   kind |-> c.kind, result |-> result]}
              ELSE receipts

\* The receipt is committed with the effect, or neither is.
Save(c, seen, result) ==
  /\ Cardinality(receipts) < MaxOperations
  /\ receipts' = receipts \cup {[req |-> c.req, digest |-> Digest(c, seen),
                                 kind |-> c.kind, result |-> result]}

Unknown(c) == Receipts(c.req) = {}

Apply(a, t, task, result) ==
  LET c == CommandOf(a)
  IN /\ definitions' = [definitions EXCEPT ![t] = task]
     /\ Save(c, attempt[a].seen, result)
     /\ effects' = [effects EXCEPT ![c.req] = @ + 1]
     /\ Reply(a, "result", result)
     /\ UNCHANGED policy

CommitCreate(a) ==
  LET c == CommandOf(a)
  IN /\ attempt[a].pc = "commit"
     /\ c.kind = "create"
     /\ Unknown(c)
     /\ \E t \in TaskIds :
          /\ ~Stored(t)
          /\ \A x \in receipts : x.kind = "create" => x.result.id # t
          /\ LET task == [id |-> t, name |-> c.name, input |-> c.input, paused |-> FALSE,
                          space |-> attempt[a].seen, rev |-> 1]
             IN Apply(a, t, task, task)

Changed(c, base) ==
  IF c.kind = "pause" THEN [base EXCEPT !.paused = TRUE, !.rev = c.rev + 1]
  ELSE [base EXCEPT !.name = IF c.name = Keep THEN @ ELSE c.name,
                    !.input = IF c.input = Keep THEN @ ELSE c.input, !.rev = c.rev + 1]

\* The revision is compared with the stored task, inside the commit.
CurrentRevision(a) == definitions[CommandOf(a).task].rev = CommandOf(a).rev

CommitChange(a) ==
  LET c == CommandOf(a)
  IN /\ attempt[a].pc = "commit"
     /\ c.kind \in {"update", "pause"}
     /\ Unknown(c)
     /\ Stored(c.task)
     /\ CurrentRevision(a)
     /\ Apply(a, c.task, Changed(c, attempt[a].seen), Changed(c, attempt[a].seen))

CommitDelete(a) ==
  LET c == CommandOf(a)
  IN /\ attempt[a].pc = "commit"
     /\ c.kind = "delete"
     /\ Unknown(c)
     /\ Stored(c.task)
     /\ CurrentRevision(a)
     /\ Apply(a, c.task, NoTask, [id |-> c.task])

\* Nothing changes: the task is gone or changed, or there is no room.
CommitRefused(a) ==
  LET c == CommandOf(a)
  IN /\ attempt[a].pc = "commit"
     /\ Unknown(c)
     /\ \/ c.kind # "create" /\ ~Stored(c.task) /\ Refuse(a, "missing")
        \/ c.kind # "create" /\ Stored(c.task) /\ ~CurrentRevision(a) /\ Refuse(a, "stale")
        \/ c.kind = "create" /\ (\A t \in TaskIds : Stored(t)) /\ Refuse(a, "full")
        \/ Cardinality(receipts) >= MaxOperations /\ Refuse(a, "full")
     /\ UNCHANGED <<definitions, receipts, policy, effects>>

\* The caller is gone, or its answer was lost; it may send the command again.
Lost(a) ==
  /\ attempt[a].pc # "idle"
  /\ Go(a, NoCall)
  /\ UNCHANGED <<definitions, receipts, policy, effects>>

Reconfigure(s) ==
  /\ s # policy
  /\ policy' = s
  /\ UNCHANGED <<definitions, receipts, attempt, effects>>

ReceiptsNext ==
  \/ \E a \in Attempts :
       \/ \E c \in Commands : Submit(a, c)
       \/ ReadReceipt(a)
       \/ ReadBase(a)
       \/ ReadWinner(a)
       \/ CommitKnown(a)
       \/ CommitCreate(a)
       \/ CommitChange(a)
       \/ CommitDelete(a)
       \/ CommitRefused(a)
       \/ Lost(a)
  \/ \E s \in Spaces : Reconfigure(s)

ReceiptsSpec == ReceiptsInit /\ [][ReceiptsNext]_receiptsVars

-----------------------------------------------------------------------------
(* Properties.                                                              *)

Answered(a, outcome) == attempt[a].pc = "replied" /\ attempt[a].outcome = outcome

\* A request has at most one effect, however often and concurrently it is sent, and a
\* receipt exists exactly for the requests that had one.
OneEffect ==
  \A q \in RequestIds :
    /\ effects[q] <= 1
    /\ Cardinality(Receipts(q)) = effects[q]

\* All attempts at one command that are answered with a result are answered with the
\* same one: that of the receipt, even when the task has changed since.
SameAnswer ==
  \A a \in Attempts : Answered(a, "result") =>
    \E x \in Receipts(CommandOf(a).req) : x.result = attempt[a].result

\* The command that had the effect is never refused as another use of its request ID,
\* although fields it left alone, and the policy it relied on, may have changed.
NoFalseConflict ==
  \A a \in Attempts : Answered(a, "conflict") =>
    \E c \in Commands \ {CommandOf(a)} : c.req = CommandOf(a).req

\* A result never answers a different command that happens to reuse its request ID:
\* the answer carries what the caller asked for.
AnswerIsForCommand ==
  \A a \in Attempts : Answered(a, "result") =>
    LET c == CommandOf(a) got == attempt[a].result
    IN CASE c.kind = "create" -> /\ got.rev = 1 /\ got.name = c.name /\ got.input = c.input
                                 /\ c.space # Lazy => got.space = c.space
         [] c.kind = "update" -> /\ got.id = c.task /\ got.rev = c.rev + 1
                                 /\ c.name # Keep => got.name = c.name
                                 /\ c.input # Keep => got.input = c.input
         [] c.kind = "pause" -> got.id = c.task /\ got.rev = c.rev + 1 /\ got.paused
         [] OTHER -> got.id = c.task

\* Accepted changes of a task are applied one after the other: none is overwritten by a
\* commit that was prepared from an older task.
NoLostUpdate ==
  [][\A t \in TaskIds : Stored(t) /\ definitions'[t] # definitions[t] /\ definitions'[t].rev > 0 =>
       /\ definitions'[t].rev = definitions[t].rev + 1
       /\ definitions[t].paused => definitions'[t].paused
       /\ definitions'[t].name # definitions[t].name =>
            \E c \in Commands : c.kind = "update" /\ c.task = t /\ c.rev = definitions[t].rev
                                /\ c.name = definitions'[t].name]_receiptsVars
\* Commands are carried out once and answered truly, however often and concurrently they
\* are sent: OneEffect, SameAnswer, NoFalseConflict, AnswerIsForCommand and NoLostUpdate.
CommandsTakeEffectOnce ==
  [](OneEffect /\ SameAnswer /\ NoFalseConflict /\ AnswerIsForCommand) /\ NoLostUpdate
=============================================================================
