----------------------------- MODULE RedisLease -----------------------------
(***************************************************************************)
(* RedisLeaseLock (redis/_lease_lock.py) for one resource key: the three   *)
(* scripts as atomic steps of Redis, the scopes of hold() that acquire,    *)
(* renew and release, the network between them and the manager's           *)
(* lifecycle.  Time passes in ticks; every timer is a distance, so that    *)
(* the clock itself is no state.                                           *)
(***************************************************************************)
EXTENDS Integers, FiniteSets

CONSTANTS
  Scopes,        \* calls of hold(), each with an owner token of its own
  Managers,      \* RedisLeaseLock objects, in one process each
  ManagerOf,     \* scope -> its manager
  Ttl,           \* lease_ttl_seconds
  RenewInterval, \* renew_interval_seconds
  Deadline,      \* lease_ttl_seconds * _RENEW_COMMAND_DEADLINE_RATIO
  MaxReplyDelay  \* longest way of a reply from Redis to the event loop

ASSUME RedisLeaseAssumption ==
  /\ ManagerOf \in [Scopes -> Managers]
  /\ Ttl \in Nat /\ RenewInterval \in Nat \ {0} /\ Deadline \in Nat /\ MaxReplyDelay \in Nat
  /\ 2 * RenewInterval < Ttl
  /\ RenewInterval < Deadline /\ Deadline < Ttl

None == "none"

ASSUME NoneAssumption == None \notin Scopes

VARIABLES
  owner,     \* the scope whose token the lease key holds, or None
  ttl,       \* time until the key expires
  fencing,   \* value of the fencing key
  told,      \* scope -> fencing token it acquired in Redis, 0 before
  pc,        \* scope -> progress of hold()
  since,     \* scope -> time since last_success of its renewal task
  call,      \* scope -> the command it waits for
  stray,     \* commands that nobody waits for any more
  manager    \* manager -> state

vars == <<owner, ttl, fencing, told, pc, since, call, stray, manager>>

Kinds == {"acquire", "renew", "release"}
NoCall == [kind |-> None, at |-> None, value |-> 0, late |-> 0]
Sent(kind) == [kind |-> kind, at |-> "sent", value |-> 0, late |-> 0]

Init ==
  /\ owner = None
  /\ ttl = 0
  /\ fencing = 0
  /\ told = [s \in Scopes |-> 0]
  /\ pc = [s \in Scopes |-> "idle"]
  /\ since = [s \in Scopes |-> 0]
  /\ call = [s \in Scopes |-> NoCall]
  /\ stray = {}
  /\ manager = [m \in Managers |-> "new"]

Registered(m) == {s \in Scopes : ManagerOf[s] = m /\ pc[s] \notin {"idle", "done", "dead"}}
IsOpen(s) == manager[ManagerOf[s]] = "open"
Go(s, to) == pc' = [pc EXCEPT ![s] = to]
Send(s, kind) == call' = [call EXCEPT ![s] = Sent(kind)]
Hang(s) == call' = [call EXCEPT ![s] = NoCall]

UnchangedRedis == UNCHANGED <<owner, ttl, fencing, told>>
UnchangedScopes == UNCHANGED <<pc, since>>

-----------------------------------------------------------------------------
(* Redis: the scripts, each atomic.                                         *)

\* Faulty variant: the key is written without an expiry.
AcquireScriptForever(s) ==
  IF owner # None THEN UnchangedRedis
  ELSE /\ owner' = s
       /\ ttl' = -1
       /\ fencing' = fencing + 1
       /\ told' = [told EXCEPT ![s] = fencing + 1]

\* Faulty variant: the fencing token is not advanced by a second acquisition.
AcquireScriptUnfenced(s) ==
  IF owner # None THEN UnchangedRedis
  ELSE /\ owner' = s
       /\ ttl' = Ttl
       /\ fencing' = 1
       /\ told' = [told EXCEPT ![s] = 1]

AcquireScript(s) ==
  IF owner # None THEN UnchangedRedis
  ELSE /\ owner' = s
       /\ ttl' = Ttl
       /\ fencing' = fencing + 1
       /\ told' = [told EXCEPT ![s] = fencing + 1]

RenewScript(s) ==
  /\ ttl' = IF owner = s THEN Ttl ELSE ttl
  /\ UNCHANGED <<owner, fencing, told>>

ReleaseScript(s) ==
  /\ owner' = IF owner = s THEN None ELSE owner
  /\ ttl' = IF owner = s THEN 0 ELSE ttl
  /\ UNCHANGED <<fencing, told>>

Script(s, kind) ==
  \/ kind = "acquire" /\ AcquireScript(s)
  \/ kind = "renew" /\ RenewScript(s)
  \/ kind = "release" /\ ReleaseScript(s)

\* The integer that the script returns.
Returned(s, kind) ==
  IF kind = "acquire" THEN IF owner = None THEN fencing + 1 ELSE 0
  ELSE IF owner = s THEN 1 ELSE 0

Execute(s) ==
  /\ call[s].at = "sent"
  /\ Script(s, call[s].kind)
  /\ call' = [call EXCEPT ![s].at = "answered", ![s].value = Returned(s, call[s].kind)]
  /\ UnchangedScopes
  /\ UNCHANGED <<stray, manager>>

\* A command whose caller gave up still arrives, or never does.
ExecuteStray(c) ==
  /\ c \in stray
  /\ Script(c.scope, c.kind)
  /\ stray' = stray \ {c}
  /\ UnchangedScopes
  /\ UNCHANGED <<call, manager>>

LoseStray(c) ==
  /\ c \in stray
  /\ stray' = stray \ {c}
  /\ UnchangedRedis
  /\ UnchangedScopes
  /\ UNCHANGED <<call, manager>>

-----------------------------------------------------------------------------
(* hold(): acquisition.                                                     *)

\* _register_scope and the first attempt of _acquire.
Hold(s) ==
  /\ pc[s] = "idle"
  /\ IsOpen(s)
  /\ Go(s, "acquiring")
  /\ Send(s, "acquire")
  /\ UnchangedRedis
  /\ UNCHANGED <<since, stray, manager>>

\* The next attempt after wait_poll_seconds, unless the manager is closing.
Poll(s) ==
  /\ pc[s] = "waiting"
  /\ IF IsOpen(s) THEN Go(s, "acquiring") /\ Send(s, "acquire")
     ELSE Go(s, "done") /\ UNCHANGED call
  /\ UnchangedRedis
  /\ UNCHANGED <<since, stray, manager>>

Reply(s, kind) == call[s].at = "answered" /\ call[s].kind = kind

Refused(s) ==
  /\ Reply(s, "acquire")
  /\ call[s].value = 0
  /\ Go(s, "waiting")
  /\ Hang(s)
  /\ UnchangedRedis
  /\ UNCHANGED <<since, stray, manager>>

\* The token arrived: the body starts, with a renewal task whose last_success is now.
Acquired(s) ==
  /\ Reply(s, "acquire")
  /\ call[s].value > 0
  /\ IF IsOpen(s)
     THEN /\ Go(s, "held")
          /\ Hang(s)
     ELSE /\ Go(s, "releasing")
          /\ Send(s, "release")
  /\ since' = [since EXCEPT ![s] = 0]
  /\ UnchangedRedis
  /\ UNCHANGED <<stray, manager>>

\* Nobody waits for the command any more; it may be on its way.
Abandon(s) ==
  \/ UNCHANGED stray
  \/ /\ call[s].at = "sent"
     /\ stray' = stray \cup {[scope |-> s, kind |-> call[s].kind]}

\* An acquisition without an answer (timeout, connection error, cancellation):
\* _release_uncertain_acquisition gives back what may have been acquired.
AcquireFails(s) ==
  /\ pc[s] = "acquiring"
  /\ call[s].kind = "acquire"
  /\ Go(s, "undoing")
  /\ Send(s, "release")
  /\ Abandon(s)
  /\ UnchangedRedis
  /\ UNCHANGED <<since, manager>>

\* The waiting caller is cancelled between two attempts.
CancelWaiting(s) ==
  /\ pc[s] = "waiting"
  /\ Go(s, "done")
  /\ UnchangedRedis
  /\ UNCHANGED <<since, call, stray, manager>>

-----------------------------------------------------------------------------
(* hold(): the renewal task.                                                *)

Holding(s) == pc[s] = "held"

\* Faulty variant: the lease is given up when its time to live has passed.
DeadlinePassedLate(s) == since[s] >= Ttl

\* The safety deadline, from the arrival of the last reply.
DeadlinePassed(s) == since[s] >= Deadline

RenewalDue(s) == Holding(s) /\ call[s] = NoCall /\ since[s] >= RenewInterval
SendRenewal(s) ==
  /\ RenewalDue(s)
  /\ ~DeadlinePassed(s)
  /\ Send(s, "renew")
  /\ UnchangedRedis
  /\ UnchangedScopes
  /\ UNCHANGED <<stray, manager>>

Renewed(s) ==
  /\ Holding(s)
  /\ Reply(s, "renew")
  /\ call[s].value = 1
  /\ ~DeadlinePassed(s)
  /\ since' = [since EXCEPT ![s] = 0]
  /\ Hang(s)
  /\ UnchangedRedis
  /\ UNCHANGED <<pc, stray, manager>>

\* _mark_lost: Redis does not confirm the owner, an error, or the safety deadline.
MarkLost(s) ==
  /\ Holding(s)
  /\ \/ call[s].kind = "renew"
     \/ DeadlinePassed(s)
  /\ Go(s, "lost")
  /\ since' = [since EXCEPT ![s] = 0]
  /\ Abandon(s)
  /\ Hang(s)
  /\ UnchangedRedis
  /\ UNCHANGED manager

-----------------------------------------------------------------------------
(* hold(): the end of the scope.                                            *)

\* The body ends, or its task is cancelled; the renewal task is joined first.
EndBody(s) ==
  /\ pc[s] \in {"held", "lost"}
  /\ Abandon(s)
  /\ Go(s, "releasing")
  /\ since' = [since EXCEPT ![s] = 0]
  /\ Send(s, "release")
  /\ UnchangedRedis
  /\ UNCHANGED manager

Released(s) ==
  /\ pc[s] \in {"releasing", "undoing"}
  /\ Reply(s, "release")
  /\ Go(s, "done")
  /\ Hang(s)
  /\ UnchangedRedis
  /\ UNCHANGED <<since, stray, manager>>

\* The release has no answer either: the key is left to its expiry.
ReleaseFails(s) ==
  /\ pc[s] \in {"releasing", "undoing"}
  /\ call[s].kind = "release"
  /\ Go(s, "done")
  /\ Hang(s)
  /\ Abandon(s)
  /\ UnchangedRedis
  /\ UNCHANGED <<since, manager>>

-----------------------------------------------------------------------------
(* The manager, its process, and time.                                      *)

UnchangedButManager == UnchangedRedis /\ UnchangedScopes /\ UNCHANGED <<call, stray>>

\* __aenter__ with its health check, which may fail.
Start(m) ==
  /\ manager[m] = "new"
  /\ \E state \in {"open", "closed"} : manager' = [manager EXCEPT ![m] = state]
  /\ UnchangedButManager

\* aclose: no new scopes.
Close(m) ==
  /\ manager[m] = "open"
  /\ manager' = [manager EXCEPT ![m] = "closing"]
  /\ UnchangedButManager

\* The client is closed when the last scope has ended.
CloseClient(m) ==
  /\ manager[m] = "closing"
  /\ Registered(m) = {}
  /\ manager' = [manager EXCEPT ![m] = "closed"]
  /\ UnchangedButManager

Crash(m) ==
  /\ manager[m] \notin {"new", "closed"}
  /\ manager' = [manager EXCEPT ![m] = "closed"]
  /\ pc' = [s \in Scopes |-> IF s \in Registered(m) THEN "dead" ELSE pc[s]]
  /\ since' = [s \in Scopes |-> IF s \in Registered(m) THEN 0 ELSE since[s]]
  /\ call' = [s \in Scopes |-> IF s \in Registered(m) THEN NoCall ELSE call[s]]
  /\ stray' = stray \cup {[scope |-> s, kind |-> call[s].kind] :
                            s \in {t \in Registered(m) : call[t].at = "sent"}}
  /\ UnchangedRedis

Older(c) == IF c.at = "answered" THEN [c EXCEPT !.late = @ + 1] ELSE c

\* Time passes only while no timer of a live scope is due: event loops are prompt.
Tick ==
  /\ \A s \in Scopes :
       /\ call[s].at = "answered" => call[s].late < MaxReplyDelay
       /\ Holding(s) => ~RenewalDue(s) /\ ~DeadlinePassed(s)
  /\ owner # None \/ \E s \in Scopes : call[s].kind # None \/ Holding(s)
  /\ ttl' = IF ttl > 0 THEN ttl - 1 ELSE ttl
  /\ owner' = IF ttl = 1 THEN None ELSE owner
  /\ since' = [s \in Scopes |-> IF Holding(s) THEN since[s] + 1 ELSE since[s]]
  /\ call' = [s \in Scopes |-> Older(call[s])]
  /\ UNCHANGED <<fencing, told, pc, stray, manager>>

Next ==
  \/ \E s \in Scopes :
       \/ Execute(s) \/ Hold(s) \/ Poll(s) \/ Refused(s) \/ Acquired(s) \/ AcquireFails(s)
       \/ CancelWaiting(s) \/ SendRenewal(s) \/ Renewed(s) \/ MarkLost(s)
       \/ EndBody(s) \/ Released(s) \/ ReleaseFails(s)
  \/ \E c \in stray : ExecuteStray(c) \/ LoseStray(c)
  \/ \E m \in Managers : Start(m) \/ Close(m) \/ CloseClient(m) \/ Crash(m)
  \/ Tick

Spec == Init /\ [][Next]_vars

\* Time passes, Redis and event loops answer, bodies end.
Fairness ==
  /\ SF_vars(Tick)
  /\ \A s \in Scopes :
       /\ WF_vars(Execute(s)) /\ WF_vars(Poll(s)) /\ WF_vars(Refused(s))
       /\ WF_vars(Acquired(s)) /\ WF_vars(SendRenewal(s)) /\ WF_vars(Renewed(s))
       /\ WF_vars(DeadlinePassed(s) /\ MarkLost(s))
       /\ WF_vars(EndBody(s)) /\ WF_vars(Released(s))

FairSpec == Spec /\ Fairness

-----------------------------------------------------------------------------
(* Properties.                                                              *)

Calls == {NoCall} \cup [kind : Kinds, at : {"sent", "answered"}, value : Nat, late : 0..MaxReplyDelay]

RedisLeaseTypeOK ==
  /\ owner \in Scopes \cup {None}
  /\ ttl \in 0..Ttl
  /\ fencing \in Nat
  /\ told \in [Scopes -> Nat]
  /\ pc \in [Scopes -> {"idle", "acquiring", "waiting", "held", "lost", "releasing", "undoing",
                       "done", "dead"}]
  /\ since \in [Scopes -> 0..Deadline]
  /\ call \in [Scopes -> Calls]
  /\ stray \subseteq [scope : Scopes, kind : Kinds]
  /\ manager \in [Managers -> {"new", "open", "closing", "closed"}]

\* The scopes whose body runs under the belief that it holds the lease.
Inside == {s \in Scopes : Holding(s)}

\* Runs of one key are serialized: no two bodies run at a time.  last_success is taken
\* when a reply arrives, so this rests on how late replies may be.
Exclusive == \A s, t \in Inside : s = t

\* Lease scopes implement the coordinator's promise.
ExclusiveSpec == INSTANCE ExclusiveScopes WITH inside <- Inside, KeyOf <- [s \in Scopes |-> 0]
ImplementsExclusiveScopes == ExclusiveSpec!Spec

\* However late replies are, a body that Redis no longer regards as the owner's holds a
\* smaller fencing token than the owner, so that a downstream store can reject it.
FencingOrder == \A s \in Inside : owner \notin {None, s} => told[s] < told[owner]

\* Nobody but the scope itself gives its lease up: it ends by its own release or expires,
\* whatever late commands of other scopes arrive.
OwnLeaseOnly ==
  [][\A s \in Scopes : owner = s /\ owner' # s =>
       ttl = 1 \/ pc[s] \in {"releasing", "undoing", "done", "dead"}]_vars

\* The client is not closed under a scope that still has to release its lease.
ClientOutlivesScopes == \A m \in Managers : manager[m] = "closed" => Registered(m) = {}

\* A scope that waits gets the lease or an error, although the owner's process may have
\* died or the owner's release was lost.
WaitingEnds ==
  \A s \in Scopes : pc[s] \in {"acquiring", "waiting"} ~> pc[s] \notin {"acquiring", "waiting"}
\* Leases end as they should: with their owner's release or by expiry, before the client
\* is closed, and so that whoever waits is served.
LeasesEnd == []ClientOutlivesScopes /\ OwnLeaseOnly /\ WaitingEnds
=============================================================================
