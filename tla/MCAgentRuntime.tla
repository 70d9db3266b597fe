--------------------------- MODULE MCAgentRuntime ---------------------------
(***************************************************************************)
(* The Agent Runtime on small instances: the scope of a lease in Redis,    *)
(* with replies that are prompt or late; the scopes of a single process;   *)
(* and the owner of one run inside such a scope, with every way to stop    *)
(* it.  They touch disjoint state, so a behaviour is about one of them.    *)
(***************************************************************************)
EXTENDS RedisLease, LocalCoordinator, RunOwner, TLC

CONSTANTS s1, s2, m1, m2, Subjects

MCManagerOf == (s1 :> m1) @@ (s2 :> m2)

\* Three scopes of one key and one of another.
MCKeyOf == [s \in LocalScopes |-> IF s = 4 THEN "other" ELSE "key"]

VARIABLE subject  \* what the behaviour is about

MCVars == <<subject, vars, localVars, ownerVars>>

\* While replies are prompt, a body ends before its lease does.
PromptReply == \A s \in Scopes : call[s].late <= 1

MCInit == Init /\ LocalInit /\ OwnerInit /\ subject \in Subjects

MCNext ==
  /\ \/ subject = "prompt lease" /\ Next /\ PromptReply' /\ UNCHANGED <<localVars, ownerVars>>
     \/ subject = "late lease" /\ Next /\ UNCHANGED <<localVars, ownerVars>>
     \/ subject = "local" /\ LocalNext /\ UNCHANGED <<vars, ownerVars>>
     \/ subject = "owner" /\ OwnerNext /\ UNCHANGED <<vars, localVars>>
  /\ UNCHANGED subject

\* None of the fair actions is enabled in a part that has not begun.
MCSpec == MCInit /\ [][MCNext]_MCVars /\ Fairness /\ LocalFairness /\ OwnerFairness

-----------------------------------------------------------------------------
PromptInside == IF subject = "prompt lease" THEN Inside ELSE {}
PromptExclusive == INSTANCE ExclusiveScopes WITH inside <- PromptInside, KeyOf <- [s \in Scopes |-> 0]

\* Redis leases keep the promise of a coordinator, one body at a time, as long
\* as replies are not late: the renewal task gives up before the key expires.
PromptLeaseIsExclusive == PromptExclusive!Spec
=============================================================================
