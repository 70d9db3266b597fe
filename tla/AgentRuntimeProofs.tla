------------------------- MODULE AgentRuntimeProofs -------------------------
(***************************************************************************)
(* The owner of a run ends it in order, whoever stops it and whenever; the *)
(* scopes of one process exclude each other, for any scopes and keys.  For *)
(* any scopes, managers and times of the lease lock: the types, the order  *)
(* of fencing tokens, and, when a reply and the safety deadline together   *)
(* stay below the time to live, that its scopes exclude each other.        *)
(***************************************************************************)
EXTENDS RunOwner, LocalCoordinator, RedisLease, FiniteSetTheorems, TLAPS

-----------------------------------------------------------------------------
(* The owner of one run.                                                    *)

Ending == {"closingSource", "closingWorkspace", "releasing", "observing"}

\* How far the supervisor and the native task can be apart.
Places ==
  /\ consumer = "idle" => sup = Nothing
  /\ native = Nothing => ~release /\ ~lost
  /\ sup \in {Nothing, "entering"} => native = Nothing
  /\ sup = "guarding" => native # Nothing
  /\ native \in {"created", "unborn", "preparing", "serving", "pulling", "draining", "closingSource",
                 "closingWorkspace"} => sup = "guarding" /\ ~release
  /\ native \in {"releasing", "observing"} => release
  /\ native \in {Nothing, "created", "unborn", "preparing"} => workspace = Nothing
  /\ release => workspace # "open"

\* The scope is held by the supervisor that guards it, and its exit has an outcome.
Exits ==
  /\ scope => sup = "guarding"
  /\ sup \in {"joining", "over"} => ~scope /\ released # Nothing
  /\ sup = "guarding" => released = Nothing
  /\ native \in {"observing", "over"} => released # Nothing
  /\ sup \in {Nothing, "entering"} => released = Nothing

\* A settled run takes no command, and a lost scope is remembered until it is reported.
Remembers ==
  /\ native \in Ending \cup {"unwinding", "over"} => settling
  /\ settling => stopping
  /\ terminal # Nothing => native = "over" /\ workspace # "open"
  /\ lost => failure # Nothing
  /\ lost /\ released # Nothing => released = "error"
  /\ lost /\ native = "observing" => cleanupBad

\* The inductive invariant of a run.
OwnerInv ==
  /\ OwnerWords /\ OwnerFlags /\ ResourcesUnderScope /\ LostIsNotSuccess /\ TerminalLast
  /\ Places /\ Exits /\ Remembers

LEMMA OwnerStart == OwnerInit => OwnerInv
BY DEF OwnerInit, OwnerInv, OwnerWords, OwnerFlags, ResourcesUnderScope, LostIsNotSuccess, TerminalLast,
       Places, Exits, Remembers, Ending, Native, Nothing

LEMMA OwnerStep == OwnerInv /\ [OwnerNext]_ownerVars => OwnerInv'
<1> SUFFICES ASSUME OwnerInv, [OwnerNext]_ownerVars PROVE OwnerInv'
  OBVIOUS
<1> USE DEF OwnerInv, OwnerWords, OwnerFlags, ResourcesUnderScope, LostIsNotSuccess, TerminalLast,
            Places, Exits, Remembers, Ending, Native, Nothing, callers, control, results, Stop, MayCancel,
            NativeUnchanged, SettlementUnchanged, Step, Settle, Hit, Leaving, Stopped, OutcomeOf
<1>1. CASE Pull
  BY <1>1 DEF Pull
<1>2. CASE ConsumerReady
  BY <1>2 DEF ConsumerReady
<1>3. CASE Call
  <2>1. OwnerWords'
    BY <1>3 DEF Call
  <2>2. OwnerFlags'
    BY <1>3 DEF Call
  <2>3. ResourcesUnderScope'
    BY <1>3 DEF Call
  <2>4. LostIsNotSuccess'
    BY <1>3 DEF Call
  <2>5. TerminalLast'
    BY <1>3 DEF Call
  <2>6. Places'
    BY <1>3 DEF Call
  <2>7. Exits'
    BY <1>3 DEF Call
  <2>8. Remembers'
    BY <1>3 DEF Call
  <2> QED BY <2>1, <2>2, <2>3, <2>4, <2>5, <2>6, <2>7, <2>8
<1>4. CASE Receive
  BY <1>4 DEF Receive
<1>5. CASE CancelConsumer
  <2>1. OwnerWords'
    BY <1>5 DEF CancelConsumer
  <2>2. OwnerFlags'
    BY <1>5 DEF CancelConsumer
  <2>3. ResourcesUnderScope'
    BY <1>5 DEF CancelConsumer
  <2>4. LostIsNotSuccess'
    BY <1>5 DEF CancelConsumer
  <2>5. TerminalLast'
    BY <1>5 DEF CancelConsumer
  <2>6. Places'
    BY <1>5 DEF CancelConsumer
  <2>7. Exits'
    BY <1>5 DEF CancelConsumer
  <2>8. Remembers'
    BY <1>5 DEF CancelConsumer
  <2> QED BY <2>1, <2>2, <2>3, <2>4, <2>5, <2>6, <2>7, <2>8
<1>6. CASE ConsumerStops
  BY <1>6 DEF ConsumerStops
<1>7. CASE ConsumerCloses
  BY <1>7 DEF ConsumerCloses
<1>8. CASE CallbackCloses
  BY <1>8 DEF CallbackCloses
<1>9. CASE CloseOwner
  BY <1>9 DEF CloseOwner
<1>10. CASE CloserStops
  BY <1>10 DEF CloserStops
<1>11. CASE CloserJoins
  BY <1>11 DEF CloserJoins
<1>12. CASE Admit
  <2>1. OwnerWords'
    BY <1>12 DEF Admit
  <2>2. OwnerFlags'
    BY <1>12 DEF Admit
  <2>3. ResourcesUnderScope'
    BY <1>12 DEF Admit
  <2>4. LostIsNotSuccess'
    BY <1>12 DEF Admit
  <2>5. TerminalLast'
    BY <1>12 DEF Admit
  <2>6. Places'
    BY <1>12 DEF Admit
  <2>7. Exits'
    BY <1>12 DEF Admit
  <2>8. Remembers'
    BY <1>12 DEF Admit
  <2> QED BY <2>1, <2>2, <2>3, <2>4, <2>5, <2>6, <2>7, <2>8
<1>13. CASE AdmissionFails
  <2>1. OwnerWords'
    BY <1>13 DEF AdmissionFails
  <2>2. OwnerFlags'
    BY <1>13 DEF AdmissionFails
  <2>3. ResourcesUnderScope'
    BY <1>13 DEF AdmissionFails
  <2>4. LostIsNotSuccess'
    BY <1>13 DEF AdmissionFails
  <2>5. TerminalLast'
    BY <1>13 DEF AdmissionFails
  <2>6. Places'
    BY <1>13 DEF AdmissionFails
  <2>7. Exits'
    BY <1>13 DEF AdmissionFails
  <2>8. Remembers'
    BY <1>13 DEF AdmissionFails
  <2> QED BY <2>1, <2>2, <2>3, <2>4, <2>5, <2>6, <2>7, <2>8
<1>14. CASE LoseScope
  BY <1>14 DEF LoseScope
<1>15. CASE ExitScope
  <2>1. OwnerWords'
    BY <1>15 DEF ExitScope, MayExit
  <2>2. OwnerFlags'
    BY <1>15 DEF ExitScope, MayExit
  <2>3. ResourcesUnderScope'
    BY <1>15 DEF ExitScope, MayExit
  <2>4. LostIsNotSuccess'
    BY <1>15 DEF ExitScope, MayExit
  <2>5. TerminalLast'
    BY <1>15 DEF ExitScope, MayExit
  <2>6. Places'
    BY <1>15 DEF ExitScope, MayExit
  <2>7. Exits'
    BY <1>15 DEF ExitScope, MayExit
  <2>8. Remembers'
    BY <1>15 DEF ExitScope, MayExit
  <2> QED BY <2>1, <2>2, <2>3, <2>4, <2>5, <2>6, <2>7, <2>8
<1>16. CASE JoinNative
  BY <1>16 DEF JoinNative
<1>17. CASE ObserverFails
  BY <1>17 DEF ObserverFails
<1>18. CASE StartNative
  BY <1>18 DEF StartNative
<1>19. CASE Prepared
  BY <1>19 DEF Prepared
<1>20. CASE PreparationCancelled
  BY <1>20 DEF PreparationCancelled
<1>21. CASE Unwind
  <2>1. OwnerWords'
    BY <1>21 DEF Unwind
  <2>2. OwnerFlags'
    BY <1>21 DEF Unwind
  <2>3. ResourcesUnderScope'
    BY <1>21 DEF Unwind
  <2>4. LostIsNotSuccess'
    BY <1>21 DEF Unwind
  <2>5. TerminalLast'
    BY <1>21 DEF Unwind
  <2>6. Places'
    BY <1>21 DEF Unwind
  <2>7. Exits'
    BY <1>21 DEF Unwind
  <2>8. Remembers'
    BY <1>21 DEF Unwind
  <2> QED BY <2>1, <2>2, <2>3, <2>4, <2>5, <2>6, <2>7, <2>8
<1>22. CASE TakeCommand
  BY <1>22 DEF TakeCommand
<1>23. CASE PullPart
  BY <1>23 DEF PullPart
<1>24. CASE Drain
  BY <1>24 DEF Drain
<1>25. CASE Drained
  <2>1. OwnerWords'
    BY <1>25 DEF Drained
  <2>2. OwnerFlags'
    BY <1>25 DEF Drained
  <2>3. ResourcesUnderScope'
    BY <1>25 DEF Drained
  <2>4. LostIsNotSuccess'
    BY <1>25 DEF Drained
  <2>5. TerminalLast'
    BY <1>25 DEF Drained
  <2>6. Places'
    BY <1>25 DEF Drained
  <2>7. Exits'
    BY <1>25 DEF Drained
  <2>8. Remembers'
    BY <1>25 DEF Drained
  <2> QED BY <2>1, <2>2, <2>3, <2>4, <2>5, <2>6, <2>7, <2>8
<1>26. CASE PullEnds
  <2>1. OwnerWords'
    BY <1>26 DEF PullEnds
  <2>2. OwnerFlags'
    BY <1>26 DEF PullEnds
  <2>3. ResourcesUnderScope'
    BY <1>26 DEF PullEnds
  <2>4. LostIsNotSuccess'
    BY <1>26 DEF PullEnds
  <2>5. TerminalLast'
    BY <1>26 DEF PullEnds
  <2>6. Places'
    BY <1>26 DEF PullEnds
  <2>7. Exits'
    BY <1>26 DEF PullEnds
  <2>8. Remembers'
    BY <1>26 DEF PullEnds
  <2> QED BY <2>1, <2>2, <2>3, <2>4, <2>5, <2>6, <2>7, <2>8
<1>27. CASE NativeCancelled
  <2>1. OwnerWords'
    BY <1>27 DEF NativeCancelled
  <2>2. OwnerFlags'
    BY <1>27 DEF NativeCancelled
  <2>3. ResourcesUnderScope'
    BY <1>27 DEF NativeCancelled
  <2>4. LostIsNotSuccess'
    BY <1>27 DEF NativeCancelled
  <2>5. TerminalLast'
    BY <1>27 DEF NativeCancelled
  <2>6. Places'
    BY <1>27 DEF NativeCancelled
  <2>7. Exits'
    BY <1>27 DEF NativeCancelled
  <2>8. Remembers'
    BY <1>27 DEF NativeCancelled
  <2> QED BY <2>1, <2>2, <2>3, <2>4, <2>5, <2>6, <2>7, <2>8
<1>28. CASE CloseSource
  <2>1. OwnerWords'
    BY <1>28 DEF CloseSource
  <2>2. OwnerFlags'
    BY <1>28 DEF CloseSource
  <2>3. ResourcesUnderScope'
    BY <1>28 DEF CloseSource
  <2>4. LostIsNotSuccess'
    BY <1>28 DEF CloseSource
  <2>5. TerminalLast'
    BY <1>28 DEF CloseSource
  <2>6. Places'
    BY <1>28 DEF CloseSource
  <2>7. Exits'
    BY <1>28 DEF CloseSource
  <2>8. Remembers'
    BY <1>28 DEF CloseSource
  <2> QED BY <2>1, <2>2, <2>3, <2>4, <2>5, <2>6, <2>7, <2>8
<1>29. CASE CloseWorkspace
  <2>1. OwnerWords'
    BY <1>29 DEF CloseWorkspace
  <2>2. OwnerFlags'
    BY <1>29 DEF CloseWorkspace
  <2>3. ResourcesUnderScope'
    BY <1>29 DEF CloseWorkspace
  <2>4. LostIsNotSuccess'
    BY <1>29 DEF CloseWorkspace
  <2>5. TerminalLast'
    BY <1>29 DEF CloseWorkspace
  <2>6. Places'
    BY <1>29 DEF CloseWorkspace
  <2>7. Exits'
    BY <1>29 DEF CloseWorkspace
  <2>8. Remembers'
    BY <1>29 DEF CloseWorkspace
  <2> QED BY <2>1, <2>2, <2>3, <2>4, <2>5, <2>6, <2>7, <2>8
<1>30. CASE ScopeReleased
  BY <1>30 DEF ScopeReleased, AwaitsRelease
<1>31. CASE Observe
  BY <1>31 DEF Observe, Answer
<1>32. CASE UNCHANGED ownerVars
  BY <1>32 DEF ownerVars
<1> QED BY <1>1, <1>2, <1>3, <1>4, <1>5, <1>6, <1>7, <1>8, <1>9, <1>10, <1>11, <1>12, <1>13, <1>14, <1>15, <1>16, <1>17, <1>18, <1>19, <1>20, <1>21, <1>22, <1>23, <1>24, <1>25, <1>26, <1>27, <1>28, <1>29, <1>30, <1>31, <1>32 DEF OwnerNext

\* Whatever stops the run and in whatever order its tasks are scheduled, OwnerInv holds.
THEOREM OwnerInductive == OwnerSpec => []OwnerInv
BY OwnerStart, OwnerStep, PTL DEF OwnerSpec

\* Resources close inside the scope, a run that lost its scope is no success, and the
\* terminal observation is the last thing of a run (RunOwner, _runtime_streams.py).
THEOREM RunsEndInOrder == OwnerSpec => []RunEndsInOrder
<1>1. OwnerInv => RunEndsInOrder
  BY DEF OwnerInv, RunEndsInOrder, OwnerTypeOK
<1>2. QED BY <1>1, OwnerInductive, PTL

\* RunOwner.stop cancels the native task at most once, and never while it settles.
THEOREM CleanupIsUninterrupted == OwnerSpec => CleanupUninterrupted
<1> DEFINE Once == /\ settling => (cancel' = "pending" => cancel = "pending")
                   /\ cancel = "delivered" => cancel' = "delivered"
<1>1. ASSUME OwnerInv, [OwnerNext]_ownerVars PROVE Once
  <2> USE DEF control, NativeUnchanged, SettlementUnchanged, Settle, Hit
  <2>1. ASSUME NEW e, Stop(e) PROVE Once
    BY <1>1, <2>1 DEF Stop, MayCancel, Nothing, OwnerInv, OwnerFlags, OwnerWords
  <2>2. CASE CancelConsumer \/ ConsumerStops \/ CloserStops \/ LoseScope \/ ObserverFails
    BY <2>1, <2>2 DEF CancelConsumer, ConsumerStops, CloserStops, LoseScope, ObserverFails
  <2>3. CASE \/ Pull \/ ConsumerReady \/ Call \/ Receive \/ ConsumerCloses \/ CallbackCloses \/ CloseOwner
             \/ CloserJoins \/ Admit \/ AdmissionFails \/ ExitScope \/ JoinNative
    BY <2>3 DEF Pull, ConsumerReady, Call, Receive, ConsumerCloses, CallbackCloses, CloseOwner, CloserJoins,
                Admit, AdmissionFails, ExitScope, JoinNative
  <2>4. CASE \/ StartNative \/ Prepared \/ PreparationCancelled \/ Unwind \/ TakeCommand \/ PullPart \/ Drain
             \/ Drained \/ PullEnds \/ NativeCancelled
    BY <2>4 DEF StartNative, Prepared, PreparationCancelled, Unwind, TakeCommand, PullPart, Drain, Drained,
                PullEnds, NativeCancelled
  <2>5. CASE CloseSource \/ CloseWorkspace \/ ScopeReleased \/ Observe \/ UNCHANGED ownerVars
    BY <2>5 DEF CloseSource, CloseWorkspace, ScopeReleased, Observe, ownerVars
  <2>6. QED BY <1>1, <2>2, <2>3, <2>4, <2>5 DEF OwnerNext
<1>2. QED BY <1>1, OwnerInductive, PTL DEF OwnerSpec, CleanupUninterrupted

-----------------------------------------------------------------------------
(* The scopes of one process.                                               *)

Using(s) == at[s] \in {"waiting", "inside", "settling"}
UsersOf(e) == {s \in LocalScopes : Using(s) /\ entry[s] = e}

LocalTypeOK ==
  /\ entries \in [Keys -> LocalScopes \cup {NoEntry}]
  /\ users \in [LocalScopes -> Nat]
  /\ locked \in [LocalScopes -> LocalScopes \cup {NoEntry}]
  /\ entry \in [LocalScopes -> LocalScopes \cup {NoEntry}]
  /\ at \in [LocalScopes -> {"idle", "waiting", "inside", "settling", "done"}]

\* Whoever uses a key has registered at the entry that the table still holds for it.
EntryOfKey == \A s \in LocalScopes : Using(s) => entry[s] # NoEntry /\ entries[KeyOf[s]] = entry[s]

\* An entry belongs to the key of the scope that made it, and counts its users.
EntryCounts ==
  /\ \A k \in Keys : entries[k] # NoEntry => KeyOf[entries[k]] = k /\ UsersOf(entries[k]) # {}
  /\ \A e \in LocalScopes : IsFiniteSet(UsersOf(e)) /\ users[e] = Cardinality(UsersOf(e))

LockHeld ==
  \A s \in LocalScopes : at[s] = "inside" => locked[entry[s]] = s

\* The inductive invariant of the table.
LocalInv == LocalTypeOK /\ EntryOfKey /\ EntryCounts /\ LockHeld

LEMMA LocalStart == LocalInit => LocalInv
<1> SUFFICES ASSUME LocalInit PROVE LocalInv
  OBVIOUS
<1>1. \A e \in LocalScopes : UsersOf(e) = {}
  BY DEF LocalInit, UsersOf, Using
<1>2. QED
  BY <1>1, FS_EmptySet DEF LocalInit, LocalInv, LocalTypeOK, EntryOfKey, EntryCounts, LockHeld, Using, NoEntry

\* A scope that uses a key keeps its entry in the table.
LEMMA LocalTypeStep ==
  ASSUME LocalInv, NEW s \in LocalScopes,
         Register(s) \/ Acquire(s) \/ CancelLocal(s) \/ Leave(s) \/ SettleEntry(s)
  PROVE  LocalTypeOK'
<1> USE CoordinatorAssumption DEF LocalInv, LocalTypeOK, Move, NoEntry
<1>1. CASE Register(s)
  BY <1>1 DEF Register
<1>2. CASE Acquire(s)
  BY <1>2 DEF Acquire
<1>3. CASE CancelLocal(s) \/ Leave(s)
  BY <1>3 DEF CancelLocal, Leave
<1>4. CASE SettleEntry(s)
  <2>1. entry[s] \in LocalScopes /\ s \in UsersOf(entry[s])
    BY <1>4 DEF SettleEntry, EntryOfKey, UsersOf, Using
  <2>2. users[entry[s]] # 0
    BY <2>1, FS_EmptySet DEF EntryCounts
  <2>3. users[entry[s]] - 1 \in Nat
    BY <2>1, <2>2
  <2>4. QED BY <1>4, <2>3 DEF SettleEntry
<1>5. QED BY <1>1, <1>2, <1>3, <1>4

\* Steps that neither register nor settle leave the users of every entry as they are.
LEMMA SameUsers ==
  ASSUME LocalInv, NEW s \in LocalScopes, Acquire(s) \/ CancelLocal(s) \/ Leave(s)
  PROVE  /\ UNCHANGED <<entries, users, entry>>
         /\ \A t \in LocalScopes : Using(t)' = Using(t)
         /\ \A e \in LocalScopes : UsersOf(e)' = UsersOf(e)
<1>1. /\ UNCHANGED <<entries, users, entry>>
      /\ \A t \in LocalScopes : Using(t)' <=> Using(t)
  BY DEF LocalInv, LocalTypeOK, Acquire, CancelLocal, Leave, Move, Using
<1>2. \A e \in LocalScopes : UsersOf(e)' = UsersOf(e)
  BY <1>1 DEF UsersOf
<1>3. QED BY <1>1, <1>2 DEF Using

\* A registration adds its scope to the users of the entry e of its key.
Registers(s, e) ==
  /\ entry'[s] = e /\ entries' = [entries EXCEPT ![KeyOf[s]] = e]
  /\ entries[KeyOf[s]] \in {NoEntry, e}
  /\ UsersOf(e)' = UsersOf(e) \cup {s} /\ s \notin UsersOf(e)
  /\ users'[e] = users[e] + 1
  /\ \A f \in LocalScopes \ {e} : UsersOf(f)' = UsersOf(f) /\ users'[f] = users[f]
  /\ \A t \in LocalScopes \ {s} : (Using(t)' <=> Using(t)) /\ entry'[t] = entry[t]
  /\ Using(s)' /\ KeyOf[e] = KeyOf[s]

LEMMA RegisterUsers ==
  ASSUME LocalInv, NEW s \in LocalScopes, Register(s)
  PROVE  \E e \in LocalScopes : Registers(s, e)
<1> USE CoordinatorAssumption DEF LocalInv, LocalTypeOK, NoEntry
<1>1. PICK e \in LocalScopes : e = IF entries[KeyOf[s]] = NoEntry THEN s ELSE entries[KeyOf[s]]
  OBVIOUS
<1>2. /\ entry'[s] = e /\ entries' = [entries EXCEPT ![KeyOf[s]] = e]
      /\ entries[KeyOf[s]] \in {NoEntry, e}
      /\ users'[e] = users[e] + 1
      /\ \A f \in LocalScopes \ {e} : users'[f] = users[f]
  BY <1>1 DEF Register
<1>3. /\ \A t \in LocalScopes \ {s} : (Using(t)' <=> Using(t)) /\ entry'[t] = entry[t]
      /\ Using(s)' /\ ~Using(s)
  BY DEF Register, Move, Using
<1>4. KeyOf[e] = KeyOf[s]
  BY <1>1 DEF EntryCounts
<1>5. UsersOf(e)' = UsersOf(e) \cup {s} /\ s \notin UsersOf(e)
  BY <1>2, <1>3 DEF UsersOf
<1>6. \A f \in LocalScopes \ {e} : UsersOf(f)' = UsersOf(f)
  BY <1>2, <1>3 DEF UsersOf
<1>7. QED BY <1>2, <1>3, <1>4, <1>5, <1>6 DEF Registers

LEMMA SettleUsers ==
  ASSUME LocalInv, NEW s \in LocalScopes, SettleEntry(s)
  PROVE  /\ entry[s] \in LocalScopes /\ entry' = entry
         /\ UsersOf(entry[s])' = UsersOf(entry[s]) \ {s} /\ s \in UsersOf(entry[s])
         /\ users'[entry[s]] = users[entry[s]] - 1
         /\ \A e \in LocalScopes \ {entry[s]} : UsersOf(e)' = UsersOf(e) /\ users'[e] = users[e]
         /\ \A t \in LocalScopes \ {s} : Using(t)' <=> Using(t)
         /\ Using(s) /\ ~Using(s)'
<1> USE CoordinatorAssumption DEF LocalInv, LocalTypeOK, NoEntry
<1>1. /\ \A t \in LocalScopes \ {s} : Using(t)' <=> Using(t)
      /\ Using(s) /\ ~Using(s)'
  BY DEF SettleEntry, Move, Using
<1>2. entry[s] \in LocalScopes /\ entry' = entry
  BY <1>1 DEF SettleEntry, EntryOfKey
<1>3. /\ users'[entry[s]] = users[entry[s]] - 1
      /\ \A e \in LocalScopes \ {entry[s]} : users'[e] = users[e]
  BY <1>2 DEF SettleEntry
<1>4. QED BY <1>1, <1>2, <1>3 DEF UsersOf

LEMMA LocalStep == LocalInv /\ [LocalNext]_localVars => LocalInv'
<1> SUFFICES ASSUME LocalInv, [LocalNext]_localVars PROVE LocalInv'
  OBVIOUS
<1> USE CoordinatorAssumption DEF NoEntry
<1>1. CASE UNCHANGED localVars
  BY <1>1 DEF localVars, LocalInv, LocalTypeOK, EntryOfKey, EntryCounts, LockHeld, Using, UsersOf
<1>2. ASSUME NEW s \in LocalScopes, Acquire(s) \/ CancelLocal(s) \/ Leave(s) PROVE LocalInv'
  <2>1. LocalTypeOK'
    BY <1>2, LocalTypeStep
  <2>2. EntryOfKey' /\ EntryCounts'
    BY <1>2, SameUsers DEF LocalInv, LocalTypeOK, EntryOfKey, EntryCounts
  <2>3. LockHeld'
    BY <1>2 DEF LocalInv, LocalTypeOK, EntryOfKey, LockHeld, Acquire, CancelLocal, Leave, Move, Using
  <2>4. QED BY <2>1, <2>2, <2>3 DEF LocalInv
<1>3. ASSUME NEW s \in LocalScopes, Register(s) PROVE LocalInv'
  <2>1. LocalTypeOK'
    BY <1>3, LocalTypeStep
  <2>2. PICK e \in LocalScopes : Registers(s, e)
    BY <1>3, RegisterUsers
  <2>3. EntryOfKey'
    BY <2>2 DEF Registers, LocalInv, LocalTypeOK, EntryOfKey
  <2>4. \A k \in Keys : (entries[k] # NoEntry => KeyOf[entries[k]] = k /\ UsersOf(entries[k]) # {})'
    BY <2>2 DEF Registers, LocalInv, LocalTypeOK, EntryCounts
  <2>5. \A f \in LocalScopes : IsFiniteSet(UsersOf(f)') /\ users'[f] = Cardinality(UsersOf(f)')
    BY <2>2, FS_AddElement DEF Registers, LocalInv, EntryCounts
  <2>6. LockHeld'
    BY <1>3 DEF LocalInv, LocalTypeOK, LockHeld, Register, Move
  <2>7. QED BY <2>1, <2>3, <2>4, <2>5, <2>6 DEF LocalInv, EntryCounts
<1>4. ASSUME NEW s \in LocalScopes, SettleEntry(s) PROVE LocalInv'
  <2> DEFINE e == entry[s]
  <2>1. LocalTypeOK'
    BY <1>4, LocalTypeStep
  <2>2. users[e] = 1 <=> UsersOf(e) = {s}
    <3>1. s \in UsersOf(e) /\ IsFiniteSet(UsersOf(e)) /\ users[e] = Cardinality(UsersOf(e))
      BY <1>4, SettleUsers DEF LocalInv, EntryCounts
    <3>2. Cardinality(UsersOf(e)) = 1 <=> \E x : UsersOf(e) = {x}
      BY <3>1, FS_Singleton
    <3>3. QED BY <3>1, <3>2
  <2>3. KeyOf[s] \in Keys /\ entries[KeyOf[s]] = e /\ e # NoEntry
    BY <1>4, SettleUsers DEF LocalInv, EntryOfKey
  <2>4. entries' = IF UsersOf(e) = {s} THEN [entries EXCEPT ![KeyOf[s]] = NoEntry] ELSE entries
    BY <1>4, <2>2, <2>3 DEF SettleEntry, PopsEntry
  <2>5. EntryOfKey'
    <3>1. ASSUME NEW t \in LocalScopes, Using(t)'
          PROVE  t # s /\ Using(t) /\ entry'[t] = entry[t] /\ entries[KeyOf[t]] = entry[t] /\ entry[t] # NoEntry
      BY <1>4, <3>1, SettleUsers DEF LocalInv, EntryOfKey
    <3>2. ASSUME NEW t \in LocalScopes, Using(t)', KeyOf[t] = KeyOf[s] PROVE UsersOf(e) # {s}
      BY <2>3, <3>1, <3>2 DEF UsersOf
    <3>3. QED BY <2>4, <3>1, <3>2 DEF EntryOfKey, LocalInv, LocalTypeOK
  <2>6. ASSUME NEW k \in Keys, entries'[k] # NoEntry
        PROVE  (KeyOf[entries[k]] = k /\ UsersOf(entries[k]) # {})'
    <3>1. PICK f \in LocalScopes : entries[k] = f /\ entries'[k] = f
      BY <2>4, <2>6 DEF LocalInv, LocalTypeOK
    <3>2. KeyOf[f] = k /\ UsersOf(f) # {}
      BY <2>6, <3>1 DEF LocalInv, EntryCounts
    <3>3. CASE f # e
      BY <1>4, <3>1, <3>2, <3>3, SettleUsers
    <3>4. CASE f = e
      <4>1. UsersOf(e) # {s}
        BY <2>1, <2>3, <2>4, <2>6, <3>1, <3>2, <3>4, <1>4, SettleUsers DEF LocalInv, LocalTypeOK, EntryCounts
      <4>2. UsersOf(e)' # {}
        BY <1>4, <4>1, SettleUsers
      <4>3. QED BY <1>4, <3>1, <3>2, <3>4, <4>2, SettleUsers
    <3>5. QED BY <3>3, <3>4
  <2>7. \A f \in LocalScopes : (IsFiniteSet(UsersOf(f)) /\ users[f] = Cardinality(UsersOf(f)))'
    <3>1. \A f \in LocalScopes : IsFiniteSet(UsersOf(f)) /\ users[f] = Cardinality(UsersOf(f))
      BY DEF LocalInv, EntryCounts
    <3>2. IsFiniteSet(UsersOf(e) \ {s}) /\ Cardinality(UsersOf(e) \ {s}) = Cardinality(UsersOf(e)) - 1
      BY <1>4, <3>1, SettleUsers, FS_RemoveElement
    <3>3. QED BY <1>4, <3>1, <3>2, SettleUsers
  <2>8. LockHeld'
    BY <1>4 DEF LocalInv, LocalTypeOK, LockHeld, SettleEntry, Move
  <2>9. QED BY <2>1, <2>5, <2>6, <2>7, <2>8 DEF LocalInv, EntryCounts
<1>5. QED BY <1>1, <1>2, <1>3, <1>4 DEF LocalNext

\* The table of locks under any interleaving of registrations, bodies and settlements.
THEOREM LocalInductive == LocalSpec => []LocalInv
BY LocalStart, LocalStep, PTL DEF LocalSpec

\* _settle_entry drops an entry with its last user, and never earlier: the table holds an
\* entry exactly for the keys in use.
THEOREM TableMatchesUse == LocalSpec => []EntriesInUse
<1>1. LocalInv => EntriesInUse
  <2> SUFFICES ASSUME LocalInv, NEW k \in Keys
               PROVE  entries[k] # NoEntry <=> \E s \in LocalScopes : KeyOf[s] = k /\ Using(s)
    BY DEF EntriesInUse, Using
  <2>1. ASSUME entries[k] # NoEntry PROVE \E s \in LocalScopes : KeyOf[s] = k /\ Using(s)
    <3>1. PICK s \in LocalScopes : Using(s) /\ entry[s] = entries[k]
      BY <2>1 DEF LocalInv, EntryCounts, UsersOf
    <3>2. KeyOf[s] = k
      BY <2>1, <3>1, CoordinatorAssumption DEF LocalInv, LocalTypeOK, EntryOfKey, EntryCounts
    <3>3. QED BY <3>1, <3>2
  <2>2. QED BY <2>1 DEF LocalInv, EntryOfKey
<1>2. QED BY <1>1, LocalInductive, PTL

LEMMA LocalScopeStep ==
  LocalInv /\ [LocalNext]_localVars => [LocalExclusive!Next]_InsideLocal
<1> SUFFICES ASSUME LocalInv, [LocalNext]_localVars PROVE [LocalExclusive!Next]_InsideLocal
  OBVIOUS
<1> USE CoordinatorAssumption DEF NoEntry
<1>1. CASE UNCHANGED localVars
  BY <1>1 DEF localVars, InsideLocal
<1>2. ASSUME NEW s \in LocalScopes, Register(s) \/ CancelLocal(s) \/ SettleEntry(s)
      PROVE  InsideLocal' = InsideLocal
  BY <1>2 DEF LocalInv, LocalTypeOK, InsideLocal, Register, CancelLocal, SettleEntry, Move
<1>3. ASSUME NEW s \in LocalScopes, Acquire(s) PROVE LocalExclusive!Enter(s)
  <2>1. InsideLocal' = InsideLocal \cup {s}
    BY <1>3 DEF LocalInv, LocalTypeOK, InsideLocal, Acquire, Move
  <2>2. ASSUME NEW t \in InsideLocal, KeyOf[t] = KeyOf[s] PROVE FALSE
    <3>1. entry[t] = entry[s] /\ locked[entry[t]] = t
      BY <1>3, <2>2 DEF LocalInv, EntryOfKey, LockHeld, InsideLocal, Using, Acquire
    <3>2. QED BY <1>3, <2>2, <3>1 DEF InsideLocal, Acquire
  <2>3. QED BY <2>1, <2>2 DEF LocalExclusive!Enter
<1>4. ASSUME NEW s \in LocalScopes, Leave(s) PROVE LocalExclusive!Leave(s)
  BY <1>4 DEF LocalInv, LocalTypeOK, InsideLocal, Leave, Move, LocalExclusive!Leave
<1>5. QED BY <1>1, <1>2, <1>3, <1>4 DEF LocalNext, LocalExclusive!Next

\* InMemoryRunCoordinator keeps the promise of a RunCoordinator: the scopes of a key exclude
\* each other, although entries come and go while others wait.
THEOREM LocalRefinesExclusiveScopes == LocalSpec => LocalScopesExclusive
<1>1. LocalInit => LocalExclusive!Init
  BY DEF LocalInit, LocalExclusive!Init, InsideLocal
<1>2. QED BY <1>1, LocalScopeStep, LocalInductive, PTL
          DEF LocalSpec, LocalScopesExclusive, LocalExclusive!Spec

-----------------------------------------------------------------------------
(* The lease lock of several processes.                                     *)

\* What a scope at each place waits for, and what late commands may still do.
Waits ==
  /\ \A s \in Scopes :
       /\ call[s].kind = "acquire" => pc[s] = "acquiring"
       /\ call[s].kind = "renew" => pc[s] = "held"
       /\ call[s].kind = "release" => pc[s] \in {"releasing", "undoing"}
  /\ \A c \in stray :
       /\ c.kind = "acquire" => pc[c.scope] \in {"undoing", "done", "dead"}
       /\ c.kind = "release" => pc[c.scope] \in {"done", "dead"}

\* Tokens never exceed the fencing key, and the owner has its current value.
Tokens ==
  /\ \A s \in Scopes : told[s] <= fencing
  /\ owner # None => told[owner] = fencing
  /\ \A s, t \in Scopes : s # t /\ told[s] = told[t] => told[s] = 0
  /\ \A s \in Scopes : pc[s] = "held" => told[s] > 0
  /\ \A s \in Scopes : call[s].kind = "acquire" /\ call[s].at = "answered" /\ call[s].value > 0 => told[s] > 0

\* The types and what they rest on, step by step.
LInv == RedisLeaseTypeOK /\ Waits /\ Tokens

\* How much of its time to live the lease of a scope has left, at the least.
Timed ==
  \A s \in Scopes :
    /\ pc[s] = "held" => owner = s /\ ttl + since[s] >= Ttl - MaxReplyDelay
    /\ call[s].at = "answered" /\ call[s].kind = "acquire" /\ call[s].value > 0 =>
         owner = s /\ ttl + call[s].late >= Ttl
    /\ call[s].at = "answered" /\ call[s].kind = "renew" /\ call[s].value = 1 =>
         ttl + call[s].late >= Ttl

USE RedisLeaseAssumption, NoneAssumption DEF None

LEMMA CallTypes ==
  ASSUME RedisLeaseTypeOK, NEW s \in Scopes
  PROVE  \/ call[s] = NoCall /\ call[s].kind = None /\ call[s].at = None
         \/ /\ call[s] \in [kind : Kinds, at : {"sent", "answered"}, value : Nat, late : 0..MaxReplyDelay]
            /\ call[s].kind \in Kinds
            /\ call[s].at \in {"sent", "answered"}
            /\ call[s].value \in Nat
            /\ call[s].late \in 0..MaxReplyDelay
BY DEF RedisLeaseTypeOK, Calls, NoCall

LEMMA CallsClosed ==
  /\ NoCall \in Calls
  /\ \A k \in Kinds : Sent(k) \in Calls
BY DEF Calls, Sent

\* Every script keeps the types of Redis.
LEMMA ScriptTypes ==
  ASSUME RedisLeaseTypeOK, NEW s \in Scopes, NEW k \in Kinds, Script(s, k)
  PROVE  /\ owner' \in Scopes \cup {None}
         /\ ttl' \in 0..Ttl
         /\ fencing' \in Nat
         /\ told' \in [Scopes -> Nat]
<1>1. CASE k = "acquire" /\ AcquireScript(s)
  BY <1>1 DEF RedisLeaseTypeOK, AcquireScript, UnchangedRedis
<1>2. CASE k = "renew" /\ RenewScript(s)
  BY <1>2 DEF RedisLeaseTypeOK, RenewScript
<1>3. CASE k = "release" /\ ReleaseScript(s)
  BY <1>3 DEF RedisLeaseTypeOK, ReleaseScript
<1>4. QED BY <1>1, <1>2, <1>3 DEF Script

LEMMA TypeInit == Init => RedisLeaseTypeOK
BY CallsClosed DEF Init, RedisLeaseTypeOK

\* Each step keeps the types.
LEMMA TypeStep == RedisLeaseTypeOK /\ [Next]_vars => RedisLeaseTypeOK'
<1> SUFFICES ASSUME RedisLeaseTypeOK, [Next]_vars PROVE RedisLeaseTypeOK'
  OBVIOUS
<1> USE CallsClosed DEF RedisLeaseTypeOK
<1>1. CASE UNCHANGED vars
  BY <1>1 DEF vars
<1>2. ASSUME NEW s \in Scopes, Execute(s) PROVE RedisLeaseTypeOK'
  <2>0. call[s] \in [kind : Kinds, at : {"sent", "answered"}, value : Nat, late : 0..MaxReplyDelay]
        /\ call[s].kind \in Kinds
    BY <1>2, CallTypes DEF Execute
  <2>1. Returned(s, call[s].kind) \in Nat
    BY <2>0 DEF Returned
  <2>2. call' \in [Scopes -> Calls]
    BY <1>2, <2>0, <2>1 DEF Execute, Calls
  <2>3. QED BY <1>2, <2>0, <2>2, ScriptTypes DEF Execute, UnchangedScopes
<1>3. ASSUME NEW s \in Scopes, Hold(s) \/ Poll(s) \/ Refused(s) \/ Acquired(s) \/ CancelWaiting(s)
      PROVE RedisLeaseTypeOK'
  BY <1>3 DEF Hold, Poll, Refused, Acquired, CancelWaiting, Go, Send, Hang, UnchangedRedis, Kinds
<1>4. ASSUME NEW s \in Scopes, AcquireFails(s) \/ EndBody(s) \/ ReleaseFails(s) \/ MarkLost(s)
      PROVE RedisLeaseTypeOK'
  <2>1. stray' \subseteq [scope : Scopes, kind : Kinds]
    <3>1. Abandon(s)
      BY <1>4 DEF AcquireFails, EndBody, ReleaseFails, MarkLost
    <3>2. CASE UNCHANGED stray
      BY <3>2
    <3>3. CASE call[s].at = "sent" /\ stray' = stray \cup {[scope |-> s, kind |-> call[s].kind]}
      BY <3>3, CallTypes
    <3>4. QED BY <3>1, <3>2, <3>3 DEF Abandon
  <2>2. QED
    BY <1>4, <2>1 DEF AcquireFails, EndBody, ReleaseFails, MarkLost, Go, Send, Hang, UnchangedRedis, Kinds
<1>5. ASSUME NEW s \in Scopes, SendRenewal(s) \/ Renewed(s) \/ Released(s) PROVE RedisLeaseTypeOK'
  BY <1>5 DEF SendRenewal, Renewed, Released, Go, Send, Hang, UnchangedRedis, UnchangedScopes, Kinds
<1>6. ASSUME NEW c \in stray, ExecuteStray(c) \/ LoseStray(c) PROVE RedisLeaseTypeOK'
  BY <1>6, ScriptTypes DEF ExecuteStray, LoseStray, UnchangedRedis, UnchangedScopes
<1>7. ASSUME NEW m \in Managers, Start(m) \/ Close(m) \/ CloseClient(m) PROVE RedisLeaseTypeOK'
  BY <1>7 DEF Start, Close, CloseClient, UnchangedButManager, UnchangedRedis, UnchangedScopes
<1>8. ASSUME NEW m \in Managers, Crash(m) PROVE RedisLeaseTypeOK'
  <2>1. stray' \subseteq [scope : Scopes, kind : Kinds]
    BY <1>8, CallTypes DEF Crash, Registered
  <2>2. QED BY <1>8, <2>1 DEF Crash, UnchangedRedis
<1>9. ASSUME Tick PROVE RedisLeaseTypeOK'
  <2>1. call' \in [Scopes -> Calls]
    <3>1. ASSUME NEW s \in Scopes PROVE Older(call[s]) \in Calls
      <4>1. CASE call[s].at = "answered"
        BY <1>9, <4>1, CallTypes, SMTT(20) DEF Tick, Older, Calls
      <4>2. CASE call[s].at # "answered"
        BY <4>2 DEF Older
      <4>3. QED BY <4>1, <4>2
    <3>2. QED BY <1>9, <3>1 DEF Tick
  <2>2. since' \in [Scopes -> 0..Deadline]
    BY <1>9 DEF Tick, DeadlinePassed, Holding
  <2>3. QED BY <1>9, <2>1, <2>2 DEF Tick
<1>10. QED
  BY <1>1, <1>2, <1>3, <1>4, <1>5, <1>6, <1>7, <1>8, <1>9 DEF Next

-----------------------------------------------------------------------------
(* Commands and places.                                                     *)

LEMMA WaitsInit == Init => Waits
BY DEF Init, Waits, NoCall

LEMMA WaitsStep == RedisLeaseTypeOK /\ Waits /\ [Next]_vars => Waits'
<1> SUFFICES ASSUME RedisLeaseTypeOK, Waits, [Next]_vars PROVE Waits'
  OBVIOUS
<1> USE DEF RedisLeaseTypeOK
<1>1. CASE UNCHANGED vars
  BY <1>1 DEF vars, Waits
<1>2. ASSUME NEW s \in Scopes, Execute(s) PROVE Waits'
  BY <1>2, CallTypes DEF Execute, Waits, UnchangedScopes
<1>3. ASSUME NEW s \in Scopes, Hold(s) \/ Poll(s) \/ Refused(s) \/ Acquired(s) \/ CancelWaiting(s)
      PROVE Waits'
  BY <1>3 DEF Hold, Poll, Refused, Acquired, CancelWaiting, Go, Send, Hang, Waits, Sent, NoCall, Reply
<1>4. ASSUME NEW s \in Scopes, AcquireFails(s) PROVE Waits'
  BY <1>4, CallTypes DEF AcquireFails, Abandon, Go, Send, Waits, Sent, Kinds
<1>5. ASSUME NEW s \in Scopes, EndBody(s) PROVE Waits'
  BY <1>5, CallTypes DEF EndBody, Abandon, Go, Send, Waits, Sent, Kinds
<1>6. ASSUME NEW s \in Scopes, ReleaseFails(s) PROVE Waits'
  BY <1>6, CallTypes DEF ReleaseFails, Abandon, Go, Hang, Waits, NoCall, Kinds
<1>7. ASSUME NEW s \in Scopes, MarkLost(s) PROVE Waits'
  BY <1>7, CallTypes DEF MarkLost, Holding, Abandon, Go, Hang, Waits, NoCall, Kinds
<1>8. ASSUME NEW s \in Scopes, SendRenewal(s) \/ Renewed(s) \/ Released(s) PROVE Waits'
  BY <1>8 DEF SendRenewal, RenewalDue, Holding, Renewed, Released, Go, Send, Hang, UnchangedScopes, Waits,
              Sent, NoCall
<1>9. ASSUME NEW c \in stray, ExecuteStray(c) \/ LoseStray(c) PROVE Waits'
  BY <1>9 DEF ExecuteStray, LoseStray, UnchangedScopes, Waits
<1>10. ASSUME NEW m \in Managers, Start(m) \/ Close(m) \/ CloseClient(m) PROVE Waits'
  BY <1>10 DEF Start, Close, CloseClient, UnchangedButManager, UnchangedScopes, Waits
<1>11. ASSUME NEW m \in Managers, Crash(m) PROVE Waits'
  BY <1>11, CallTypes DEF Crash, Registered, Waits, NoCall, Kinds
<1>12. ASSUME Tick PROVE Waits'
  BY <1>12, CallTypes DEF Tick, Older, Waits
<1>13. QED
  BY <1>1, <1>2, <1>3, <1>4, <1>5, <1>6, <1>7, <1>8, <1>9, <1>10, <1>11, <1>12 DEF Next

-----------------------------------------------------------------------------
(* Fencing tokens.                                                          *)

LEMMA TokensInit == Init => Tokens
BY DEF Init, Tokens, NoCall

\* The part of Tokens that only Redis can change.
LEMMA ScriptTokens ==
  ASSUME RedisLeaseTypeOK, Tokens, NEW s \in Scopes, NEW k \in Kinds, Script(s, k)
  PROVE  /\ \A t \in Scopes : told'[t] <= fencing'
         /\ owner' # None => told'[owner'] = fencing'
         /\ \A t, u \in Scopes : t # u /\ told'[t] = told'[u] => told'[t] = 0
         /\ \A t \in Scopes : told[t] > 0 => told'[t] > 0
         /\ k = "acquire" /\ Returned(s, k) > 0 => told'[s] > 0
<1> USE DEF RedisLeaseTypeOK
<1>1. CASE k = "acquire" /\ AcquireScript(s)
  BY <1>1 DEF Tokens, AcquireScript, UnchangedRedis, Returned
<1>2. CASE k = "renew" /\ RenewScript(s)
  BY <1>2 DEF Tokens, RenewScript
<1>3. CASE k = "release" /\ ReleaseScript(s)
  BY <1>3 DEF Tokens, ReleaseScript
<1>4. QED BY <1>1, <1>2, <1>3 DEF Script

LEMMA TokensStep == RedisLeaseTypeOK /\ Waits /\ Tokens /\ [Next]_vars => Tokens'
<1> SUFFICES ASSUME RedisLeaseTypeOK, Waits, Tokens, [Next]_vars PROVE Tokens'
  OBVIOUS
<1> USE DEF RedisLeaseTypeOK
<1>1. CASE UNCHANGED vars
  BY <1>1 DEF vars, Tokens
<1>2. ASSUME NEW s \in Scopes, Execute(s) PROVE Tokens'
  <2>1. call[s].kind \in Kinds
    BY <1>2, CallTypes DEF Execute
  <2>2. pc' = pc /\ \A t \in Scopes : t # s => call'[t] = call[t]
    BY <1>2 DEF Execute, UnchangedScopes
  <2>3. call'[s].kind = call[s].kind /\ call'[s].value = Returned(s, call[s].kind)
    BY <1>2, CallTypes DEF Execute
  <2>4. QED BY <1>2, <2>1, <2>2, <2>3, ScriptTokens DEF Execute, Tokens
<1>3. ASSUME NEW s \in Scopes, Hold(s) \/ Poll(s) \/ Refused(s) \/ Acquired(s) \/ CancelWaiting(s)
      PROVE Tokens'
  BY <1>3 DEF Hold, Poll, Refused, Acquired, CancelWaiting, Go, Send, Hang, UnchangedRedis, Tokens, Sent,
              NoCall, Reply
<1>4. ASSUME NEW s \in Scopes, AcquireFails(s) \/ EndBody(s) \/ ReleaseFails(s) \/ MarkLost(s)
      PROVE Tokens'
  BY <1>4 DEF AcquireFails, EndBody, ReleaseFails, MarkLost, Go, Send, Hang, UnchangedRedis, Tokens, Sent,
              NoCall
<1>5. ASSUME NEW s \in Scopes, SendRenewal(s) \/ Renewed(s) \/ Released(s) PROVE Tokens'
  BY <1>5 DEF SendRenewal, Renewed, Released, Go, Send, Hang, UnchangedRedis, UnchangedScopes, Tokens, Sent,
              NoCall
<1>6. ASSUME NEW c \in stray, ExecuteStray(c) PROVE Tokens'
  <2>1. c.scope \in Scopes /\ c.kind \in Kinds
    OBVIOUS
  <2>2. QED BY <1>6, <2>1, ScriptTokens DEF ExecuteStray, UnchangedScopes, Tokens
<1>7. ASSUME NEW c \in stray, LoseStray(c) PROVE Tokens'
  BY <1>7 DEF LoseStray, UnchangedRedis, UnchangedScopes, Tokens
<1>8. ASSUME NEW m \in Managers, Start(m) \/ Close(m) \/ CloseClient(m) PROVE Tokens'
  BY <1>8 DEF Start, Close, CloseClient, UnchangedButManager, UnchangedRedis, UnchangedScopes, Tokens
<1>9. ASSUME NEW m \in Managers, Crash(m) PROVE Tokens'
  BY <1>9 DEF Crash, UnchangedRedis, Tokens, NoCall
<1>10. ASSUME Tick PROVE Tokens'
  BY <1>10, CallTypes DEF Tick, Older, Tokens
<1>11. QED
  BY <1>1, <1>2, <1>3, <1>4, <1>5, <1>6, <1>7, <1>8, <1>9, <1>10 DEF Next

\* The inductive invariant that holds however late replies are.
THEOREM LeaseInvariant == Spec => []LInv
<1>1. Init => LInv
  BY TypeInit, WaitsInit, TokensInit DEF LInv
<1>2. LInv /\ [Next]_vars => LInv'
  BY TypeStep, WaitsStep, TokensStep DEF LInv
<1>3. QED BY <1>1, <1>2, PTL DEF Spec

\* Every variable keeps its type: no timer of a lease exceeds its bound.
THEOREM LeaseTypeOK == Spec => []RedisLeaseTypeOK
<1>1. LInv => RedisLeaseTypeOK
  BY DEF LInv
<1>2. QED BY <1>1, LeaseInvariant, PTL

\* A body that Redis does not regard as the owner's has the smaller fencing token, for any
\* scopes and any delays.
THEOREM FencingOrdersBodies == Spec => []FencingOrder
<1>1. LInv => FencingOrder
  BY DEF LInv, RedisLeaseTypeOK, Tokens, FencingOrder, Inside, Holding
<1>2. QED BY <1>1, LeaseInvariant, PTL

-----------------------------------------------------------------------------
(* How leases and clients end.                                              *)

\* A manager has scopes only between its start and the close of its client.
ScopesNeedClient == \A m \in Managers : manager[m] \in {"new", "closed"} => Registered(m) = {}

\* A client is not closed before the last scope of its manager has ended: scopes begin at an
\* open manager only, and a crash ends them all (aclose, _register_scope).
LEMMA ClientsStep ==
  ASSUME RedisLeaseTypeOK, Waits, ScopesNeedClient, [Next]_vars
  PROVE  ScopesNeedClient'
<1> DEFINE Ended == {"idle", "done", "dead"}
           Fewer == \A s \in Scopes : pc'[s] \in Ended \/ pc[s] \notin Ended
<1>1. ASSUME Fewer, manager' = manager PROVE ScopesNeedClient'
  BY <1>1 DEF ScopesNeedClient, Registered
<1> USE DEF RedisLeaseTypeOK
<1>2. CASE UNCHANGED vars
  BY <1>2, <1>1 DEF vars
<1>3. ASSUME NEW s \in Scopes, Hold(s) PROVE ScopesNeedClient'
  BY <1>3 DEF Hold, IsOpen, Go, ScopesNeedClient, Registered
<1>4. ASSUME NEW s \in Scopes, Refused(s) \/ Acquired(s) PROVE ScopesNeedClient'
  <2>1. pc[s] = "acquiring" /\ \A t \in Scopes : t # s => pc'[t] = pc[t]
    BY <1>4 DEF Refused, Acquired, Reply, Waits, Go
  <2> QED BY <1>4, <1>1, <2>1 DEF Refused, Acquired
<1>5. ASSUME NEW s \in Scopes, Poll(s) \/ AcquireFails(s) \/ CancelWaiting(s) \/ MarkLost(s) \/ EndBody(s)
                               \/ Released(s) \/ ReleaseFails(s)
      PROVE ScopesNeedClient'
  <2>1. pc[s] \notin Ended /\ (\A t \in Scopes : t # s => pc'[t] = pc[t]) /\ manager' = manager
    BY <1>5 DEF Poll, AcquireFails, CancelWaiting, MarkLost, Holding, EndBody, Released, ReleaseFails, Go
  <2> QED BY <1>1, <2>1
<1>6. ASSUME NEW s \in Scopes, Execute(s) \/ SendRenewal(s) \/ Renewed(s) PROVE ScopesNeedClient'
  BY <1>6, <1>1 DEF Execute, SendRenewal, Renewed, UnchangedScopes
<1>7. ASSUME NEW c \in stray, ExecuteStray(c) \/ LoseStray(c) PROVE ScopesNeedClient'
  BY <1>7, <1>1 DEF ExecuteStray, LoseStray, UnchangedScopes
<1>8. ASSUME NEW m \in Managers, Start(m) PROVE ScopesNeedClient'
  BY <1>8 DEF Start, UnchangedButManager, UnchangedScopes, ScopesNeedClient, Registered
<1>9. ASSUME NEW m \in Managers, Close(m) \/ CloseClient(m) PROVE ScopesNeedClient'
  BY <1>9 DEF Close, CloseClient, UnchangedButManager, UnchangedScopes, ScopesNeedClient, Registered
<1>10. ASSUME NEW m \in Managers, Crash(m) PROVE ScopesNeedClient'
  BY <1>10 DEF Crash, ScopesNeedClient, Registered
<1>11. CASE Tick
  BY <1>11, <1>1 DEF Tick
<1> QED BY <1>2, <1>3, <1>4, <1>5, <1>6, <1>7, <1>8, <1>9, <1>10, <1>11 DEF Next

\* Scripts of other scopes, and late commands of the scope itself, leave a lease alone unless
\* the scope gives it up.
LEMMA LeaseStep ==
  ASSUME RedisLeaseTypeOK, Waits, [Next]_vars, NEW s \in Scopes, owner = s, owner' # s
  PROVE  ttl = 1 \/ pc[s] \in {"releasing", "undoing", "done", "dead"}
<1> USE DEF RedisLeaseTypeOK
<1>1. ASSUME NEW t \in Scopes, NEW k \in Kinds, Script(t, k) PROVE t = s /\ k = "release"
  BY <1>1 DEF Script, AcquireScript, RenewScript, ReleaseScript, UnchangedRedis
<1>2. ASSUME NEW t \in Scopes, Execute(t) PROVE pc[s] \in {"releasing", "undoing"}
  <2>1. call[t].kind \in Kinds /\ Script(t, call[t].kind)
    BY <1>2, CallTypes DEF Execute
  <2> QED BY <2>1, <1>1 DEF Waits
<1>3. ASSUME NEW c \in stray, ExecuteStray(c) PROVE pc[s] \in {"done", "dead"}
  <2>1. c.scope \in Scopes /\ c.kind \in Kinds /\ Script(c.scope, c.kind)
    BY <1>3 DEF ExecuteStray
  <2> QED BY <2>1, <1>1 DEF Waits
<1>4. CASE Tick
  BY <1>4 DEF Tick
<1>5. CASE owner' = owner
  BY <1>5
<1>6. ASSUME NEW t \in Scopes,
             \/ Hold(t) \/ Poll(t) \/ Refused(t) \/ Acquired(t) \/ AcquireFails(t) \/ CancelWaiting(t)
             \/ SendRenewal(t) \/ Renewed(t) \/ MarkLost(t) \/ EndBody(t) \/ Released(t) \/ ReleaseFails(t)
      PROVE  owner' = owner
  BY <1>6 DEF Hold, Poll, Refused, Acquired, AcquireFails, CancelWaiting, SendRenewal, Renewed, MarkLost, EndBody,
              Released, ReleaseFails, UnchangedRedis
<1>7. ASSUME NEW c \in stray, LoseStray(c) PROVE owner' = owner
  BY <1>7 DEF LoseStray, UnchangedRedis
<1>8. ASSUME NEW m \in Managers, Start(m) \/ Close(m) \/ CloseClient(m) \/ Crash(m) PROVE owner' = owner
  BY <1>8 DEF Start, Close, CloseClient, Crash, UnchangedButManager, UnchangedRedis
<1>9. CASE UNCHANGED vars
  BY <1>9 DEF vars
<1> QED BY <1>2, <1>3, <1>4, <1>5, <1>6, <1>7, <1>8, <1>9 DEF Next

\* The safety part of LeasesEnd: a lease ends by its own scope's release or by expiry, whatever
\* late commands arrive, and no client is closed under a scope that still has to release.
THEOREM LeasesEndAsTheyShould == Spec => []ClientOutlivesScopes /\ OwnLeaseOnly
<1> DEFINE Own == \A s \in Scopes : owner = s /\ owner' # s =>
                    ttl = 1 \/ pc[s] \in {"releasing", "undoing", "done", "dead"}
<1>1. Init => ScopesNeedClient
  BY DEF Init, ScopesNeedClient, Registered
<1>2. LInv /\ ScopesNeedClient /\ [Next]_vars => ScopesNeedClient'
  BY ClientsStep DEF LInv
<1>3. ScopesNeedClient => ClientOutlivesScopes
  BY DEF ScopesNeedClient, ClientOutlivesScopes
<1>4. LInv /\ [Next]_vars => [Own]_vars
  BY LeaseStep DEF LInv
<1>5. OwnLeaseOnly <=> [][Own]_vars
  BY DEF OwnLeaseOnly
<1> HIDE DEF Own
<1> QED BY <1>1, <1>2, <1>3, <1>4, <1>5, LeaseInvariant, PTL DEF Spec

-----------------------------------------------------------------------------
(* Exclusion, when a reply and the deadline together stay below the time to *)
(* live.                                                                    *)

Prompt == MaxReplyDelay + Deadline < Ttl

\* A script of one scope leaves the live lease of another alone.
LEMMA ScriptKeepsOthers ==
  ASSUME RedisLeaseTypeOK, NEW s \in Scopes, NEW k \in Kinds, Script(s, k), owner \in Scopes,
         owner # s \/ k # "release"
  PROVE  owner' = owner /\ ttl' >= ttl /\ ttl' \in Nat
<1> USE DEF RedisLeaseTypeOK
<1>1. CASE k = "acquire" /\ AcquireScript(s)
  BY <1>1 DEF AcquireScript, UnchangedRedis
<1>2. CASE k = "renew" /\ RenewScript(s)
  BY <1>2 DEF RenewScript
<1>3. CASE k = "release" /\ ReleaseScript(s)
  BY <1>3 DEF ReleaseScript
<1>4. QED BY <1>1, <1>2, <1>3 DEF Script

LEMMA TimedInit == Init => Timed
BY DEF Init, Timed, NoCall

LEMMA TimedStep == Prompt /\ LInv /\ Timed /\ [Next]_vars => Timed'
<1> SUFFICES ASSUME Prompt, RedisLeaseTypeOK, Waits, Tokens, Timed, [Next]_vars PROVE Timed'
  BY DEF LInv
<1> USE DEF RedisLeaseTypeOK, Prompt
<1>1. CASE UNCHANGED vars
  BY <1>1 DEF vars, Timed
<1>2. ASSUME NEW s \in Scopes, Execute(s) PROVE Timed'
  <2>1. /\ call[s].kind \in Kinds /\ call[s].late \in Nat
        /\ call[s] \in [kind : Kinds, at : {"sent", "answered"}, value : Nat, late : 0..MaxReplyDelay]
        /\ Script(s, call[s].kind)
    BY <1>2, CallTypes DEF Execute
  <2>2. call'[s].kind = call[s].kind /\ call'[s].value = Returned(s, call[s].kind) /\ call'[s].late = call[s].late
    BY <1>2, <2>1 DEF Execute
  <2>3. pc' = pc /\ since' = since /\ \A t \in Scopes : t # s => call'[t] = call[t]
    BY <1>2 DEF Execute, UnchangedScopes
  <2>4. ASSUME NEW t \in Scopes, t # s, owner = t
        PROVE  owner' = t /\ ttl' >= ttl /\ ttl' \in Nat
    BY <2>1, <2>4, ScriptKeepsOthers
  <2>5. pc[s] = "held" => call[s].kind = "renew"
    BY <2>1 DEF Waits, Kinds
  <2>6. call[s].kind = "renew" => owner' = owner /\ ttl' = IF owner = s THEN Ttl ELSE ttl
    BY <2>1 DEF Script, RenewScript
  <2>7. call[s].kind = "acquire" /\ Returned(s, "acquire") > 0 => owner' = s /\ ttl' = Ttl
    BY <2>1 DEF Script, AcquireScript, Returned
  <2>8. call[s].kind = "renew" /\ Returned(s, "renew") = 1 => owner = s
    BY DEF Returned
  <2>9. ASSUME NEW t \in Scopes
        PROVE  pc'[t] = "held" => owner' = t /\ ttl' + since'[t] >= Ttl - MaxReplyDelay
    <3>1. CASE t = s
      BY <2>3, <2>5, <2>6, <3>1 DEF Timed
    <3>2. CASE t # s
      BY <2>3, <2>4, <3>2 DEF Timed
    <3>3. QED BY <3>1, <3>2
  <2>10. ASSUME NEW t \in Scopes, call'[t].at = "answered", call'[t].kind = "acquire", call'[t].value > 0
         PROVE  owner' = t /\ ttl' + call'[t].late >= Ttl
    <3>1. CASE t = s
      BY <2>1, <2>2, <2>7, <2>10, <3>1
    <3>2. CASE t # s
      <4>1. call'[t] = call[t] /\ call[t].late \in Nat
        BY <2>3, <2>10, <3>2, CallTypes
      <4>2. QED BY <2>4, <2>10, <3>2, <4>1 DEF Timed
    <3>3. QED BY <3>1, <3>2
  <2>11. ASSUME NEW t \in Scopes, call'[t].at = "answered", call'[t].kind = "renew", call'[t].value = 1
         PROVE  ttl' + call'[t].late >= Ttl
    <3>1. CASE t = s
      BY <2>1, <2>2, <2>6, <2>8, <2>11, <3>1
    <3>2. CASE t # s
      <4>1. call'[t] = call[t] /\ call[t].late \in Nat /\ pc[t] = "held"
        BY <2>3, <2>11, <3>2, CallTypes DEF Waits
      <4>2. QED BY <2>4, <2>11, <3>2, <4>1 DEF Timed
    <3>3. QED BY <3>1, <3>2
  <2>12. QED BY <2>9, <2>10, <2>11 DEF Timed
<1>3. ASSUME NEW s \in Scopes, Hold(s) \/ Poll(s) \/ Refused(s) \/ CancelWaiting(s) PROVE Timed'
  BY <1>3 DEF Hold, Poll, Refused, CancelWaiting, Go, Send, Hang, UnchangedRedis, Timed, Sent, NoCall
<1>4. ASSUME NEW s \in Scopes, Acquired(s) PROVE Timed'
  <2>1. owner = s /\ ttl >= Ttl - MaxReplyDelay
    BY <1>4, CallTypes DEF Acquired, Reply, Timed
  <2>2. QED
    BY <1>4, <2>1 DEF Acquired, Go, Send, Hang, UnchangedRedis, Timed, Sent, NoCall
<1>5. ASSUME NEW s \in Scopes, AcquireFails(s) \/ EndBody(s) \/ ReleaseFails(s) \/ MarkLost(s)
      PROVE Timed'
  BY <1>5 DEF AcquireFails, EndBody, ReleaseFails, MarkLost, Go, Send, Hang, UnchangedRedis, Timed, Sent,
              NoCall
<1>6. ASSUME NEW s \in Scopes, SendRenewal(s) \/ Released(s) PROVE Timed'
  BY <1>6 DEF SendRenewal, Released, Go, Send, Hang, UnchangedRedis, UnchangedScopes, Timed, Sent, NoCall
<1>7. ASSUME NEW s \in Scopes, Renewed(s) PROVE Timed'
  <2>1. owner = s /\ ttl >= Ttl - MaxReplyDelay
    BY <1>7, CallTypes DEF Renewed, Holding, Reply, Timed
  <2>2. QED BY <1>7, <2>1 DEF Renewed, Hang, UnchangedRedis, Timed, NoCall
<1>8. ASSUME NEW c \in stray, ExecuteStray(c) PROVE Timed'
  <2>1. c.scope \in Scopes /\ c.kind \in Kinds /\ Script(c.scope, c.kind)
    BY <1>8 DEF ExecuteStray
  <2>2. pc' = pc /\ since' = since /\ call' = call
    BY <1>8 DEF ExecuteStray, UnchangedScopes
  <2>3. ASSUME NEW t \in Scopes, owner = t, pc[t] \in {"held", "acquiring"}
        PROVE  owner' = t /\ ttl' >= ttl /\ ttl' \in Nat
    <3>1. t # c.scope \/ c.kind # "release"
      BY <2>3 DEF Waits
    <3>2. QED BY <2>1, <2>3, <3>1, ScriptKeepsOthers
  <2>4. ASSUME NEW t \in Scopes
        PROVE  /\ call[t].kind = "acquire" => pc[t] = "acquiring"
               /\ call[t].kind = "renew" => pc[t] = "held"
               /\ call[t].kind # None => call[t].late \in Nat
    BY CallTypes DEF Waits
  <2>5. QED BY <2>2, <2>3, <2>4 DEF Timed
<1>9. ASSUME NEW c \in stray, LoseStray(c) PROVE Timed'
  BY <1>9 DEF LoseStray, UnchangedRedis, UnchangedScopes, Timed
<1>10. ASSUME NEW m \in Managers, Start(m) \/ Close(m) \/ CloseClient(m) PROVE Timed'
  BY <1>10 DEF Start, Close, CloseClient, UnchangedButManager, UnchangedRedis, UnchangedScopes, Timed
<1>11. ASSUME NEW m \in Managers, Crash(m) PROVE Timed'
  BY <1>11 DEF Crash, Registered, UnchangedRedis, Timed, NoCall
<1>12. ASSUME Tick PROVE Timed'
  <2>1. ASSUME NEW t \in Scopes, pc[t] = "held"
        PROVE  owner' = t /\ ttl' + since'[t] >= Ttl - MaxReplyDelay
    <3>1. owner = t /\ ttl + since[t] >= Ttl - MaxReplyDelay /\ since[t] < Deadline
      BY <1>12, <2>1 DEF Timed, Tick, Holding, DeadlinePassed
    <3>2. ttl > 1
      BY <3>1
    <3>3. QED BY <1>12, <2>1, <3>1, <3>2 DEF Tick, Holding
  <2>2. ASSUME NEW t \in Scopes, call'[t].at = "answered"
        PROVE  /\ call[t].at = "answered" /\ call'[t].kind = call[t].kind /\ call'[t].value = call[t].value
               /\ call[t].late \in Nat /\ call'[t].late = call[t].late + 1
               /\ call[t].late < MaxReplyDelay
    BY <1>12, <2>2, CallTypes DEF Tick, Older
  <2>3. \A t \in Scopes : call'[t].at = "answered" /\ call'[t].kind = "acquire" /\ call'[t].value > 0 =>
          owner' = t /\ ttl' + call'[t].late >= Ttl
    BY <1>12, <2>2 DEF Timed, Tick
  <2>4. \A t \in Scopes : call'[t].at = "answered" /\ call'[t].kind = "renew" /\ call'[t].value = 1 =>
          ttl' + call'[t].late >= Ttl
    BY <1>12, <2>2 DEF Timed, Tick
  <2>5. QED BY <1>12, <2>1, <2>3, <2>4 DEF Timed, Tick
<1>13. QED
  BY <1>1, <1>2, <1>3, <1>4, <1>5, <1>6, <1>7, <1>8, <1>9, <1>10, <1>11, <1>12 DEF Next

\* Under prompt replies a holding scope is the owner of an unexpired lease.
THEOREM LeaseTimes == Prompt => (Spec => [](LInv /\ Timed))
<1> SUFFICES ASSUME Prompt PROVE Spec => [](LInv /\ Timed)
  OBVIOUS
<1>1. Init => LInv /\ Timed
  BY TypeInit, WaitsInit, TokensInit, TimedInit DEF LInv
<1>2. LInv /\ Timed /\ [Next]_vars => (LInv /\ Timed)'
  BY TypeStep, WaitsStep, TokensStep, TimedStep DEF LInv
<1>3. QED BY <1>1, <1>2, PTL DEF Spec

\* No two bodies of one key run at a time, for any scopes and times with prompt replies.
THEOREM LeaseExclusive == Prompt => (Spec => []Exclusive)
<1> SUFFICES ASSUME Prompt PROVE Spec => []Exclusive
  OBVIOUS
<1>1. LInv /\ Timed => Exclusive
  BY DEF Timed, Exclusive, Inside, Holding
<1>2. QED BY <1>1, LeaseTimes, PTL

\* Each step of the lease lock enters or leaves one exclusive scope, or none.
LEMMA ExclusiveStep ==
  Prompt /\ LInv /\ Timed /\ [Next]_vars => [ExclusiveSpec!Next]_Inside
<1> SUFFICES ASSUME Prompt, RedisLeaseTypeOK, Waits, Timed, [Next]_vars
             PROVE  ExclusiveSpec!Next \/ Inside' = Inside
  BY DEF LInv
<1> USE DEF RedisLeaseTypeOK, Inside, Holding
<1>1. CASE UNCHANGED vars
  BY <1>1 DEF vars
<1>2. ASSUME NEW s \in Scopes, Acquired(s) PROVE ExclusiveSpec!Next \/ Inside' = Inside
  <2>1. owner = s /\ pc[s] = "acquiring"
    BY <1>2, CallTypes DEF Acquired, Reply, Timed, Waits
  <2>2. Inside = {}
    BY <2>1 DEF Timed
  <2>3. CASE IsOpen(s)
    <3>1. Inside' = Inside \cup {s}
      BY <1>2, <2>3 DEF Acquired, Go
    <3>2. QED BY <2>2, <3>1 DEF ExclusiveSpec!Next, ExclusiveSpec!Enter
  <2>4. CASE ~IsOpen(s)
    BY <1>2, <2>1, <2>4 DEF Acquired, Go
  <2>5. QED BY <2>3, <2>4
<1>3. ASSUME NEW s \in Scopes, EndBody(s) \/ MarkLost(s) PROVE ExclusiveSpec!Next \/ Inside' = Inside
  <2>1. Inside' = Inside \ {s}
    BY <1>3 DEF EndBody, MarkLost, Go
  <2>2. QED BY <2>1 DEF ExclusiveSpec!Next, ExclusiveSpec!Leave
<1>4. ASSUME NEW s \in Scopes, Hold(s) \/ Poll(s) \/ Refused(s) \/ CancelWaiting(s) \/ AcquireFails(s)
                             \/ ReleaseFails(s) \/ Released(s)
      PROVE Inside' = Inside
  BY <1>4 DEF Hold, Poll, Refused, CancelWaiting, AcquireFails, ReleaseFails, Released, Go, Reply, Waits
<1>5. ASSUME NEW s \in Scopes, Execute(s) \/ SendRenewal(s) \/ Renewed(s) PROVE Inside' = Inside
  BY <1>5 DEF Execute, SendRenewal, Renewed, UnchangedScopes
<1>6. ASSUME NEW c \in stray, ExecuteStray(c) \/ LoseStray(c) PROVE Inside' = Inside
  BY <1>6 DEF ExecuteStray, LoseStray, UnchangedScopes
<1>7. ASSUME NEW m \in Managers, Start(m) \/ Close(m) \/ CloseClient(m) PROVE Inside' = Inside
  BY <1>7 DEF Start, Close, CloseClient, UnchangedButManager, UnchangedScopes
<1>8. ASSUME NEW m \in Managers, Crash(m) PROVE ExclusiveSpec!Next \/ Inside' = Inside
  <2>1. \A s, t \in Inside : s = t
    BY DEF Timed
  <2>2. CASE Inside' = Inside
    BY <2>2
  <2>3. CASE Inside' # Inside
    <3>1. Inside' \subseteq Inside
      BY <1>8 DEF Crash
    <3>2. PICK s \in Inside : s \notin Inside'
      BY <2>3, <3>1
    <3>3. Inside' = Inside \ {s}
      BY <2>1, <3>1, <3>2
    <3>4. QED BY <3>2, <3>3 DEF ExclusiveSpec!Next, ExclusiveSpec!Leave
  <2>4. QED BY <2>2, <2>3
<1>9. ASSUME Tick PROVE Inside' = Inside
  BY <1>9 DEF Tick
<1>10. QED
  BY <1>1, <1>2, <1>3, <1>4, <1>5, <1>6, <1>7, <1>8, <1>9 DEF Next

\* With prompt replies the lease lock implements the scope that a coordinator promises, for
\* any scopes, managers and times.
THEOREM LeaseRefinesExclusiveScopes == Prompt => (Spec => ImplementsExclusiveScopes)
<1> SUFFICES ASSUME Prompt PROVE Spec => ImplementsExclusiveScopes
  OBVIOUS
<1>1. Init => ExclusiveSpec!Init
  BY DEF Init, ExclusiveSpec!Init, Inside, Holding
<1>2. LInv /\ Timed /\ [Next]_vars => [ExclusiveSpec!Next]_Inside
  BY ExclusiveStep
<1>3. QED BY <1>1, <1>2, LeaseTimes, PTL DEF Spec, ImplementsExclusiveScopes, ExclusiveSpec!Spec
=============================================================================
