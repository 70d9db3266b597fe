-------------------------- MODULE LocalCoordinator --------------------------
(***************************************************************************)
(* InMemoryRunCoordinator (coordination.py): a table of reference-counted  *)
(* locks, one per key in use.  A scope registers, waits for the lock of    *)
(* its entry, and is settled by a task of its own after its body, when     *)
(* others have registered, waited or been cancelled meanwhile.             *)
(***************************************************************************)
EXTENDS Naturals, FiniteSets

CONSTANTS LocalScopes, Keys, KeyOf

ASSUME CoordinatorAssumption == KeyOf \in [LocalScopes -> Keys] /\ 0 \notin LocalScopes

NoEntry == 0

VARIABLES
  entries,  \* key -> entry, named by the scope that made it, or NoEntry
  users,    \* entry -> users
  locked,   \* entry -> scope that has its lock, or NoEntry
  entry,    \* scope -> entry it registered at
  at        \* scope -> idle, waiting, inside, settling, done

localVars == <<entries, users, locked, entry, at>>

LocalInit ==
  /\ entries = [k \in Keys |-> NoEntry]
  /\ users = [e \in LocalScopes |-> 0]
  /\ locked = [e \in LocalScopes |-> NoEntry]
  /\ entry = [s \in LocalScopes |-> NoEntry]
  /\ at = [s \in LocalScopes |-> "idle"]

Move(s, to) == at' = [at EXCEPT ![s] = to]

\* Under _entries_lock: find or make the entry, and count as a user of it.
Register(s) ==
  LET e == IF entries[KeyOf[s]] = NoEntry THEN s ELSE entries[KeyOf[s]]
  IN /\ at[s] = "idle"
     /\ entries' = [entries EXCEPT ![KeyOf[s]] = e]
     /\ users' = [users EXCEPT ![e] = @ + 1]
     /\ entry' = [entry EXCEPT ![s] = e]
     /\ Move(s, "waiting")
     /\ UNCHANGED locked

\* Faulty variant: the lock is not waited for.
AcquireUnlocked(s) ==
  /\ at[s] = "waiting"
  /\ locked' = [locked EXCEPT ![entry[s]] = s]
  /\ Move(s, "inside")
  /\ UNCHANGED <<entries, users, entry>>

\* asyncio.Lock: one owner at a time; the order of waiters is left open.
Acquire(s) ==
  /\ at[s] = "waiting"
  /\ locked[entry[s]] = NoEntry
  /\ locked' = [locked EXCEPT ![entry[s]] = s]
  /\ Move(s, "inside")
  /\ UNCHANGED <<entries, users, entry>>

CancelLocal(s) ==
  /\ at[s] = "waiting"
  /\ Move(s, "settling")
  /\ UNCHANGED <<entries, users, locked, entry>>

\* Faulty variant: the lock is kept when the body ends.
LeaveLocked(s) ==
  /\ at[s] = "inside"
  /\ Move(s, "settling")
  /\ UNCHANGED <<entries, users, locked, entry>>

\* The body ends or is cancelled: the lock is free before the entry is settled.
Leave(s) ==
  /\ at[s] = "inside"
  /\ locked' = [locked EXCEPT ![entry[s]] = NoEntry]
  /\ Move(s, "settling")
  /\ UNCHANGED <<entries, users, entry>>

\* Faulty variant: the entry is dropped with its first user.
PopsEntryUncounted(s) == entries[KeyOf[s]] = entry[s] /\ locked[entry[s]] = NoEntry

PopsEntry(s) == users[entry[s]] = 1 /\ entries[KeyOf[s]] = entry[s]

\* _settle_entry, under _entries_lock.
SettleEntry(s) ==
  /\ at[s] = "settling"
  /\ users' = [users EXCEPT ![entry[s]] = @ - 1]
  /\ entries' = IF PopsEntry(s) THEN [entries EXCEPT ![KeyOf[s]] = NoEntry] ELSE entries
  /\ Move(s, "done")
  /\ UNCHANGED <<locked, entry>>

LocalNext ==
  \E s \in LocalScopes : Register(s) \/ Acquire(s) \/ CancelLocal(s) \/ Leave(s) \/ SettleEntry(s)

LocalSpec == LocalInit /\ [][LocalNext]_localVars
LocalFairness == \A s \in LocalScopes : WF_localVars(Acquire(s)) /\ WF_localVars(Leave(s)) /\ WF_localVars(SettleEntry(s))

-----------------------------------------------------------------------------

InsideLocal == {s \in LocalScopes : at[s] = "inside"}

LocalExclusive == INSTANCE ExclusiveScopes WITH Scopes <- LocalScopes, inside <- InsideLocal

\* The scopes of each key take turns: the entry that a scope waits at stays the entry of
\* its key until the last user has gone.
LocalScopesExclusive == LocalExclusive!Spec

\* The table holds an entry exactly for the keys in use.
EntriesInUse ==
  \A k \in Keys :
    entries[k] # NoEntry <=> \E s \in LocalScopes : KeyOf[s] = k /\ at[s] \in {"waiting", "inside", "settling"}

\* A waiting scope gets its turn or is cancelled: nobody is left at a lock that nobody frees.
TurnComes == \A s \in LocalScopes : at[s] = "waiting" ~> at[s] # "waiting"
=============================================================================
