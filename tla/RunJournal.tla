----------------------------- MODULE RunJournal -----------------------------
(***************************************************************************)
(* What a Messaging thread promises those who follow it: at any time at    *)
(* most one run is open, only the open run's journal grows, an outcome is  *)
(* never revised, and nothing that was journalled disappears before the    *)
(* whole era is sealed.  A new era starts from an empty journal.           *)
(***************************************************************************)
EXTENDS Naturals, Sequences

CONSTANTS Runs, Outcomes

VARIABLES
  era,      \* number of the current era
  sealed,   \* the era is being erased, or there is none
  journal,  \* the run of each message, in order
  state     \* run -> "absent", "open" or its outcome

journalVars == <<era, sealed, journal, state>>

Opened == {r \in Runs : state[r] = "open"}

JournalInit ==
  /\ era = 0
  /\ sealed = TRUE
  /\ journal = <<>>
  /\ state = [r \in Runs |-> "absent"]

StartEra(r) ==
  /\ sealed
  /\ journal = <<>>
  /\ \A q \in Runs : state[q] = "absent"
  /\ era' = era + 1
  /\ sealed' = FALSE
  /\ journal' = <<>>
  /\ state' = [state EXCEPT ![r] = "open"]

\* A run that is still open when the next one opens has lost its producer.
OpenRun(r) ==
  /\ ~sealed
  /\ state[r] = "absent"
  /\ state' = [q \in Runs |-> IF q = r THEN "open"
                              ELSE IF q \in Opened THEN "owner_lost" ELSE state[q]]
  /\ UNCHANGED <<era, sealed, journal>>

Write(r) ==
  /\ ~sealed
  /\ Opened = {r}
  /\ journal' = Append(journal, r)
  /\ UNCHANGED <<era, sealed, state>>

Close(r, outcome) ==
  /\ ~sealed
  /\ r \in Opened
  /\ state' = [state EXCEPT ![r] = outcome]
  /\ UNCHANGED <<era, sealed, journal>>

Seal ==
  /\ ~sealed
  /\ sealed' = TRUE
  /\ state' = [q \in Runs |-> IF q \in Opened THEN "owner_lost" ELSE state[q]]
  /\ UNCHANGED <<era, journal>>

Erase ==
  /\ sealed
  /\ \E n \in 0..Len(journal) : journal' = SubSeq(journal, n + 1, Len(journal))
  /\ \E gone \in SUBSET Runs :
       state' = [q \in Runs |-> IF q \in gone THEN "absent" ELSE state[q]]
  /\ UNCHANGED <<era, sealed>>

JournalNext ==
  \/ \E r \in Runs :
       \/ StartEra(r)
       \/ OpenRun(r)
       \/ Write(r)
       \/ \E outcome \in Outcomes : Close(r, outcome)
  \/ Seal
  \/ Erase

JournalSpec == JournalInit /\ [][JournalNext]_journalVars
=============================================================================
