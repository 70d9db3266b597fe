------------------------------ MODULE MCSandbox ------------------------------
(***************************************************************************)
(* The two halves of the sandbox lifecycle, one at a time: which sandbox   *)
(* an owner has, and whether it may be used.  The half is chosen in the    *)
(* initial state, the variables of the other stay as they are.  The second *)
(* half is seen twice: short, with every operation in every manager, and   *)
(* longer, when one manager alone pauses and resumes.                      *)
(***************************************************************************)
EXTENDS SandboxOwnership, SandboxAvailability, TLC

CONSTANTS
  MaxActive,    \* bound: operations, maintenance passes and polls that run at a time
  MaxEffort,    \* bound: sandboxes, faults and twice the owners together
  MaxTrouble    \* bound: changes of the intent and twice the mishaps together

VARIABLE half   \* "ownership", "availability", or the manager that pauses and resumes

vars == <<half, sandboxVars, availabilityVars>>

OwnershipActive ==
  Cardinality({m \in Managers : task[m] # NoTask}) + Cardinality({m \in Managers : fill[m] # NoJob})
  + Cardinality({m \in Managers : drain[m] # NoJob})

\* One owner with two sandboxes and two faults, or with three and one; or two owners with
\* two sandboxes, or with one and a fault; one of each less while two are active.
Effort ==
  Cardinality({s \in Sandboxes : remote[s] # "unused"}) + faults
  + 2 * Cardinality({o \in Owners : owner[o] # EmptyRow})

AvailabilityActive ==
  Cardinality({h \in Holders : op[h] # NoOp}) + Cardinality({h \in Holders : sync[h] # NoSync})

\* Long enough to pause and resume, and to drain again and give up, while another manager
\* misses any of it.
LongStory ==
  /\ \A h \in Holders :
       alive[h] /\ op[h].kind \in {"none"} \cup IF h = half THEN {"pause", "resume"} ELSE {"get", "refresh"}
  /\ mishaps = 0 \/ (mishaps = 1 /\ avail.sequence > 4)

MCInit ==
  /\ half \in {"ownership", "availability"} \cup Holders
  /\ OwnershipInit /\ AvailabilityInit

MCNext ==
  \/ /\ half = "ownership"
     /\ OwnershipNext
     /\ OwnershipActive' <= MaxActive
     /\ Effort' <= MaxEffort /\ OwnershipActive' + Effort' <= MaxEffort + 1
     /\ UNCHANGED <<half, availabilityVars>>
  \/ /\ half # "ownership"
     /\ AvailabilityNext /\ UNCHANGED <<half, sandboxVars>>
     /\ AvailabilityActive' <= MaxActive
     /\ IF half = "availability" THEN avail'.sequence + 2 * mishaps' <= MaxTrouble ELSE LongStory'

MCSpec == MCInit /\ [][MCNext]_vars

MCSymmetry == Permutations(Managers) \cup Permutations(Owners) \cup Permutations(Sandboxes)
=============================================================================
