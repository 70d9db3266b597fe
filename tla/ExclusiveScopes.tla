--------------------------- MODULE ExclusiveScopes ---------------------------
(***************************************************************************)
(* What a RunCoordinator promises: "one asynchronous exclusive scope" for  *)
(* the runs that share a key (coordination.py).  A scope that its owner    *)
(* has been told is lost counts as left, although its task still cleans up.*)
(***************************************************************************)
CONSTANTS Scopes, KeyOf  \* entries of scopes, and the key of each

VARIABLE inside  \* scopes whose body may run

Init == inside = {}

Enter(s) ==
  /\ \A t \in inside : KeyOf[t] # KeyOf[s]
  /\ inside' = inside \cup {s}

Leave(s) ==
  /\ s \in inside
  /\ inside' = inside \ {s}

Next == \E s \in Scopes : Enter(s) \/ Leave(s)

Spec == Init /\ [][Next]_inside
=============================================================================
