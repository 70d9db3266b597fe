-------------------------- MODULE MCAutomationStore --------------------------
(***************************************************************************)
(* The two halves of the Automation Store on small instances: three        *)
(* executions in two scopes, and the receipts of commands that share       *)
(* tasks, revisions and a request ID.  They touch disjoint state, so a     *)
(* behaviour is about one of them.                                         *)
(***************************************************************************)
EXTENDS AutomationStore, CommandReceipts, TLC

CONSTANTS e1, e2, e3, t1

MCTasks == {t1}
MCScopeOf == (e1 :> t1) @@ (e2 :> t1) @@ (e3 :> Owner)

Create(q, s) == [kind |-> "create", req |-> q, name |-> "A", input |-> "x", space |-> s]
Update(q, r, n, i) == [kind |-> "update", req |-> q, task |-> 1, rev |-> r, name |-> n, input |-> i]
Pause(q, r) == [kind |-> "pause", req |-> q, task |-> 1, rev |-> r]
Delete(q, r) == [kind |-> "delete", req |-> q, task |-> 1, rev |-> r]

MCCommands ==
  {Create("q1", Lazy), Create("q2", "s"), Update("q2", 1, "B", Keep), Update("q3", 2, Keep, "y"),
   Update("q4", 2, "C", Keep), Pause("q2", 1), Delete("q4", 2), Delete("q3", 3)}

MCSymmetry == Permutations(Attempts)

VARIABLE half  \* the half that the behaviour is about

MCInit ==
  /\ Init /\ ReceiptsInit
  /\ \/ half = "receipts"
     \/ half = "executions" /\ policy = "s"
MCNext ==
  /\ \/ half = "executions" /\ Next /\ UNCHANGED receiptsVars
     \/ half = "receipts" /\ ReceiptsNext /\ UNCHANGED vars
  /\ UNCHANGED half
MCSpec == MCInit /\ [][MCNext]_<<half, vars, receiptsVars>>
==============================================================================
