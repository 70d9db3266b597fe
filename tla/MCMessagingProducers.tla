------------------------ MODULE MCMessagingProducers ------------------------
(***************************************************************************)
(* Producers and followers of one thread.  A run with a source of two      *)
(* messages is produced, taken over, cancelled and followed; the bounds    *)
(* keep two producers at once, a follower, and a second run behind the     *)
(* followed one apart.                                                     *)
(***************************************************************************)
EXTENDS MessagingProducers, TLC

CONSTANTS ra, rb, p1, p2, f1

MCSourceIds == Runs \X (0..SourceLength)

Undisturbed(p) == prod[p].status # "failed" /\ prod[p].settle # "error"

\* The second producer takes a run over that nobody follows.
SecondProducer ==
  prod[p2].pc # "off" => follower[f1].pc = "off" /\ ~Exists(rb) /\ Undisturbed(p2)

\* The second run follows the one that is being read, which ended early.
SecondRun ==
  Exists(rb) =>
    /\ Final(ra) /\ run[ra].fence = 1 /\ run[ra].end - run[ra].start <= 1
    /\ follower[f1].run = ra
    /\ ~run[rb].cancellable /\ ~run[rb].recoverable
    /\ prod[p1].run # ra /\ Undisturbed(p1)

MCSpec ==
  /\ ProducersInit
  /\ [][ProducersNext /\ SecondProducer' /\ SecondRun']_allVars
  /\ ProducersFairness
=============================================================================
