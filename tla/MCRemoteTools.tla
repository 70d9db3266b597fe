---------------------------- MODULE MCRemoteTools ----------------------------
(***************************************************************************)
(* A coordinator, two worker processes and two sessions.  A behaviour      *)
(* keeps to one scene, a bound on who takes part and on what goes wrong:   *)
(* two processes on one ledger, one operation moved between two sessions,  *)
(* or a host that revokes and maintains a worker that takes an upload.     *)
(***************************************************************************)
EXTENDS RemoteTools, TLC

CONSTANTS plain, upload   \* operations, without and with a chunk

VARIABLE scene

Scene(workers, sessions, operations, patient, callCount, faultCount, outputs, host) ==
  [workers |-> workers, sessions |-> sessions, operations |-> operations, patient |-> patient,
   calls |-> callCount, faults |-> faultCount, outputs |-> outputs, host |-> host]

\* Two processes, with a fault or with output; an operation that is called again with a fault,
\* by a host that maintains the worker or from another session; a host and a fault.
Scenes ==
  {Scene(Workers, {s}, {plain}, {}, 1, 1, 0, FALSE) : s \in Sessions}
  \cup {Scene(Workers, {s}, {plain}, {}, 1, 0, 1, FALSE) : s \in Sessions}
  \cup {Scene({p}, {s}, {upload}, {}, 2, 1, 0, FALSE) : p \in Workers, s \in Sessions}
  \cup {Scene({p}, {s}, {upload}, {}, 2, 0, 0, TRUE) : p \in Workers, s \in Sessions}
  \cup {Scene({p}, {s}, {upload}, {}, 1, 1, 0, TRUE) : p \in Workers, s \in Sessions}
  \cup {Scene({p}, Sessions, {upload}, {upload}, 2, 0, 0, FALSE) : p \in Workers}

\* The two operations together, nothing else; or one of them, a fault and maintenance.
ProgressScenes ==
  {Scene(Workers, Sessions, Operations, Operations, 1, 0, 0, FALSE),
   Scene(Workers, Sessions, {upload}, {}, 1, 1, 0, TRUE)}

TakesNoPart(p) ==
  up[p] = "up" /\ server # p /\ maintain[p] = None /\ Running(p) = {} /\ \A s \in Sessions : borrow[p][s] = None

\* Another session is opened after the first call, by the run that will repeat it.
SecondSession ==
  (\A s \in Sessions : coord.sess[s] # None) =>
    \E o \in scene.operations : calls[o] >= 1 /\ (calls[o] = 1 => caller[o] = "idle")

\* Callers of a patient operation do not stop; without faults every workspace is prepared.
InScene ==
  /\ \A p \in Workers \ scene.workers : TakesNoPart(p)
  /\ \A s \in Sessions \ scene.sessions : coord.sess[s] = None
  /\ Cardinality(scene.sessions) > 1 => SecondSession
  /\ \A o \in Operations : calls[o] <= IF o \in scene.operations THEN scene.calls ELSE 0
  /\ \A o \in scene.patient : Cancel(o) \notin {coord.commands[i].command : i \in DOMAIN coord.commands}
  /\ faults <= scene.faults
  /\ scene.faults = 0 => \A p \in Workers, s \in Sessions : borrow[p][s] # "failed"
  /\ \A o \in Operations : Len(SelectSeq(worker.op[o].events, LAMBDA e : e = "output")) <= scene.outputs
  /\ ~scene.host => ~coord.revoked /\ \A p \in Workers : maintain[p] = None

MCInit == Init /\ scene \in Scenes
MCNext == Next /\ UNCHANGED scene /\ InScene'
MCSpec == MCInit /\ [][MCNext]_<<vars, scene>>

MCProgressInit == Init /\ scene \in ProgressScenes
MCFairSpec == MCProgressInit /\ [][MCNext]_<<vars, scene>> /\ Fairness

\* Worker processes and sessions are interchangeable.
MCSymmetry == Permutations(Workers) \cup Permutations(Sessions)
=============================================================================
