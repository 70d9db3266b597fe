----------------------------- MODULE Schedules -----------------------------
(***************************************************************************)
(* The schedule arithmetic of schedules.py: the next run after an instant, *)
(* and what a wakeup materializes under a misfire policy.                  *)
(*                                                                         *)
(* An instant is a natural number, one unit being the microsecond by which *)
(* the code steps over a boundary.  A cron expression in its timezone is   *)
(* the set of UTC instants that it selects.                                *)
(***************************************************************************)
EXTENDS Integers, Sequences, SequencesExt

None == -1
Modes == {"skip", "latest", "catch_up"}

Once(at, from, until) ==
  [kind |-> "once", at |-> at, every |-> 0, instants |-> {}, from |-> from, until |-> until]
Interval(start, every, from, until) ==
  [kind |-> "interval", at |-> start, every |-> every, instants |-> {}, from |-> from,
   until |-> until]
Cron(instants, from, until) ==
  [kind |-> "cron", at |-> 0, every |-> 0, instants |-> instants, from |-> from, until |-> until]

\* What the validators of the schedule and policy models accept.
WellFormed(s) ==
  /\ s.kind \in {"once", "interval", "cron"}
  /\ s.at \in Nat /\ s.every \in Nat /\ (s.kind = "interval" => s.every > 0)
  /\ s.instants \subseteq Nat
  /\ {s.from, s.until} \subseteq Nat \cup {None}
  /\ s.from # None /\ s.until # None => s.from < s.until

ValidPolicy(p) ==
  p.mode \in Modes /\ p.grace \in Nat /\ p.window \in Nat \ {0} /\ p.maxCatchUp \in Nat \ {0}

\* The meaning of a schedule: the instants it selects, its active period aside and within
\* it, and those up to a horizon.
Fits(s, x) ==
  CASE s.kind = "once" -> x = s.at
    [] s.kind = "interval" -> \E k \in 0..x : x = s.at + k * s.every
    [] s.kind = "cron" -> x \in s.instants

Selects(s, x) ==
  /\ Fits(s, x)
  /\ s.from # None => x >= s.from
  /\ s.until # None => x < s.until

Occurrences(s, horizon) == {x \in 0..horizon : Selects(s, x)}

Larger(a, b) == IF a >= b THEN a ELSE b
Smaller(a, b) == IF a <= b THEN a ELSE b

\* _next_occurrence: the first instant after `after`, the active period aside.
NextOccurrence(s, after) ==
  CASE s.kind = "once" -> IF s.at > after THEN s.at ELSE None
    [] s.kind = "interval" ->
         IF after < s.at THEN s.at
         ELSE s.at + Larger(1, (after - s.at) \div s.every + 1) * s.every
    [] s.kind = "cron" ->
         LET later == {x \in s.instants : x > after}
         IN  IF later = {} THEN None ELSE Min(later)

NextRunAfter(s, after) ==
  LET bound == IF s.from # None /\ after < s.from THEN s.from - 1 ELSE after
      candidate == NextOccurrence(s, bound)
  IN  IF s.until # None /\ after >= s.until THEN None
      ELSE IF s.until # None /\ candidate >= s.until THEN None
      ELSE candidate

\* The instants from `cursor` on, each the next run after the one before.
RunsUntil(s, cursor, now) ==
  LET scan[c \in (cursor - 1)..now] ==
        LET candidate == NextRunAfter(s, c)
        IN  IF candidate = None \/ candidate > now THEN <<>>
            ELSE <<candidate>> \o scan[candidate]
  IN  scan[cursor - 1]

LatestIntervalDue(s, first, now) == first + Larger(0, (now - first) \div s.every) * s.every

\* The missed runs that the policy keeps.
Due(s, first, now, policy) ==
  LET window == now - policy.window
      last == IF s.until = None THEN now ELSE Smaller(now, s.until - 1)
      latest == LatestIntervalDue(s, first, last)
      missed == RunsUntil(s, Larger(first, window), now)
  IN  CASE policy.mode = "skip" -> IF first < now - policy.grace THEN <<>> ELSE <<first>>
        [] policy.mode = "latest" /\ s.kind = "interval" ->
             IF latest >= window THEN <<latest>> ELSE <<>>
        [] policy.mode = "latest" /\ s.kind # "interval" ->
             IF missed = <<>> THEN <<>> ELSE <<Last(missed)>>
        [] policy.mode = "catch_up" ->
             SubSeq(missed, 1, Smaller(Len(missed), policy.maxCatchUp))

\* Faulty variant: the wakeup is looked for from `now` on, `now` included.
MaterializeScheduleInclusive(s, next, now, policy) ==
  LET first == IF s.from # None /\ next < s.from THEN NextRunAfter(s, next - 1) ELSE next
  IN  IF first = None \/ (s.until # None /\ first >= s.until)
      THEN [due |-> <<>>, next |-> None]
      ELSE IF first > now THEN [due |-> <<>>, next |-> first]
      ELSE [due |-> Due(s, first, now, policy), next |-> NextRunAfter(s, now - 1)]

\* materialize_schedule: the runs that are due at a wakeup, and the next one.
MaterializeSchedule(s, next, now, policy) ==
  LET first == IF s.from # None /\ next < s.from THEN NextRunAfter(s, next - 1) ELSE next
  IN  IF first = None \/ (s.until # None /\ first >= s.until)
      THEN [due |-> <<>>, next |-> None]
      ELSE IF first > now THEN [due |-> <<>>, next |-> first]
      ELSE [due |-> Due(s, first, now, policy), next |-> NextRunAfter(s, now)]
=============================================================================
