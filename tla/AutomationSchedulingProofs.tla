---------------------- MODULE AutomationSchedulingProofs ----------------------
(***************************************************************************)
(* For every well-formed schedule and valid misfire policy: the next run   *)
(* is the first selected instant, and what a wakeup materializes is what   *)
(* the policy promises, each instant once; and for any number of processes *)
(* and callers, what they prepared from an older copy of the task is       *)
(* harmless, and no run is lost.                                           *)
(***************************************************************************)
EXTENDS AutomationScheduling, ScheduleWakeups, FiniteSetTheorems, WellFoundedInduction, TLAPS

-----------------------------------------------------------------------------
(* Induction over the natural numbers, from their well-foundedness: a set   *)
(* takes the place of the predicate.                                        *)

\* A set that has 0 and is closed under successors has every natural number.
LEMMA NaturalInduction ==
  ASSUME NEW S, 0 \in S, \A n \in Nat : n \in S => n + 1 \in S
  PROVE  \A n \in Nat : n \in S
<1> SUFFICES ASSUME NEW k \in Nat, k \notin S PROVE FALSE
  OBVIOUS
<1> DEFINE T == {n \in Nat : n \notin S}
           R == OpToRel(<, Nat)
<1>1. PICK x \in T : \A y \in T : ~(<<y, x>> \in R)
  <2>1. IsWellFoundedOn(R, Nat) /\ T \subseteq Nat /\ T # {}
    BY NatLessThanWellFounded
  <2> HIDE DEF T, R
  <2> QED BY <2>1, WFMin
<1>2. x \in Nat /\ x # 0 /\ x - 1 \in Nat
  OBVIOUS
<1>3. <<x - 1, x>> \in R
  <2>1. <<x - 1, x>> \in Nat \X Nat BY <1>2
  <2>2. <<x - 1, x>>[1] < <<x - 1, x>>[2] BY <1>2
  <2> QED BY <2>1, <2>2 DEF OpToRel
<1>4. x - 1 \notin T
  BY <1>1, <1>3
<1> QED BY <1>2, <1>4

\* A set of natural numbers that is not empty has a least one.
LEMMA MinOfNaturals ==
  ASSUME NEW T \in SUBSET Nat, T # {}
  PROVE  Min(T) \in T /\ \A y \in T : Min(T) <= y
<1> DEFINE R == OpToRel(<, Nat)
<1>1. PICK x \in T : \A y \in T : ~(<<y, x>> \in R)
  <2>1. IsWellFoundedOn(R, Nat) BY NatLessThanWellFounded
  <2> HIDE DEF R
  <2> QED BY <2>1, WFMin
<1>2. \A y \in T : x <= y
  <2> TAKE y \in T
  <2>1. <<y, x>> \in Nat \X Nat OBVIOUS
  <2>2. <<y, x>>[1] = y /\ <<y, x>>[2] = x OBVIOUS
  <2>3. ~(y < x) BY <1>1, <2>1, <2>2 DEF OpToRel
  <2> QED BY <2>3
<1> QED BY <1>2 DEF Min

\* \div by a positive number rounds down.
LEMMA Quotient ==
  ASSUME NEW a \in Nat, NEW e \in Nat \ {0}
  PROVE  a \div e \in Nat /\ (a \div e) * e <= a /\ (a \div e + 1) * e > a
  OBVIOUS

-----------------------------------------------------------------------------
(* The schedule arithmetic.                                                 *)

Instant == Nat \cup {None}

\* An occurrence that is found lies after the instant it is looked for from.
LEMMA NextOccurrenceLater ==
  ASSUME NEW s, WellFormed(s), NEW a \in Int
  PROVE  NextOccurrence(s, a) \in Instant /\ (NextOccurrence(s, a) # None => NextOccurrence(s, a) > a)
<1> USE DEF None, Instant, WellFormed
<1>1. CASE s.kind = "once"
  BY <1>1 DEF NextOccurrence
<1>2. CASE s.kind = "interval"
  <2>1. CASE a < s.at BY <1>2, <2>1 DEF NextOccurrence
  <2>2. CASE ~(a < s.at)
    <3>1. a - s.at \in Nat /\ s.every \in Nat \ {0} /\ s.at \in Nat BY <1>2, <2>2
    <3> DEFINE q == (a - s.at) \div s.every
    <3>2. q \in Nat /\ (q + 1) * s.every > a - s.at BY <3>1, Quotient
    <3> HIDE DEF q
    <3>3. Larger(1, q + 1) = q + 1 BY <3>2 DEF Larger
    <3>4. (q + 1) * s.every \in Nat BY <3>1, <3>2
    <3>5. NextOccurrence(s, a) = s.at + (q + 1) * s.every
      BY <1>2, <2>2, <3>3 DEF NextOccurrence, q
    <3> DEFINE step == (q + 1) * s.every
    <3>6. step \in Nat /\ step > a - s.at /\ NextOccurrence(s, a) = s.at + step BY <3>2, <3>4, <3>5
    <3> HIDE DEF step
    <3> QED BY <3>1, <3>6
  <2> QED BY <2>1, <2>2
<1>3. CASE s.kind = "cron"
  <2> DEFINE later == {x \in s.instants : x > a}
  <2>1. CASE later = {} BY <1>3, <2>1 DEF NextOccurrence
  <2>2. CASE later # {}
    <3>1. Min(later) \in later BY <2>2, MinOfNaturals
    <3>2. NextOccurrence(s, a) = Min(later) BY <1>3, <2>2 DEF NextOccurrence
    <3> QED BY <3>1, <3>2
  <2> QED BY <2>1, <2>2
<1> QED BY <1>1, <1>2, <1>3

\* So does the next run, whatever the active period (next_run_after).
LEMMA NextRunLater ==
  ASSUME NEW s, WellFormed(s), NEW a \in Int
  PROVE  NextRunAfter(s, a) \in Instant /\ (NextRunAfter(s, a) # None => NextRunAfter(s, a) > a)
<1> DEFINE bound == IF s.from # None /\ a < s.from THEN s.from - 1 ELSE a
<1>1. bound \in Int /\ bound >= a
  BY DEF WellFormed, None
<1>2. NextOccurrence(s, bound) \in Instant /\ (NextOccurrence(s, bound) # None => NextOccurrence(s, bound) > bound)
  BY <1>1, NextOccurrenceLater
<1>3. NextRunAfter(s, a) \in {None, NextOccurrence(s, bound)}
  BY DEF NextRunAfter
<1> HIDE DEF bound
<1> QED BY <1>1, <1>2, <1>3 DEF Instant, None

\* One step of the scan of RunsUntil, over a function that holds the rest of it.
ScanStep(s, hi, g, c) ==
  LET candidate == NextRunAfter(s, c)
  IN  IF candidate = None \/ candidate > hi THEN <<>> ELSE <<candidate>> \o g[candidate]

\* A list of instants after c and until hi, in increasing order.
Increasing(seq) == \A i, j \in DOMAIN seq : i < j => seq[i] < seq[j]
Listed(seq, c, hi) == seq \in Seq(Nat) /\ (\A i \in DOMAIN seq : c < seq[i] /\ seq[i] <= hi) /\ Increasing(seq)

\* The scan is defined: a function satisfies its recursion.
LEMMA ScanExists ==
  ASSUME NEW s, WellFormed(s), NEW lo \in Int, NEW hi \in Int
  PROVE  \E g : g = [c \in lo .. hi |-> ScanStep(s, hi, g, c)]
<1> DEFINE Good == {n \in Nat : \E g : g = [c \in hi - n .. hi |-> ScanStep(s, hi, g, c)]}
<1>1. 0 \in Good
  <2> DEFINE g == [c \in hi - 0 .. hi |-> <<>>]
  <2>1. \A c \in hi - 0 .. hi : ScanStep(s, hi, g, c) = <<>>
    BY NextRunLater DEF ScanStep, Instant, None
  <2>2. g = [c \in hi - 0 .. hi |-> ScanStep(s, hi, g, c)]
    BY <2>1
  <2> QED BY <2>2
<1>2. ASSUME NEW n \in Nat, n \in Good PROVE n + 1 \in Good
  <2>1. PICK g : g = [c \in hi - n .. hi |-> ScanStep(s, hi, g, c)]
    BY <1>2
  <2> DEFINE f == [c \in hi - (n + 1) .. hi |-> IF c = hi - (n + 1) THEN ScanStep(s, hi, g, c) ELSE g[c]]
  <2>2. ASSUME NEW c \in hi - (n + 1) .. hi PROVE ScanStep(s, hi, f, c) = ScanStep(s, hi, g, c)
    <3> DEFINE k == NextRunAfter(s, c)
    <3>1. k \in Instant /\ (k # None => k > c)
      BY NextRunLater
    <3> HIDE DEF k
    <3>2. CASE k = None \/ k > hi
      BY <3>2 DEF ScanStep, k
    <3>3. CASE ~(k = None \/ k > hi)
      <4>1. k \in hi - n .. hi
        BY <3>1, <3>3 DEF Instant
      <4>2. f[k] = g[k]
        BY <4>1
      <4> QED BY <4>2 DEF ScanStep, k
    <3> QED BY <3>2, <3>3
  <2>3. ASSUME NEW c \in hi - (n + 1) .. hi PROVE f[c] = ScanStep(s, hi, f, c)
    <3>1. CASE c = hi - (n + 1) BY <3>1, <2>2
    <3>2. CASE c # hi - (n + 1)
      <4>1. c \in hi - n .. hi BY <3>2
      <4>2. g[c] = ScanStep(s, hi, g, c) BY <4>1, <2>1
      <4> QED BY <4>2, <3>2, <2>2
    <3> QED BY <3>1, <3>2
  <2>4. f = [c \in hi - (n + 1) .. hi |-> ScanStep(s, hi, f, c)]
    <3> HIDE DEF f
    <3>1. f = [c \in hi - (n + 1) .. hi |-> f[c]] BY DEF f
    <3> QED BY <2>3, <3>1
  <2>5. n + 1 \in Nat OBVIOUS
  <2> QED BY <2>4, <2>5
<1>3. \A n \in Nat : n \in Good
  <2> HIDE DEF Good
  <2> QED BY <1>1, <1>2, NaturalInduction
<1>4. CASE lo <= hi
  <2>1. hi - lo \in Nat /\ hi - (hi - lo) = lo BY <1>4
  <2>2. hi - lo \in Good BY <1>3, <2>1
  <2> QED BY <2>1, <2>2
<1>5. CASE ~(lo <= hi)
  <2>1. lo .. hi = {} BY <1>5
  <2> DEFINE g == [c \in lo .. hi |-> <<>>]
  <2>2. g = [c \in lo .. hi |-> ScanStep(s, hi, g, c)] BY <2>1
  <2> QED BY <2>2
<1> QED BY <1>4, <1>5

\* The scan from an instant lists instants after it, in order.
LEMMA ScanIsListed ==
  ASSUME NEW s, WellFormed(s), NEW lo \in Int, NEW hi \in Int,
         NEW g, g = [c \in lo .. hi |-> ScanStep(s, hi, g, c)]
  PROVE  \A c \in lo .. hi : Listed(g[c], c, hi)
<1> DEFINE Good == {n \in Nat : \A c \in lo .. hi : c >= hi - n => Listed(g[c], c, hi)}
<1>0. Listed(<<>>, 0, 0) /\ \A c : Listed(<<>>, c, hi)
  BY DEF Listed, Increasing
<1>1. 0 \in Good
  <2>1. \A c \in lo .. hi : c >= hi - 0 => ScanStep(s, hi, g, c) = <<>>
    BY NextRunLater DEF ScanStep, Instant, None
  <2> QED BY <1>0, <2>1
<1>2. ASSUME NEW n \in Nat, n \in Good PROVE n + 1 \in Good
  <2> SUFFICES ASSUME NEW c \in lo .. hi, c >= hi - (n + 1) PROVE Listed(g[c], c, hi)
    OBVIOUS
  <2> DEFINE k == NextRunAfter(s, c)
  <2>1. k \in Instant /\ (k # None => k > c)
    BY NextRunLater
  <2>2. g[c] = ScanStep(s, hi, g, c)
    OBVIOUS
  <2> HIDE DEF k
  <2>3. CASE k = None \/ k > hi
    BY <2>2, <2>3, <1>0 DEF ScanStep, k
  <2>4. CASE ~(k = None \/ k > hi)
    <3>1. k \in lo .. hi /\ k >= hi - n /\ k \in Nat /\ k > c /\ k <= hi
      BY <2>1, <2>4 DEF Instant
    <3>2. Listed(g[k], k, hi)
      BY <1>2, <3>1
    <3>3. g[c] = <<k>> \o g[k]
      BY <2>2, <2>4 DEF ScanStep, k
    <3> DEFINE rest == g[k]
    <3> HIDE DEF rest
    <3>4. Listed(<<k>> \o rest, c, hi)
      <4>1. Listed(rest, k, hi) BY <3>2 DEF rest
      <4>2. rest \in Seq(Nat) /\ <<k>> \o rest \in Seq(Nat) /\ Len(<<k>> \o rest) = Len(rest) + 1
        BY <3>1, <4>1 DEF Listed
      <4>3. \A i \in DOMAIN (<<k>> \o rest) : IF i = 1 THEN (<<k>> \o rest)[i] = k
               ELSE i - 1 \in DOMAIN rest /\ (<<k>> \o rest)[i] = rest[i - 1]
        BY <3>1, <4>2
      <4> DEFINE all == <<k>> \o rest
      <4>4. DOMAIN all = 1 .. Len(rest) + 1 /\ DOMAIN rest = 1 .. Len(rest) /\ Len(rest) \in Nat
        BY <4>2
      <4> HIDE DEF all
      <4>5. \A i \in DOMAIN all : c < all[i] /\ all[i] <= hi
        <5> TAKE i \in DOMAIN all
        <5>1. CASE i = 1 BY <5>1, <3>1, <4>3 DEF all
        <5>2. CASE i # 1
          <6>1. i - 1 \in DOMAIN rest /\ all[i] = rest[i - 1] BY <5>2, <4>3 DEF all
          <6>2. rest[i - 1] \in Nat BY <6>1, <4>2
          <6> QED BY <6>1, <6>2, <4>1, <3>1 DEF Listed
        <5> QED BY <5>1, <5>2
      <4>6. \A i, j \in DOMAIN all : i < j => all[i] < all[j]
        <5> TAKE i, j \in DOMAIN all
        <5> HAVE i < j
        <5>1. i \in Nat /\ j \in Nat /\ i >= 1 /\ j # 1 BY <4>4
        <5>2. j - 1 \in DOMAIN rest /\ all[j] = rest[j - 1] /\ k < rest[j - 1] BY <5>1, <4>1, <4>3 DEF all, Listed
        <5>3. CASE i = 1 BY <5>2, <5>3, <4>3 DEF all
        <5>4. CASE i # 1
          <6>1. i - 1 \in DOMAIN rest /\ all[i] = rest[i - 1] /\ i - 1 < j - 1 BY <5>1, <5>4, <4>3 DEF all
          <6> QED BY <6>1, <5>2, <4>1 DEF Listed, Increasing
        <5> QED BY <5>3, <5>4
      <4> QED BY <4>2, <4>5, <4>6 DEF Listed, Increasing, all
    <3> QED BY <3>3, <3>4 DEF rest
  <2> QED BY <2>3, <2>4
<1>3. \A n \in Nat : n \in Good
  <2> HIDE DEF Good
  <2> QED BY <1>1, <1>2, NaturalInduction
<1> TAKE c \in lo .. hi
<1>4. hi - c \in Nat /\ c >= hi - (hi - c)
  OBVIOUS
<1>5. hi - c \in Good
  BY <1>3, <1>4
<1> QED BY <1>4, <1>5

\* The runs that RunsUntil lists lie between the cursor and the clock, in order.
LEMMA RunsAreListed ==
  ASSUME NEW s, WellFormed(s), NEW cur \in Int, NEW hi \in Int, cur <= hi
  PROVE  Listed(RunsUntil(s, cur, hi), cur - 1, hi)
<1> DEFINE scan == CHOOSE g : g = [c \in cur - 1 .. hi |-> ScanStep(s, hi, g, c)]
<1>1. RunsUntil(s, cur, hi) = scan[cur - 1]
  BY DEF RunsUntil, ScanStep
<1>2. scan = [c \in cur - 1 .. hi |-> ScanStep(s, hi, scan, c)]
  <2>1. cur - 1 \in Int OBVIOUS
  <2>2. \E g : g = [c \in cur - 1 .. hi |-> ScanStep(s, hi, g, c)] BY <2>1, ScanExists
  <2> QED BY <2>2
<1>3. cur - 1 \in cur - 1 .. hi
  OBVIOUS
<1> HIDE DEF scan
<1> QED BY <1>1, <1>2, <1>3, ScanIsListed

\* A policy keeps a part of the list.
LEMMA PartIsListed ==
  ASSUME NEW seq, NEW c \in Int, NEW hi \in Int, Listed(seq, c, hi)
  PROVE  /\ \A n \in Nat : Listed(SubSeq(seq, 1, Smaller(Len(seq), n)), c, hi)
         /\ seq # <<>> => Listed(<<Last(seq)>>, c, hi)
<1>1. seq \in Seq(Nat) /\ Len(seq) \in Nat /\ DOMAIN seq = 1 .. Len(seq)
  BY DEF Listed
<1>2. ASSUME NEW n \in Nat PROVE Listed(SubSeq(seq, 1, Smaller(Len(seq), n)), c, hi)
  <2> DEFINE m == Smaller(Len(seq), n)
  <2>1. m \in Nat /\ m <= Len(seq) BY <1>1 DEF Smaller
  <2> HIDE DEF m
  <2>2. SubSeq(seq, 1, m) \in Seq(Nat) /\ DOMAIN SubSeq(seq, 1, m) = 1 .. m
    BY <1>1, <2>1
  <2>3. \A i \in 1 .. m : SubSeq(seq, 1, m)[i] = seq[i] /\ i \in DOMAIN seq
    BY <1>1, <2>1
  <2> QED BY <2>2, <2>3 DEF Listed, Increasing, m
<1>3. ASSUME seq # <<>> PROVE Listed(<<Last(seq)>>, c, hi)
  <2>1. Len(seq) \in DOMAIN seq BY <1>1, <1>3
  <2>2. Last(seq) = seq[Len(seq)] /\ Last(seq) \in Nat BY <1>1, <2>1 DEF Last
  <2> QED BY <2>1, <2>2 DEF Listed, Increasing
<1> QED BY <1>2, <1>3

\* One instant is a list of its own.
LEMMA OneIsListed ==
  ASSUME NEW x \in Nat, NEW c \in Int, NEW hi \in Int, c < x, x <= hi
  PROVE  Listed(<<x>>, c, hi)
  BY DEF Listed, Increasing

\* And so is none.
LEMMA NoneIsListed == \A c, hi : Listed(<<>>, c, hi)
  BY DEF Listed, Increasing

\* What any policy keeps of the missed runs is in order, from the wakeup on, and past.
LEMMA DueIsListed ==
  ASSUME NEW s, WellFormed(s), NEW p, ValidPolicy(p), NEW fst \in Nat, NEW hi \in Nat,
         fst <= hi, s.until # None => fst < s.until
  PROVE  Listed(Due(s, fst, hi, p), fst - 1, hi)
<1> DEFINE win == hi - p.window
           lst == IF s.until = None THEN hi ELSE Smaller(hi, s.until - 1)
           lat == LatestIntervalDue(s, fst, lst)
           missed == RunsUntil(s, Larger(fst, win), hi)
<1>1. p.window \in Nat /\ p.window > 0 /\ p.maxCatchUp \in Nat /\ p.grace \in Nat /\ p.mode \in Modes
  BY DEF ValidPolicy
<1>2. Listed(missed, fst - 1, hi)
  <2>1. Larger(fst, win) \in Int /\ Larger(fst, win) >= fst /\ Larger(fst, win) <= hi
    BY <1>1 DEF Larger
  <2>2. Listed(missed, Larger(fst, win) - 1, hi)
    BY <2>1, RunsAreListed
  <2> HIDE DEF missed
  <2> QED BY <2>1, <2>2 DEF Listed
<1>3. Listed(<<fst>>, fst - 1, hi) /\ Listed(<<>>, fst - 1, hi)
  <2>1. fst - 1 \in Int /\ hi \in Int /\ fst - 1 < fst OBVIOUS
  <2> QED BY <2>1, OneIsListed, NoneIsListed
<1>4. ASSUME s.kind = "interval" PROVE Listed(<<lat>>, fst - 1, hi)
  <2>1. lst \in Nat /\ lst >= fst /\ lst <= hi
    BY DEF WellFormed, Smaller, None
  <2>2. lst - fst \in Nat /\ s.every \in Nat \ {0}
    BY <1>4, <2>1 DEF WellFormed
  <2> HIDE DEF lst
  <2> DEFINE q == (lst - fst) \div s.every
  <2>3. q \in Nat /\ q * s.every <= lst - fst
    BY <2>2, Quotient
  <2>4. lat = fst + q * s.every
    BY <2>3 DEF LatestIntervalDue, Larger
  <2>5. q * s.every \in Nat
    BY <2>2, <2>3
  <2> DEFINE step == q * s.every
  <2>6. step \in Nat /\ step <= lst - fst /\ lat = fst + step
    BY <2>3, <2>4, <2>5
  <2> HIDE DEF q, lat, step
  <2>7. lat \in Nat /\ fst - 1 < lat /\ lat <= hi
    BY <2>1, <2>6
  <2>8. fst - 1 \in Int /\ hi \in Int OBVIOUS
  <2> QED BY <2>7, <2>8, OneIsListed
<1>5. CASE p.mode = "skip"
  <2>1. Due(s, fst, hi, p) \in {<<>>, <<fst>>} BY <1>5 DEF Due
  <2> QED BY <2>1, <1>3
<1>6. CASE p.mode = "latest" /\ s.kind = "interval"
  <2>1. Due(s, fst, hi, p) \in {<<>>, <<lat>>} BY <1>6 DEF Due
  <2> QED BY <2>1, <1>3, <1>4, <1>6
<1>7. CASE p.mode = "latest" /\ s.kind # "interval"
  <2>1. Due(s, fst, hi, p) = IF missed = <<>> THEN <<>> ELSE <<Last(missed)>> BY <1>7 DEF Due
  <2>2. fst - 1 \in Int /\ hi \in Int OBVIOUS
  <2> HIDE DEF missed
  <2> QED BY <2>1, <2>2, <1>2, <1>3, PartIsListed
<1>8. CASE p.mode = "catch_up"
  <2>1. Due(s, fst, hi, p) = SubSeq(missed, 1, Smaller(Len(missed), p.maxCatchUp)) BY <1>8 DEF Due
  <2>2. fst - 1 \in Int /\ hi \in Int OBVIOUS
  <2> HIDE DEF missed
  <2> QED BY <2>1, <2>2, <1>1, <1>2, PartIsListed
<1> QED BY <1>1, <1>5, <1>6, <1>7, <1>8 DEF Modes

\* A wakeup runs instants in order from itself on, and moves behind all of them.
LEMMA WakeupMovesOn ==
  ASSUME NEW s, WellFormed(s), NEW p, ValidPolicy(p), NEW nxt \in Nat, NEW hi \in Nat
  PROVE  LET m == MaterializeSchedule(s, nxt, hi, p)
         IN  /\ Listed(m.due, nxt - 1, hi)
             /\ m.next \in Instant
             /\ m.next # None => m.next >= nxt /\ \A i \in DOMAIN m.due : m.due[i] < m.next
<1> DEFINE fst == IF s.from # None /\ nxt < s.from THEN NextRunAfter(s, nxt - 1) ELSE nxt
           m == MaterializeSchedule(s, nxt, hi, p)
<1>1. fst \in Instant /\ (fst # None => fst >= nxt)
  <2>1. nxt - 1 \in Int OBVIOUS
  <2> QED BY <2>1, NextRunLater DEF Instant
<1>2. CASE fst = None \/ (s.until # None /\ fst >= s.until)
  <2>1. m = [due |-> <<>>, next |-> None] BY <1>2 DEF MaterializeSchedule
  <2> QED BY <2>1, NoneIsListed DEF Instant
<1>3. CASE ~(fst = None \/ (s.until # None /\ fst >= s.until)) /\ fst > hi
  <2>1. m = [due |-> <<>>, next |-> fst] BY <1>3 DEF MaterializeSchedule
  <2> HIDE DEF fst
  <2> QED BY <2>1, <1>1, <1>3, NoneIsListed
<1>4. CASE ~(fst = None \/ (s.until # None /\ fst >= s.until)) /\ ~(fst > hi)
  <2>1. m = [due |-> Due(s, fst, hi, p), next |-> NextRunAfter(s, hi)] BY <1>4 DEF MaterializeSchedule
  <2> HIDE DEF fst, m
  <2>2. fst \in Nat /\ nxt <= fst /\ fst <= hi /\ (s.until # None => fst < s.until)
    BY <1>1, <1>4 DEF Instant, WellFormed, None
  <2>3. Listed(m.due, fst - 1, hi)
    BY <2>1, <2>2, DueIsListed
  <2>4. m.next \in Instant /\ (m.next # None => m.next > hi)
    BY <2>1, NextRunLater
  <2> QED BY <2>2, <2>3, <2>4 DEF Listed, Instant, m
<1> QED BY <1>2, <1>3, <1>4

-----------------------------------------------------------------------------
(* The arithmetic is exact: what is found is the first, and what is listed  *)
(* is all.                                                                  *)

\* A product grows with its factor.
LEMMA ProductGrows ==
  ASSUME NEW a \in Int, NEW b \in Int, NEW e \in Nat, a <= b
  PROVE  a * e <= b * e
<1> DEFINE d == b - a
<1>1. d \in Nat /\ b = a + d OBVIOUS
<1> HIDE DEF d
<1>2. d * e \in Nat BY <1>1
<1>3. (a + d) * e = a * e + d * e BY <1>1
<1> DEFINE ae == a * e
           de == d * e
<1>4. ae \in Int /\ de \in Nat /\ b * e = ae + de BY <1>1, <1>2, <1>3
<1> HIDE DEF ae, de
<1> QED BY <1>4 DEF ae

\* A number is at most its product with a positive one.
LEMMA ProductIsLarger ==
  ASSUME NEW a \in Nat, NEW e \in Nat \ {0}
  PROVE  a <= a * e
<1> DEFINE d == e - 1
<1>1. d \in Nat /\ e = d + 1 OBVIOUS
<1> HIDE DEF d
<1>2. a * (d + 1) = a * d + a /\ a * d \in Nat BY <1>1
<1> QED BY <1>1, <1>2

\* The first occurrence after an instant is found: no other lies between.
LEMMA NextOccurrenceIsFirst ==
  ASSUME NEW s, WellFormed(s), NEW a \in Int
  PROVE  /\ NextOccurrence(s, a) # None => Fits(s, NextOccurrence(s, a))
         /\ \A x \in Nat : Fits(s, x) /\ x > a =>
              NextOccurrence(s, a) # None /\ NextOccurrence(s, a) <= x
<1> USE DEF None
<1>1. CASE s.kind = "once"
  BY <1>1 DEF NextOccurrence, Fits, WellFormed
<1>2. CASE s.kind = "interval"
  <2> DEFINE at == s.at
             e == s.every
  <2>0. at \in Nat /\ e \in Nat \ {0} BY <1>2 DEF WellFormed
  <2>1. \A x : Fits(s, x) <=> \E k \in 0..x : x = at + k * e
    BY <1>2 DEF Fits
  <2>2. CASE a < s.at
    <3>1. NextOccurrence(s, a) = at BY <1>2, <2>2 DEF NextOccurrence
    <3>2. Fits(s, at)
      <4>1. 0 \in 0..at /\ at = at + 0 * e BY <2>0
      <4> HIDE DEF at, e
      <4> QED BY <2>1, <4>1
    <3>3. ASSUME NEW x \in Nat, Fits(s, x) PROVE at <= x
      <4>1. PICK k \in 0..x : x = at + k * e BY <2>1, <3>3
      <4>2. k * e \in Nat BY <2>0
      <4> DEFINE step == k * e
      <4>3. step \in Nat /\ x = at + step BY <4>1, <4>2
      <4> HIDE DEF step, at
      <4> QED BY <4>3, <2>0
    <3> HIDE DEF at
    <3> QED BY <3>1, <3>2, <3>3, <2>0
  <2>3. CASE ~(a < s.at)
    <3>1. a - at \in Nat BY <2>0, <2>3
    <3> DEFINE q == (a - at) \div e
    <3>2. q \in Nat /\ q * e <= a - at /\ (q + 1) * e > a - at BY <2>0, <3>1, Quotient
    <3>3. NextOccurrence(s, a) = at + (q + 1) * e
      <4>1. Larger(1, (a - s.at) \div s.every + 1) = q + 1 BY <3>2 DEF Larger
      <4> QED BY <1>2, <2>3, <4>1 DEF NextOccurrence
    <3> HIDE DEF q, at, e
    <3> DEFINE n == at + (q + 1) * e
    <3>4. n \in Nat /\ q + 1 <= n
      <4>1. q + 1 <= (q + 1) * e BY <2>0, <3>2, ProductIsLarger
      <4>2. (q + 1) * e \in Nat BY <2>0, <3>2
      <4> QED BY <4>1, <4>2, <2>0, <3>2
    <3>5. Fits(s, n)
      <4>1. q + 1 \in 0..n BY <3>2, <3>4
      <4> QED BY <4>1, <2>1
    <3>6. ASSUME NEW x \in Nat, Fits(s, x), x > a PROVE n <= x
      <4>1. PICK k \in 0..x : x = at + k * e BY <2>1, <3>6
      <4>2. k >= q + 1
        <5> SUFFICES ASSUME k <= q PROVE FALSE BY <3>2
        <5>1. k * e <= q * e BY <2>0, <3>2, ProductGrows
        <5>2. k * e \in Nat /\ q * e \in Nat BY <2>0, <3>2
        <5> DEFINE ke == k * e
                   qe == q * e
        <5>3. ke \in Nat /\ qe \in Nat /\ ke <= qe /\ qe <= a - at /\ x = at + ke
          BY <3>2, <4>1, <5>1, <5>2
        <5> HIDE DEF ke, qe
        <5> QED BY <5>3, <3>6, <2>0
      <4>3. (q + 1) * e <= k * e BY <2>0, <3>2, <4>2, ProductGrows
      <4>4. (q + 1) * e \in Nat /\ k * e \in Nat BY <2>0, <3>2
      <4> QED BY <2>0, <4>1, <4>3, <4>4
    <3> HIDE DEF n
    <3>7. NextOccurrence(s, a) = n BY <3>3 DEF n
    <3> QED BY <3>4, <3>5, <3>6, <3>7
  <2> QED BY <2>2, <2>3
<1>3. CASE s.kind = "cron"
  <2> DEFINE later == {x \in s.instants : x > a}
  <2>0. later \in SUBSET Nat /\ \A x : Fits(s, x) <=> x \in s.instants
    BY <1>3 DEF WellFormed, Fits
  <2>1. CASE later = {}
    <3>1. NextOccurrence(s, a) = None BY <1>3, <2>1 DEF NextOccurrence
    <3> QED BY <2>0, <2>1, <3>1
  <2>2. CASE later # {}
    <3>1. Min(later) \in later /\ \A y \in later : Min(later) <= y BY <2>0, <2>2, MinOfNaturals
    <3>2. NextOccurrence(s, a) = Min(later) BY <1>3, <2>2 DEF NextOccurrence
    <3> QED BY <2>0, <3>1, <3>2
  <2> QED BY <2>1, <2>2
<1> QED BY <1>1, <1>2, <1>3 DEF WellFormed

\* n is the first instant that a schedule selects after t, or None if there is none.
First(s, t, n) ==
  /\ n \in Instant
  /\ n # None => Selects(s, n) /\ n > t
  /\ \A x \in Nat : Selects(s, x) /\ x > t => n # None /\ n <= x

\* next_run_after is the first instant of the schedule, its active period regarded.
LEMMA NextRunIsFirstAfter ==
  ASSUME NEW s, WellFormed(s), NEW a \in Int
  PROVE  First(s, a, NextRunAfter(s, a))
<1> USE DEF None
<1> DEFINE bound == IF s.from # None /\ a < s.from THEN s.from - 1 ELSE a
           candidate == NextOccurrence(s, bound)
           n == NextRunAfter(s, a)
<1>1. bound \in Int /\ bound >= a BY DEF WellFormed
<1>2. /\ candidate \in Instant
      /\ candidate # None => candidate > bound /\ Fits(s, candidate)
      /\ \A x \in Nat : Fits(s, x) /\ x > bound => candidate # None /\ candidate <= x
  BY <1>1, NextOccurrenceLater, NextOccurrenceIsFirst
<1>3. n = IF s.until # None /\ a >= s.until THEN None
          ELSE IF s.until # None /\ candidate >= s.until THEN None
          ELSE candidate
  BY DEF NextRunAfter
<1>4. ASSUME NEW x \in Nat, Selects(s, x), x > a PROVE n # None /\ n <= x
  <2>1. Fits(s, x) /\ x > bound BY <1>4 DEF Selects, WellFormed
  <2>2. candidate # None /\ candidate <= x BY <1>2, <2>1
  <2>3. s.until # None => x < s.until BY <1>4 DEF Selects
  <2> HIDE DEF candidate, bound, n
  <2> QED BY <1>2, <1>3, <1>4, <2>2, <2>3 DEF WellFormed, Instant
<1>5. ASSUME n # None PROVE Selects(s, n) /\ n > a
  <2>1. n = candidate /\ (s.until # None => n < s.until)
    <3> HIDE DEF candidate, bound, n
    <3> QED BY <1>2, <1>3, <1>5 DEF WellFormed, Instant
  <2>2. Fits(s, n) /\ n > bound BY <1>2, <1>5, <2>1
  <2>3. s.from # None => n >= s.from
    <3>1. n \in Nat BY <1>2, <1>5, <2>1 DEF Instant
    <3> HIDE DEF candidate, n
    <3> QED BY <2>2, <3>1 DEF WellFormed
  <2>4. n \in Nat BY <1>2, <1>5, <2>1 DEF Instant
  <2> HIDE DEF candidate, n
  <2> QED BY <1>1, <2>1, <2>2, <2>3, <2>4 DEF Selects
<1>6. n \in Instant BY <1>2, <1>3 DEF Instant
<1> QED BY <1>4, <1>5, <1>6 DEF First

\* The instants that a schedule selects from lo until hi.
Chosen(s, lo, hi) == {x \in Nat : Selects(s, x) /\ lo <= x /\ x <= hi}

\* The scan from an instant lists all that are selected after it.
LEMMA ScanIsComplete ==
  ASSUME NEW s, WellFormed(s), NEW lo \in Int, NEW hi \in Int,
         NEW g, g = [c \in lo .. hi |-> ScanStep(s, hi, g, c)]
  PROVE  \A c \in lo .. hi : ToSet(g[c]) = Chosen(s, c + 1, hi)
<1> DEFINE Good == {n \in Nat : \A c \in lo .. hi : c >= hi - n => ToSet(g[c]) = Chosen(s, c + 1, hi)}
<1>0. ToSet(<<>>) = {}
  BY DEF ToSet
<1>1. 0 \in Good
  <2>1. \A c \in lo .. hi : c >= hi - 0 => g[c] = <<>>
    BY NextRunLater DEF ScanStep, Instant, None
  <2>2. \A c \in lo .. hi : c >= hi - 0 => Chosen(s, c + 1, hi) = {}
    BY DEF Chosen
  <2> QED BY <1>0, <2>1, <2>2
<1>2. ASSUME NEW n \in Nat, n \in Good PROVE n + 1 \in Good
  <2> SUFFICES ASSUME NEW c \in lo .. hi, c >= hi - (n + 1) PROVE ToSet(g[c]) = Chosen(s, c + 1, hi)
    OBVIOUS
  <2> DEFINE k == NextRunAfter(s, c)
  <2>1. First(s, c, k)
    BY NextRunIsFirstAfter
  <2>2. g[c] = IF k = None \/ k > hi THEN <<>> ELSE <<k>> \o g[k]
    BY DEF ScanStep
  <2> HIDE DEF k
  <2>3. CASE k = None \/ k > hi
    <3>1. Chosen(s, c + 1, hi) = {} BY <2>1, <2>3 DEF Chosen, First, Instant, None
    <3> QED BY <2>2, <2>3, <3>1, <1>0
  <2>4. CASE ~(k = None \/ k > hi)
    <3>1. k \in lo .. hi /\ k >= hi - n /\ k \in Nat /\ k > c /\ k <= hi
      BY <2>1, <2>4 DEF First, Instant
    <3>2. ToSet(g[k]) = Chosen(s, k + 1, hi)
      BY <1>2, <3>1
    <3>3. Listed(g[k], k, hi) BY <3>1, ScanIsListed
    <3> DEFINE rest == g[k]
    <3>4. rest \in Seq(Nat) BY <3>3 DEF Listed
    <3>5. g[c] = <<k>> \o rest BY <2>2, <2>4
    <3> HIDE DEF rest
    <3>6. ToSet(<<k>> \o rest) = {k} \cup ToSet(rest)
      <4>1. DOMAIN (<<k>> \o rest) = 1 .. (1 + Len(rest)) /\ Len(rest) \in Nat /\ DOMAIN rest = 1 .. Len(rest)
        BY <3>1, <3>4
      <4>2. \A i \in 1 .. (1 + Len(rest)) : (<<k>> \o rest)[i] = IF i = 1 THEN k ELSE rest[i - 1]
        BY <3>1, <3>4
      <4> DEFINE all == <<k>> \o rest
      <4>3. 1 \in DOMAIN all /\ all[1] = k BY <4>1, <4>2
      <4>4. \A j \in DOMAIN rest : j + 1 \in DOMAIN all /\ all[j + 1] = rest[j] BY <4>1, <4>2
      <4>5. \A i \in DOMAIN all : all[i] = k \/ (i - 1 \in DOMAIN rest /\ all[i] = rest[i - 1])
        BY <4>1, <4>2
      <4> HIDE DEF all
      <4>6. ToSet(all) = {k} \cup ToSet(rest) BY <4>3, <4>4, <4>5 DEF ToSet
      <4> QED BY <4>6 DEF all
    <3>7. Chosen(s, c + 1, hi) = {k} \cup Chosen(s, k + 1, hi)
      BY <2>1, <2>4, <3>1 DEF Chosen, First, Instant
    <3> QED BY <3>2, <3>5, <3>6, <3>7 DEF rest
  <2> QED BY <2>3, <2>4
<1>3. \A n \in Nat : n \in Good
  <2> HIDE DEF Good
  <2> QED BY <1>1, <1>2, NaturalInduction
<1> TAKE c \in lo .. hi
<1>4. hi - c \in Nat /\ c >= hi - (hi - c)
  OBVIOUS
<1>5. hi - c \in Good
  BY <1>3, <1>4
<1> QED BY <1>4, <1>5

\* RunsUntil lists the selected instants from the cursor until the clock, and no others.
LEMMA RunsAreComplete ==
  ASSUME NEW s, WellFormed(s), NEW cur \in Int, NEW hi \in Int, cur <= hi
  PROVE  ToSet(RunsUntil(s, cur, hi)) = Chosen(s, cur, hi)
<1> DEFINE scan == CHOOSE g : g = [c \in cur - 1 .. hi |-> ScanStep(s, hi, g, c)]
<1>1. RunsUntil(s, cur, hi) = scan[cur - 1]
  BY DEF RunsUntil, ScanStep
<1>2. scan = [c \in cur - 1 .. hi |-> ScanStep(s, hi, scan, c)]
  <2>1. cur - 1 \in Int OBVIOUS
  <2>2. \E g : g = [c \in cur - 1 .. hi |-> ScanStep(s, hi, g, c)] BY <2>1, ScanExists
  <2> QED BY <2>2
<1>3. cur - 1 \in cur - 1 .. hi /\ cur - 1 \in Int /\ (cur - 1) + 1 = cur
  OBVIOUS
<1> HIDE DEF scan
<1>4. ToSet(scan[cur - 1]) = Chosen(s, (cur - 1) + 1, hi)
  BY <1>2, <1>3, ScanIsComplete
<1> QED BY <1>1, <1>3, <1>4

\* A list in increasing order after c and until hi has at most hi - c members, each once.
LEMMA ListIsShort ==
  ASSUME NEW seq, NEW c \in Int, NEW hi \in Int, Listed(seq, c, hi), c <= hi
  PROVE  Len(seq) \in Nat /\ Len(seq) <= hi - c
<1>1. seq \in Seq(Nat) /\ Len(seq) \in Nat /\ DOMAIN seq = 1 .. Len(seq)
  BY DEF Listed
<1> DEFINE Good == {n \in Nat : n <= Len(seq) => n = 0 \/ seq[n] >= c + n}
<1>2. 0 \in Good OBVIOUS
<1>3. ASSUME NEW n \in Nat, n \in Good PROVE n + 1 \in Good
  <2> SUFFICES ASSUME n + 1 <= Len(seq) PROVE seq[n + 1] >= c + (n + 1)
    OBVIOUS
  <2>1. n + 1 \in DOMAIN seq /\ seq[n + 1] \in Nat /\ c < seq[n + 1] BY <1>1 DEF Listed
  <2>2. CASE n = 0 BY <2>1, <2>2
  <2>3. CASE n # 0
    <3>1. n \in DOMAIN seq /\ seq[n] \in Nat /\ seq[n] < seq[n + 1]
      BY <1>1, <2>1, <2>3 DEF Listed, Increasing
    <3>2. seq[n] >= c + n BY <1>1, <1>3, <2>3
    <3> QED BY <2>1, <3>1, <3>2
  <2> QED BY <2>2, <2>3
<1>4. Len(seq) \in Good
  <2> HIDE DEF Good
  <2>1. \A n \in Nat : n \in Good BY <1>2, <1>3, NaturalInduction
  <2> QED BY <1>1, <2>1
<1>5. CASE Len(seq) # 0
  <2>1. Len(seq) \in DOMAIN seq /\ seq[Len(seq)] \in Nat /\ seq[Len(seq)] <= hi BY <1>1, <1>5 DEF Listed
  <2>2. seq[Len(seq)] >= c + Len(seq) BY <1>1, <1>4, <1>5
  <2> QED BY <1>1, <2>1, <2>2
<1> QED BY <1>1, <1>5

\* Such a list has as many members as entries.
LEMMA ListCounts ==
  ASSUME NEW seq, NEW c \in Int, NEW hi \in Int, Listed(seq, c, hi)
  PROVE  IsFiniteSet(ToSet(seq)) /\ Cardinality(ToSet(seq)) = Len(seq)
<1>1. seq \in Seq(Nat) /\ Len(seq) \in Nat /\ DOMAIN seq = 1 .. Len(seq)
      /\ seq \in [1 .. Len(seq) -> Nat]
  BY DEF Listed
<1>2. \A i, j \in 1 .. Len(seq) : i # j => seq[i] # seq[j]
  <2> TAKE i, j \in 1 .. Len(seq)
  <2> HAVE i # j
  <2>1. seq[i] \in Nat /\ seq[j] \in Nat /\ (i < j \/ j < i) BY <1>1
  <2> QED BY <1>1, <2>1 DEF Listed, Increasing
<1>3. seq \in Bijection(1 .. Len(seq), ToSet(seq))
  BY <1>1, <1>2 DEF Bijection, Injection, Surjection, IsInjective, ToSet
<1>4. IsFiniteSet(1 .. Len(seq)) /\ Cardinality(1 .. Len(seq)) = Len(seq)
  <2> DEFINE n == Len(seq)
  <2>1. n \in Nat /\ n \in Int /\ 1 \in Int BY <1>1
  <2> HIDE DEF n
  <2>2. IsFiniteSet(1 .. n) /\ Cardinality(1 .. n) = IF 1 > n THEN 0 ELSE n - 1 + 1
    BY <2>1, FS_Interval
  <2> QED BY <2>1, <2>2 DEF n
<1>5. ExistsBijection(1 .. Len(seq), ToSet(seq)) BY <1>3 DEF ExistsBijection
<1> QED BY <1>4, <1>5, FS_Bijection

\* The last run of an interval until an instant: every other one lies before it.
LEMMA LatestIntervalIsLast ==
  ASSUME NEW s, WellFormed(s), s.kind = "interval", NEW fst \in Nat, NEW lst \in Nat, fst <= lst,
         Selects(s, fst), s.until # None => lst < s.until
  PROVE  LET lat == LatestIntervalDue(s, fst, lst)
         IN  /\ lat \in Nat /\ fst <= lat /\ lat <= lst /\ Selects(s, lat)
             /\ \A x \in Nat : Selects(s, x) /\ x <= lst => x <= lat
<1> DEFINE at == s.at
           e == s.every
           q == (lst - fst) \div e
           lat == LatestIntervalDue(s, fst, lst)
<1>1. at \in Nat /\ e \in Nat \ {0} BY DEF WellFormed
<1>2. \A x : Fits(s, x) <=> \E k \in 0..x : x = at + k * e
  BY DEF Fits
<1>3. lst - fst \in Nat /\ q \in Nat /\ q * e <= lst - fst /\ (q + 1) * e > lst - fst
  BY <1>1, Quotient
<1>4. lat = fst + q * e
  BY <1>3 DEF LatestIntervalDue, Larger
<1>5. PICK k \in 0..fst : fst = at + k * e
  BY <1>2 DEF Selects
<1> HIDE DEF at, e, q, lat
<1>6. q * e \in Nat /\ k * e \in Nat /\ (k + q) * e = k * e + q * e /\ k + q \in Nat
  BY <1>1, <1>3
<1>7. lat \in Nat /\ fst <= lat /\ lat <= lst
  BY <1>3, <1>4, <1>6
<1>8. Fits(s, lat)
  <2>1. lat = at + (k + q) * e BY <1>1, <1>4, <1>5, <1>6
  <2>2. k + q <= (k + q) * e BY <1>1, <1>6, ProductIsLarger
  <2>3. (k + q) * e \in Nat BY <1>6
  <2>4. k + q \in 0..lat BY <1>1, <1>6, <2>1, <2>2, <2>3
  <2> QED BY <1>2, <2>1, <2>4
<1>9. Selects(s, lat)
  BY <1>7, <1>8 DEF Selects, WellFormed, None
<1>10. ASSUME NEW x \in Nat, Selects(s, x), x <= lst PROVE x <= lat
  <2>1. PICK j \in 0..x : x = at + j * e BY <1>2, <1>10 DEF Selects
  <2>2. j <= k + q
    <3> SUFFICES ASSUME j >= k + q + 1 PROVE FALSE BY <1>6
    <3>1. (k + (q + 1)) * e <= j * e BY <1>1, <1>3, <1>6, ProductGrows
    <3>2. (k + (q + 1)) * e = k * e + (q + 1) * e /\ (q + 1) * e \in Nat /\ j * e \in Nat
      BY <1>1, <1>3
    <3> DEFINE je == j * e
               ke == k * e
               qe == (q + 1) * e
    <3>3. je \in Nat /\ ke \in Nat /\ qe \in Nat /\ ke + qe <= je /\ qe > lst - fst
          /\ x = at + je /\ fst = at + ke
      BY <1>3, <1>5, <1>6, <2>1, <3>1, <3>2
    <3> HIDE DEF je, ke, qe
    <3> QED BY <3>3, <1>1, <1>10
  <2>3. j * e <= (k + q) * e BY <1>1, <1>6, <2>2, ProductGrows
  <2>4. j * e \in Nat BY <1>1
  <2> QED BY <1>1, <1>4, <1>5, <1>6, <2>1, <2>3, <2>4
<1> QED BY <1>7, <1>9, <1>10 DEF lat

\* What the policies promise of the list a wakeup stores, for the missed instants.
Promise(p, fst, hi, missed, recent, due) ==
  CASE p.mode = "skip" ->
         ToSet(due) = {x \in missed : x = Min(missed) /\ x >= hi - p.grace}
    [] p.mode = "latest" -> ToSet(due) = {x \in recent : x = Max(recent)}
    [] p.mode = "catch_up" ->
         /\ ToSet(due) \subseteq recent
         /\ Len(due) = Smaller(p.maxCatchUp, Cardinality(recent))
         /\ \A x \in ToSet(due), y \in recent \ ToSet(due) : x < y

\* The least and the largest of a set of numbers.
LEMMA LeastIs ==
  ASSUME NEW T \in SUBSET Nat, NEW x \in T, \A y \in T : x <= y
  PROVE  Min(T) = x
<1>1. Min(T) \in T /\ \A y \in T : Min(T) <= y BY MinOfNaturals
<1>2. x \in Nat /\ Min(T) \in Nat
  <2>1. \A y \in T : y \in Nat OBVIOUS
  <2> QED BY <1>1, <2>1
<1>3. x <= Min(T) /\ Min(T) <= x BY <1>1
<1> QED BY <1>2, <1>3

\* A member that none exceeds is the largest.
LEMMA LargestIs ==
  ASSUME NEW T \in SUBSET Nat, NEW x \in T, \A y \in T : y <= x
  PROVE  Max(T) = x
<1>1. Max(T) \in T /\ \A y \in T : Max(T) >= y BY DEF Max
<1>2. x \in Nat /\ Max(T) \in Nat
  <2>1. \A y \in T : y \in Nat OBVIOUS
  <2> QED BY <1>1, <2>1
<1>3. x <= Max(T) /\ Max(T) <= x BY <1>1, <1>2
<1> QED BY <1>2, <1>3

\* The members of one instant's list, and of none.
LEMMA MembersOfFew == ToSet(<<>>) = {} /\ \A x : ToSet(<<x>>) = {x}
<1>1. \A x : DOMAIN <<x>> = {1} /\ <<x>>[1] = x OBVIOUS
<1> QED BY <1>1 DEF ToSet

\* What a late wakeup stores is what the misfire policy promises.
LEMMA DueIsAsPromised ==
  ASSUME NEW s, WellFormed(s), NEW p, ValidPolicy(p), NEW fst \in Nat, NEW hi \in Nat, fst <= hi,
         Selects(s, fst)
  PROVE  LET missed == Chosen(s, fst, hi)
             recent == {x \in missed : x >= hi - p.window}
         IN  Promise(p, fst, hi, missed, recent, Due(s, fst, hi, p))
<1> DEFINE win == hi - p.window
           lst == IF s.until = None THEN hi ELSE Smaller(hi, s.until - 1)
           lat == LatestIntervalDue(s, fst, lst)
           cur == Larger(fst, win)
           list == RunsUntil(s, cur, hi)
           missed == Chosen(s, fst, hi)
           recent == {x \in missed : x >= win}
           due == Due(s, fst, hi, p)
<1>1. p.window \in Nat /\ p.window > 0 /\ p.maxCatchUp \in Nat /\ p.grace \in Nat /\ p.mode \in Modes
  BY DEF ValidPolicy
<1>2. fst \in missed /\ missed \in SUBSET Nat /\ recent \in SUBSET Nat /\ \A y \in missed : fst <= y
  BY DEF Chosen
<1>3. cur \in Int /\ cur >= fst /\ cur >= win /\ cur <= hi /\ cur \in {fst, win}
  BY <1>1 DEF Larger
<1>4. ToSet(list) = recent /\ Listed(list, cur - 1, hi)
  <2>1. ToSet(list) = Chosen(s, cur, hi) /\ Listed(list, cur - 1, hi)
    BY <1>3, RunsAreComplete, RunsAreListed
  <2>2. Chosen(s, cur, hi) = recent
    BY <1>1, <1>3 DEF Chosen
  <2> QED BY <2>1, <2>2
<1> HIDE DEF list
<1>5. CASE p.mode = "skip"
  <2>1. due = IF fst < hi - p.grace THEN <<>> ELSE <<fst>> BY <1>5 DEF Due
  <2>2. Min(missed) = fst BY <1>2, LeastIs
  <2>3. ToSet(due) = {x \in missed : x = Min(missed) /\ x >= hi - p.grace}
    <3> HIDE DEF due, missed
    <3>1. CASE fst < hi - p.grace
      <4>1. ToSet(due) = {} BY <2>1, <3>1, MembersOfFew
      <4> QED BY <4>1, <3>1, <2>2, <1>1
    <3>2. CASE ~(fst < hi - p.grace)
      <4>1. ToSet(due) = {fst} BY <2>1, <3>2, MembersOfFew
      <4> QED BY <4>1, <3>2, <2>2, <1>1, <1>2
    <3> QED BY <3>1, <3>2
  <2> QED BY <1>5, <2>3 DEF Promise
<1>6. CASE p.mode = "latest" /\ s.kind = "interval"
  <2>1. due = IF lat >= win THEN <<lat>> ELSE <<>> BY <1>6 DEF Due
  <2>2. lst \in Nat /\ fst <= lst /\ lst <= hi /\ (s.until # None => lst < s.until)
    BY DEF Selects, WellFormed, Smaller, None
  <2>3. /\ lat \in Nat /\ fst <= lat /\ lat <= lst /\ Selects(s, lat)
        /\ \A x \in Nat : Selects(s, x) /\ x <= lst => x <= lat
    <3> HIDE DEF lst
    <3> QED BY <1>6, <2>2, LatestIntervalIsLast
  <2>4. \A x \in missed : x <= lst
    BY DEF Chosen, Selects, WellFormed, Smaller, None
  <2> HIDE DEF lst, lat, due
  <2>5. lat \in missed /\ \A x \in missed : x <= lat
    BY <2>2, <2>3, <2>4 DEF Chosen
  <2>6. ToSet(due) = {x \in recent : x = Max(recent)}
    <3> HIDE DEF missed
    <3>1. CASE lat >= win
      <4>1. Max(recent) = lat /\ lat \in recent BY <1>2, <2>5, <3>1, LargestIs
      <4>2. ToSet(due) = {lat} BY <2>1, <3>1, MembersOfFew
      <4> QED BY <4>1, <4>2
    <3>2. CASE ~(lat >= win)
      <4>1. recent = {} BY <1>1, <1>2, <2>3, <2>5, <3>2
      <4>2. ToSet(due) = {} BY <2>1, <3>2, MembersOfFew
      <4> QED BY <4>1, <4>2
    <3> QED BY <3>1, <3>2
  <2> HIDE DEF recent, missed
  <2>7. due = Due(s, fst, hi, p) BY DEF due
  <2> QED BY <1>6, <2>6 DEF Promise, due, recent, missed
<1>7. CASE p.mode = "latest" /\ s.kind # "interval"
  <2>1. due = IF list = <<>> THEN <<>> ELSE <<Last(list)>> BY <1>7 DEF Due, list
  <2> HIDE DEF due
  <2>2. ToSet(due) = {x \in recent : x = Max(recent)}
    <3>1. CASE list = <<>>
      <4>1. recent = {} /\ ToSet(due) = {} BY <1>4, <2>1, <3>1, MembersOfFew
      <4> QED BY <4>1
    <3>2. CASE list # <<>>
      <4>1. list \in Seq(Nat) /\ Len(list) \in DOMAIN list /\ Last(list) = list[Len(list)]
            /\ DOMAIN list = 1 .. Len(list) /\ Len(list) \in Nat
        BY <1>4, <3>2 DEF Listed, Last
      <4>2. \A i \in DOMAIN list : list[i] <= list[Len(list)]
        BY <1>4, <4>1 DEF Listed, Increasing
      <4>3. Last(list) \in recent /\ \A x \in recent : x <= Last(list)
        <5> HIDE DEF recent
        <5> QED BY <1>4, <4>1, <4>2 DEF ToSet
      <4>4. Max(recent) = Last(list)
        <5> HIDE DEF recent
        <5> QED BY <1>2, <4>3, LargestIs
      <4>5. ToSet(due) = {Last(list)} BY <2>1, <3>2, MembersOfFew
      <4> HIDE DEF recent
      <4> QED BY <4>3, <4>4, <4>5
    <3> QED BY <3>1, <3>2
  <2> QED BY <1>7, <2>2 DEF Promise, due
<1>8. CASE p.mode = "catch_up"
  <2> DEFINE m == Smaller(Len(list), p.maxCatchUp)
  <2>1. due = SubSeq(list, 1, m) BY <1>8 DEF Due, list
  <2>2. list \in Seq(Nat) /\ DOMAIN list = 1 .. Len(list) /\ Len(list) \in Nat BY <1>4 DEF Listed
  <2>3. m \in Nat /\ m <= Len(list) /\ m = Smaller(p.maxCatchUp, Len(list)) BY <1>1, <2>2 DEF Smaller
  <2>4. Cardinality(recent) = Len(list)
    <3>1. cur - 1 \in Int BY <1>3
    <3> HIDE DEF recent, cur
    <3> QED BY <1>4, <3>1, ListCounts
  <2> HIDE DEF due, m, recent
  <2>5. Len(due) = m /\ DOMAIN due = 1 .. m /\ \A i \in 1 .. m : due[i] = list[i]
    BY <2>1, <2>2, <2>3
  <2>6. ToSet(due) \subseteq recent
    BY <1>4, <2>2, <2>3, <2>5 DEF ToSet
  <2>7. \A x \in ToSet(due), y \in recent \ ToSet(due) : x < y
    <3> TAKE x \in ToSet(due), y \in recent \ ToSet(due)
    <3>1. PICK i \in 1 .. m : x = list[i] BY <2>5 DEF ToSet
    <3>2. PICK j \in 1 .. Len(list) : y = list[j] BY <1>4, <2>2 DEF ToSet
    <3>3. ~(j <= m) BY <2>3, <2>5, <3>2 DEF ToSet
    <3>4. i < j /\ i \in DOMAIN list BY <2>2, <2>3, <3>3
    <3> QED BY <1>4, <2>2, <3>1, <3>2, <3>4 DEF Listed, Increasing
  <2> QED BY <1>8, <2>3, <2>4, <2>5, <2>6, <2>7 DEF Promise, due, recent
<1> QED BY <1>1, <1>5, <1>6, <1>7, <1>8 DEF Modes

\* A wakeup whose instant the schedule selects: nothing is due before it, and a late one
\* stores what the policy keeps.
LEMMA SelectedWakeup ==
  ASSUME NEW s, WellFormed(s), NEW nxt \in Nat, Selects(s, nxt), NEW hi \in Nat, NEW p
  PROVE  MaterializeSchedule(s, nxt, hi, p) =
           IF nxt > hi THEN [due |-> <<>>, next |-> nxt]
           ELSE [due |-> Due(s, nxt, hi, p), next |-> NextRunAfter(s, hi)]
<1>1. ~(s.from # None /\ nxt < s.from) /\ ~(s.until # None /\ nxt >= s.until) /\ nxt # None
  BY DEF Selects, WellFormed, None
<1> QED BY <1>1 DEF MaterializeSchedule

\* The policy of a task that catches up everything.
CatchesAll(p, horizon) == p.mode = "catch_up" /\ p.window >= horizon /\ p.maxCatchUp >= horizon

\* It stores every missed instant.
LEMMA NothingIsDropped ==
  ASSUME NEW s, WellFormed(s), NEW p, ValidPolicy(p), NEW fst \in Nat, NEW hi \in Nat, fst <= hi,
         p.mode = "catch_up", p.window >= hi - fst, p.maxCatchUp >= hi - fst + 1
  PROVE  ToSet(Due(s, fst, hi, p)) = Chosen(s, fst, hi)
<1> DEFINE list == RunsUntil(s, fst, hi)
<1>1. p.window \in Nat /\ p.maxCatchUp \in Nat BY DEF ValidPolicy
<1>2. Larger(fst, hi - p.window) = fst BY <1>1 DEF Larger
<1>3. Due(s, fst, hi, p) = SubSeq(list, 1, Smaller(Len(list), p.maxCatchUp))
  BY <1>2 DEF Due
<1>4. ToSet(list) = Chosen(s, fst, hi) /\ Listed(list, fst - 1, hi)
  BY RunsAreComplete, RunsAreListed
<1> HIDE DEF list
<1>5. Len(list) \in Nat /\ Len(list) <= hi - (fst - 1)
  <2>1. fst - 1 \in Int /\ fst - 1 <= hi OBVIOUS
  <2> QED BY <2>1, <1>4, ListIsShort
<1>6. Smaller(Len(list), p.maxCatchUp) = Len(list) BY <1>1, <1>5 DEF Smaller
<1>7. SubSeq(list, 1, Len(list)) = list BY <1>4 DEF Listed
<1> QED BY <1>3, <1>4, <1>6, <1>7

-----------------------------------------------------------------------------
(* The wakeups of one task in one process.                                  *)

\* The runs created so far are in order, in the past and before the next wakeup.
WakeupInv ==
  /\ clock \in Nat /\ schedule \in ScheduleSet /\ policy \in PolicySet
  /\ next \in Instant
  /\ Listed(created, -1, clock)
  /\ next # None => \A i \in DOMAIN created : created[i] < next

\* A list that goes on behind another one.
LEMMA ListsConnect ==
  ASSUME NEW a, NEW b, NEW mid \in Nat, NEW hi \in Nat,
         Listed(a, -1, hi), Listed(b, mid - 1, hi), \A i \in DOMAIN a : a[i] < mid
  PROVE  /\ Listed(a \o b, -1, hi)
         /\ \A n \in Nat : mid <= n /\ (\A i \in DOMAIN b : b[i] < n) =>
                             \A i \in DOMAIN (a \o b) : (a \o b)[i] < n
<1> DEFINE ab == a \o b
<1>1. /\ a \in Seq(Nat) /\ b \in Seq(Nat) /\ Len(a) \in Nat /\ Len(b) \in Nat
      /\ DOMAIN a = 1 .. Len(a) /\ DOMAIN b = 1 .. Len(b)
  BY DEF Listed
<1>2. ab \in Seq(Nat) /\ DOMAIN ab = 1 .. Len(a) + Len(b)
  BY <1>1
<1>3. \A i \in DOMAIN ab : IF i <= Len(a) THEN i \in DOMAIN a /\ ab[i] = a[i]
                           ELSE i - Len(a) \in DOMAIN b /\ ab[i] = b[i - Len(a)]
  BY <1>1
<1> HIDE DEF ab
<1>4. ASSUME NEW i \in DOMAIN ab PROVE -1 < ab[i] /\ ab[i] <= hi
  <2>1. CASE i <= Len(a) BY <1>3, <2>1 DEF Listed
  <2>2. CASE ~(i <= Len(a))
    <3>1. i - Len(a) \in DOMAIN b /\ ab[i] = b[i - Len(a)] BY <1>3, <2>2
    <3>2. b[i - Len(a)] \in Nat BY <1>1, <3>1
    <3> QED BY <3>1, <3>2 DEF Listed
  <2> QED BY <2>1, <2>2
<1>5. ASSUME NEW i \in DOMAIN ab, NEW j \in DOMAIN ab, i < j PROVE ab[i] < ab[j]
  <2>1. CASE j <= Len(a)
    <3>1. i \in DOMAIN a /\ j \in DOMAIN a /\ ab[i] = a[i] /\ ab[j] = a[j] BY <1>2, <1>3, <1>5, <2>1, <1>1
    <3> QED BY <3>1, <1>5 DEF Listed, Increasing
  <2>2. CASE i <= Len(a) /\ ~(j <= Len(a))
    <3>1. i \in DOMAIN a /\ ab[i] = a[i] /\ j - Len(a) \in DOMAIN b /\ ab[j] = b[j - Len(a)] BY <1>3, <2>2
    <3>2. a[i] \in Nat /\ b[j - Len(a)] \in Nat BY <1>1, <3>1
    <3>3. a[i] < mid /\ mid - 1 < b[j - Len(a)] BY <3>1 DEF Listed
    <3> QED BY <3>1, <3>2, <3>3
  <2>3. CASE ~(i <= Len(a)) /\ ~(j <= Len(a))
    <3>1. /\ i - Len(a) \in DOMAIN b /\ ab[i] = b[i - Len(a)]
          /\ j - Len(a) \in DOMAIN b /\ ab[j] = b[j - Len(a)]
      BY <1>3, <2>3
    <3>2. i - Len(a) < j - Len(a) BY <1>1, <1>2, <1>5
    <3> QED BY <3>1, <3>2 DEF Listed, Increasing
  <2>4. i \in Nat /\ j \in Nat BY <1>1, <1>2
  <2> QED BY <1>1, <1>5, <2>1, <2>2, <2>3, <2>4
<1>6. ASSUME NEW n \in Nat, mid <= n, \A i \in DOMAIN b : b[i] < n, NEW i \in DOMAIN ab PROVE ab[i] < n
  <2>1. CASE i <= Len(a)
    <3>1. i \in DOMAIN a /\ ab[i] = a[i] BY <1>3, <2>1
    <3>2. a[i] \in Nat /\ a[i] < mid BY <1>1, <3>1
    <3> QED BY <3>1, <3>2, <1>6
  <2>2. CASE ~(i <= Len(a)) BY <1>3, <1>6, <2>2
  <2> QED BY <2>1, <2>2
<1> QED BY <1>2, <1>4, <1>5, <1>6 DEF Listed, Increasing, ab

\* Wakeups and the passing of time keep the invariant.
LEMMA WakeupInvStep == WakeupInv /\ [Wake \/ Sleep]_wakeupVars => WakeupInv'
<1> SUFFICES ASSUME WakeupInv, [Wake \/ Sleep]_wakeupVars PROVE WakeupInv'
  OBVIOUS
<1>1. CASE Wake
  <2> DEFINE m == MaterializeSchedule(schedule, next, clock, policy)
  <2>1. /\ next \in Nat /\ clock \in Nat
        /\ WellFormed(schedule) /\ ValidPolicy(policy)
    BY <1>1, WakeupAssumption DEF WakeupInv, Wake, Instant
  <2>2. /\ Listed(m.due, next - 1, clock)
        /\ m.next \in Instant
        /\ m.next # None => m.next >= next /\ \A i \in DOMAIN m.due : m.due[i] < m.next
    BY <2>1, WakeupMovesOn
  <2>3. /\ next' = m.next /\ created' = created \o m.due
        /\ UNCHANGED <<schedule, policy, clock>>
    BY <1>1 DEF Wake
  <2> HIDE DEF m
  <2>4. Listed(created, -1, clock) /\ \A i \in DOMAIN created : created[i] < next
    BY <1>1 DEF WakeupInv, Wake
  <2>5. /\ Listed(created \o m.due, -1, clock)
        /\ \A n \in Nat : next <= n /\ (\A i \in DOMAIN m.due : m.due[i] < n) =>
                            \A i \in DOMAIN (created \o m.due) : (created \o m.due)[i] < n
    BY <2>1, <2>2, <2>4, ListsConnect
  <2> QED BY <2>1, <2>2, <2>3, <2>5 DEF WakeupInv, Instant
<1>2. CASE Sleep
  <2>1. clock' \in Nat /\ clock <= clock' /\ UNCHANGED <<schedule, policy, next, created>>
    BY <1>2, WakeupAssumption DEF Sleep, WakeupInv
  <2>2. Listed(created, -1, clock')
    <3>1. \A i \in DOMAIN created : created[i] \in Nat BY DEF WakeupInv, Listed
    <3> QED BY <2>1, <3>1 DEF WakeupInv, Listed
  <2> QED BY <2>1, <2>2 DEF WakeupInv
<1>3. CASE UNCHANGED wakeupVars
  BY <1>3 DEF WakeupInv, wakeupVars
<1> QED BY <1>1, <1>2, <1>3

\* However often and however late a task is woken, and whatever its misfire policy drops, no
\* instant is run twice and none early: every schedule, active period and policy
\* (materialize_schedule).
THEOREM InstantsRunOnce == WakeupSpec => []NothingRunsTwice
<1>1. CreateTask => WakeupInv
  <2> SUFFICES ASSUME CreateTask PROVE WakeupInv OBVIOUS
  <2>1. schedule \in ScheduleSet /\ policy \in PolicySet /\ clock = 0 /\ created = <<>>
        /\ next = NextRunAfter(schedule, 0)
    BY DEF CreateTask
  <2>2. next \in Instant BY <2>1, NextRunLater, WakeupAssumption
  <2> QED BY <2>1, <2>2, NoneIsListed DEF WakeupInv
<1>2. WakeupInv => NothingRunsTwice
  BY DEF WakeupInv, NothingRunsTwice, Listed, Increasing
<1> QED BY <1>1, <1>2, WakeupInvStep, PTL DEF WakeupSpec

\* No selected instant after the clock comes before the next wakeup.
NextIsNear == \A x \in Nat : Selects(schedule, x) /\ x > clock => next # None /\ next <= x

\* The runs of a policy that catches up everything have no gap.
NoGap ==
  CatchesAll(policy, WakeupHorizon) =>
    \A x \in Nat : Selects(schedule, x) /\ 0 < x /\ (next = None \/ x < next) => x \in ToSet(created)

FollowInv ==
  /\ WakeupInv
  /\ clock <= WakeupHorizon
  /\ next # None => Selects(schedule, next) /\ next > 0
  /\ NextIsNear
  /\ NoGap

\* A created task satisfies the invariant.
LEMMA FollowInvInit == CreateTask => FollowInv
<1> SUFFICES ASSUME CreateTask PROVE FollowInv OBVIOUS
<1>1. schedule \in ScheduleSet /\ policy \in PolicySet /\ clock = 0 /\ created = <<>>
      /\ next = NextRunAfter(schedule, 0)
  BY DEF CreateTask
<1>2. First(schedule, 0, next) BY <1>1, NextRunIsFirstAfter, WakeupAssumption
<1>3. WakeupInv BY <1>1, <1>2, NoneIsListed DEF WakeupInv, First
<1>4. NextIsNear BY <1>1, <1>2 DEF NextIsNear, First
<1>5. NoGap BY <1>2 DEF NoGap, First, Instant, None
<1> QED BY <1>1, <1>2, <1>3, <1>4, <1>5, WakeupAssumption DEF FollowInv, First

\* The members of a list that goes on.
LEMMA MembersConnect ==
  ASSUME NEW a \in Seq(Nat), NEW b \in Seq(Nat)
  PROVE  ToSet(a \o b) = ToSet(a) \cup ToSet(b)
<1> DEFINE ab == a \o b
<1>1. /\ Len(a) \in Nat /\ Len(b) \in Nat /\ DOMAIN a = 1 .. Len(a) /\ DOMAIN b = 1 .. Len(b)
      /\ DOMAIN ab = 1 .. Len(a) + Len(b)
  OBVIOUS
<1>2. \A i \in DOMAIN ab : IF i <= Len(a) THEN i \in DOMAIN a /\ ab[i] = a[i]
                           ELSE i - Len(a) \in DOMAIN b /\ ab[i] = b[i - Len(a)]
  BY <1>1
<1>3. \A i \in DOMAIN a : i \in DOMAIN ab /\ ab[i] = a[i] BY <1>1
<1>4. \A i \in DOMAIN b : i + Len(a) \in DOMAIN ab /\ ab[i + Len(a)] = b[i] BY <1>1
<1> HIDE DEF ab
<1>5. ToSet(ab) \subseteq ToSet(a) \cup ToSet(b) BY <1>2 DEF ToSet
<1>6. ToSet(a) \subseteq ToSet(ab) BY <1>3 DEF ToSet
<1>7. ToSet(b) \subseteq ToSet(ab) BY <1>4 DEF ToSet
<1> QED BY <1>5, <1>6, <1>7 DEF ab

\* A wakeup, early or late, leaves the first selected instant after the clock.
LEMMA WakeFollows ==
  ASSUME FollowInv, Wake
  PROVE  FollowInv' /\ First(schedule, clock, next')
<1> DEFINE m == MaterializeSchedule(schedule, next, clock, policy)
<1>1. /\ next \in Nat /\ next > 0 /\ clock \in Nat /\ clock <= WakeupHorizon /\ WakeupHorizon \in Nat
      /\ WellFormed(schedule) /\ ValidPolicy(policy) /\ Selects(schedule, next)
  BY WakeupAssumption DEF FollowInv, WakeupInv, Wake, Instant
<1>2. WakeupInv'
  BY WakeupInvStep DEF FollowInv
<1>3. /\ next' = m.next /\ created' = created \o m.due
      /\ UNCHANGED <<schedule, policy, clock>>
  BY DEF Wake
<1>4. m = IF next > clock THEN [due |-> <<>>, next |-> next]
          ELSE [due |-> Due(schedule, next, clock, policy), next |-> NextRunAfter(schedule, clock)]
  BY <1>1, SelectedWakeup
<1>5. m.due \in Seq(Nat)
  BY <1>1, WakeupMovesOn DEF Listed
<1> HIDE DEF m
<1>6. First(schedule, clock, next')
  <2>1. CASE next > clock
    BY <1>1, <1>3, <1>4, <2>1 DEF FollowInv, NextIsNear, First, Instant
  <2>2. CASE ~(next > clock)
    BY <1>1, <1>3, <1>4, <2>2, NextRunIsFirstAfter
  <2> QED BY <2>1, <2>2
<1>7. ToSet(created') = ToSet(created) \cup ToSet(m.due)
  BY <1>3, <1>5, MembersConnect DEF FollowInv, WakeupInv, Listed
<1>8. NoGap'
  <2> SUFFICES ASSUME CatchesAll(policy, WakeupHorizon), NEW x \in Nat, Selects(schedule, x), 0 < x,
                      next' = None \/ x < next', x \notin ToSet(created)
               PROVE  x \in ToSet(m.due)
    BY <1>3, <1>7 DEF NoGap
  <2>1. next <= x BY <1>1 DEF FollowInv, NoGap
  <2>2. x <= clock
    BY <1>6, <1>1, <1>3 DEF First, Instant
  <2>3. m.due = Due(schedule, next, clock, policy) BY <1>1, <1>4, <2>1, <2>2
  <2>4. policy.mode = "catch_up" /\ policy.window >= clock - next /\ policy.maxCatchUp >= clock - next + 1
    BY <1>1 DEF CatchesAll, ValidPolicy
  <2>5. ToSet(m.due) = Chosen(schedule, next, clock) BY <1>1, <2>1, <2>2, <2>3, <2>4, NothingIsDropped
  <2> QED BY <2>1, <2>2, <2>5 DEF Chosen
<1>9. NextIsNear' BY <1>3, <1>6 DEF NextIsNear, First
<1>10. next' # None => Selects(schedule, next)' /\ next' > 0
  BY <1>1, <1>3, <1>6 DEF First, Instant
<1> QED BY <1>1, <1>2, <1>3, <1>6, <1>8, <1>9, <1>10 DEF FollowInv

\* While the worker is away, the next wakeup stays the nearest one.
LEMMA SleepFollows ==
  ASSUME FollowInv, Sleep
  PROVE  FollowInv' /\ clock' # clock
<1>1. WakeupInv' BY WakeupInvStep DEF FollowInv
<1>2. /\ clock \in Nat /\ clock' \in Nat /\ clock < clock' /\ clock' <= WakeupHorizon
      /\ UNCHANGED <<schedule, policy, next, created>>
  BY WakeupAssumption DEF Sleep, FollowInv, WakeupInv
<1>3. NextIsNear' BY <1>2 DEF FollowInv, NextIsNear
<1>4. NoGap' BY <1>2 DEF FollowInv, NoGap
<1> QED BY <1>1, <1>2, <1>3, <1>4 DEF FollowInv

\* Every step keeps the invariant.
LEMMA FollowInvStep ==
  FollowInv /\ [Wake \/ Sleep]_wakeupVars => FollowInv'
<1> SUFFICES ASSUME FollowInv, [Wake \/ Sleep]_wakeupVars PROVE FollowInv' OBVIOUS
<1>1. CASE Wake BY <1>1, WakeFollows
<1>2. CASE Sleep BY <1>2, SleepFollows
<1>3. CASE UNCHANGED wakeupVars
  <2>1. WakeupInv' BY WakeupInvStep DEF FollowInv
  <2> QED BY <1>3, <2>1 DEF FollowInv, NextIsNear, NoGap, wakeupVars
<1> QED BY <1>1, <1>2, <1>3

\* The first instant after t is the least one of the occurrences until any later horizon.
LEMMA FirstIsLeast ==
  ASSUME NEW s, NEW t \in Nat, NEW n, First(s, t, n), NEW h \in Nat
  PROVE  n = LeastOf({x \in Occurrences(s, Larger(h, n)) : x > t})
<1> DEFINE T == {x \in Occurrences(s, Larger(h, n)) : x > t}
<1>1. T \in SUBSET Nat /\ \A x \in T : Selects(s, x) /\ x > t
  BY DEF Occurrences, First, Instant, None, Larger
<1>2. CASE n = None
  <2>1. T = {} BY <1>1, <1>2 DEF First
  <2> QED BY <1>2, <2>1 DEF LeastOf
<1>3. CASE n # None
  <2>1. n \in T /\ \A x \in T : n <= x
    <3>1. n \in Nat /\ n <= Larger(h, n) /\ Larger(h, n) \in Nat BY <1>3 DEF First, Instant, Larger
    <3>2. n \in T BY <1>3, <3>1 DEF First, Occurrences
    <3> QED BY <1>1, <3>2 DEF First
  <2> HIDE DEF T
  <2>2. Min(T) = n BY <1>1, <2>1, LeastIs
  <2> QED BY <2>1, <2>2 DEF LeastOf, T
<1> QED BY <1>2, <1>3

\* The invariant gives every part of WakeupsFollowSchedule that is about a state.
LEMMA FollowInvMeans ==
  ASSUME FollowInv
  PROVE  NextRunIsFirst /\ PolicyIsKept /\ NothingRunsTwice /\ NothingIsMissed
<1>1. /\ clock \in Nat /\ clock <= WakeupHorizon /\ WakeupHorizon \in Nat /\ next \in Instant
      /\ WellFormed(schedule) /\ ValidPolicy(policy) /\ 2 * WakeupHorizon \in Nat
  BY WakeupAssumption DEF FollowInv, WakeupInv
<1>2. NextRunIsFirst
  <2>1. First(schedule, clock, NextRunAfter(schedule, clock)) BY <1>1, NextRunIsFirstAfter
  <2> QED BY <1>1, <2>1, FirstIsLeast DEF NextRunIsFirst, IsFirstAfter
<1>3. NothingRunsTwice
  BY DEF FollowInv, WakeupInv, NothingRunsTwice, Listed, Increasing
<1>4. NothingIsMissed
  BY <1>1 DEF FollowInv, NoGap, CatchesAll, NothingIsMissed, Selected, Occurrences
<1>5. ASSUME next # None PROVE PolicyIsKept
  <2> DEFINE missed == {x \in Selected : next <= x /\ x <= clock}
             recent == {x \in missed : x >= clock - policy.window}
             m == MaterializeSchedule(schedule, next, clock, policy)
  <2>1. next \in Nat /\ Selects(schedule, next) BY <1>1, <1>5 DEF FollowInv, Instant
  <2>2. missed = Chosen(schedule, next, clock)
    BY <1>1, <2>1 DEF Selected, Occurrences, Chosen
  <2>3. m = IF next > clock THEN [due |-> <<>>, next |-> next]
            ELSE [due |-> Due(schedule, next, clock, policy), next |-> NextRunAfter(schedule, clock)]
    BY <1>1, <2>1, SelectedWakeup
  <2> HIDE DEF m
  <2>4. Promise(policy, next, clock, missed, recent, m.due)
    <3>1. CASE next > clock
      <4>1. missed = {} /\ recent = {} BY <1>1, <2>1, <2>2, <3>1 DEF Chosen
      <4>2. m.due = <<>> /\ ToSet(m.due) = {} /\ Len(m.due) = 0 BY <2>3, <3>1, MembersOfFew
      <4>3. Cardinality(recent) = 0 BY <4>1, FS_EmptySet
      <4>4. policy.maxCatchUp \in Nat /\ policy.mode \in Modes BY <1>1 DEF ValidPolicy
      <4>5. Len(m.due) = Smaller(policy.maxCatchUp, Cardinality(recent)) BY <4>2, <4>3, <4>4 DEF Smaller
      <4> HIDE DEF missed, recent
      <4> QED BY <4>1, <4>2, <4>4, <4>5 DEF Promise, Modes
    <3>2. CASE ~(next > clock)
      <4>1. m.due = Due(schedule, next, clock, policy) BY <2>3, <3>2
      <4>2. next <= clock BY <1>1, <2>1, <3>2
      <4> HIDE DEF missed
      <4> QED BY <1>1, <2>1, <2>2, <4>1, <4>2, DueIsAsPromised
    <3> QED BY <3>1, <3>2
  <2> HIDE DEF missed, recent
  <2> QED BY <1>5, <2>4 DEF PolicyIsKept, Promise, missed, recent, m
<1>6. next = None => PolicyIsKept BY DEF PolicyIsKept
<1> QED BY <1>2, <1>3, <1>4, <1>5, <1>6

\* Runs come at the instants the schedule selects and at no others, each once, as the misfire
\* policy promises, however late the wakeups are (next_run_after and materialize_schedule): for
\* every schedule, active period and policy, and every length of time.
THEOREM WakeupsFollow == WakeupSpec => WakeupsFollowSchedule
<1>1. FollowInv /\ [Wake \/ Sleep]_wakeupVars =>
        [clock' = clock => IsFirstAfter(clock, next')]_wakeupVars
  <2> SUFFICES ASSUME FollowInv, [Wake \/ Sleep]_wakeupVars, wakeupVars' # wakeupVars, clock' = clock
               PROVE  IsFirstAfter(clock, next')
    OBVIOUS
  <2>1. Wake BY SleepFollows
  <2>2. First(schedule, clock, next') BY <2>1, WakeFollows
  <2>3. clock \in Nat /\ 2 * WakeupHorizon \in Nat BY WakeupAssumption DEF FollowInv, WakeupInv
  <2>4. IsFirstAfter(clock, next') BY <2>2, <2>3, FirstIsLeast DEF IsFirstAfter
  <2> QED BY <2>4
<1>2. FollowInv => NextRunIsFirst /\ PolicyIsKept /\ NothingRunsTwice /\ NothingIsMissed
  BY FollowInvMeans
<1> QED BY <1>1, <1>2, FollowInvInit, FollowInvStep, PTL
        DEF WakeupSpec, WakeupsFollowSchedule, WakeupIsAccurate

-----------------------------------------------------------------------------
(* The task, its schedulers and its callers.                                *)

TaskCopy == [revision : Nat, status : {"enabled", "paused", "deleted"},
             schedule : Definitions, next : Instant]

CallbackType ==
  mat \in [Services -> [phase : {"idle", "due", "read", "sync"}, seen : TaskCopy \cup {NoTask}, at : Nat]]

CommandType ==
  cmd \in [Clients -> [phase : {"idle", "read", "stored", "sync"}, seen : TaskCopy \cup {NoTask},
                       kind : Commands \cup {"none"}]]

\* What a scheduler read before it materializes is an enabled task with a wakeup, of a
\* revision that is past or else has the definition in force.
CopyIsKnown(v) ==
  mat[v].phase = "read" =>
    /\ mat[v].seen \in TaskCopy
    /\ mat[v].seen.status = "enabled" /\ mat[v].seen.next # None
    /\ mat[v].seen.revision <= task.revision
    /\ mat[v].seen.revision = task.revision => mat[v].seen.schedule = task.schedule

ReplacementIsTask(c) == cmd[c].phase = "read" => cmd[c].seen \in TaskCopy /\ cmd[c].kind \in Commands

TaskInv ==
  /\ now \in Nat /\ task \in TaskCopy
  /\ CallbackType /\ CommandType
  /\ \A v \in Services : CopyIsKnown(v)
  /\ \A c \in Clients : ReplacementIsTask(c)

\* The three parts of StaleWorkIsHarmless, as one step.
HarmlessStep ==
  /\ task'.revision >= task.revision
  /\ task'.revision = task.revision =>
       task'.schedule = task.schedule /\ task'.status \in {task.status, "deleted"}
  /\ task.status = "deleted" => task' = task
  /\ \A r \in runs' \ runs : task.status = "enabled" /\ r.revision = task.revision /\ r.at >= task.next
  /\ task'.revision = task.revision /\ task'.next # task.next =>
       task.next # None /\ (task'.next = None \/ task'.next > task.next)

\* A created task satisfies the invariant.
LEMMA TaskInvInit == SchedulingInit => TaskInv
<1> SUFFICES ASSUME SchedulingInit PROVE TaskInv
  OBVIOUS
<1>1. PICK s \in Definitions :
        /\ task = [revision |-> 1, status |-> "enabled", schedule |-> s, next |-> NextRunAfter(s, 0)]
        /\ now = 0 /\ mat = [v \in Services |-> NoCallback] /\ cmd = [c \in Clients |-> NoCommand]
  BY DEF SchedulingInit
<1>2. NextRunAfter(s, 0) \in Instant
  BY NextRunLater, SchedulingAssumption
<1>3. NoTask \in TaskCopy \cup {NoTask}
  OBVIOUS
<1>4. CallbackType
  BY <1>1, <1>3 DEF CallbackType, NoCallback
<1>5. CommandType
  BY <1>1, <1>3 DEF CommandType, NoCommand
<1>6. task \in TaskCopy
  BY <1>1, <1>2 DEF TaskCopy
<1> QED BY <1>1, <1>4, <1>5, <1>6 DEF TaskInv, CopyIsKnown, ReplacementIsTask, NoCallback, NoCommand

\* A step of the rest of the system, or one that drops what a coroutine held.
LEMMA OtherSteps ==
  ASSUME TaskInv, task' = task, runs' = runs, now' \in Nat,
         CallbackType', \A v \in Services : mat'[v] = mat[v] \/ mat'[v].phase # "read",
         CommandType', \A c \in Clients : cmd'[c] = cmd[c] \/ cmd'[c].phase # "read"
  PROVE  TaskInv' /\ HarmlessStep
<1>1. \A v \in Services : CopyIsKnown(v)'
  BY DEF TaskInv, CopyIsKnown
<1>2. \A c \in Clients : ReplacementIsTask(c)'
  BY DEF TaskInv, ReplacementIsTask
<1>3. HarmlessStep
  BY DEF HarmlessStep, TaskInv, TaskCopy
<1> QED BY <1>1, <1>2, <1>3 DEF TaskInv

\* The Store's conditions make what was read from an older task harmless.
LEMMA StoreOccurrencesStep ==
  ASSUME TaskInv, NEW v \in Services, mat[v].phase = "read",
         MaterializationIsCurrent(mat[v].seen), StoreOccurrences(v), UNCHANGED <<now, cmd>>
  PROVE  TaskInv' /\ HarmlessStep
<1> DEFINE seen == mat[v].seen
           m == MaterializeSchedule(seen.schedule, seen.next, mat[v].at, Policy)
           stored == [seen EXCEPT !.next = m.next]
<1>1. /\ mat[v] \in [phase : {"idle", "due", "read", "sync"}, seen : TaskCopy \cup {NoTask}, at : Nat]
      /\ seen \in TaskCopy /\ task \in TaskCopy /\ mat[v].at \in Nat
  BY DEF TaskInv, CallbackType, CopyIsKnown
<1>2. /\ seen.revision = task.revision /\ seen.schedule = task.schedule
      /\ seen.status = "enabled" /\ task.status = "enabled"
      /\ seen.next = task.next /\ seen.next \in Nat
  BY <1>1 DEF TaskInv, CopyIsKnown, MaterializationIsCurrent, TaskCopy, Instant
<1>3. WellFormed(seen.schedule) /\ ValidPolicy(Policy)
  BY <1>1, SchedulingAssumption DEF TaskCopy
<1>4. /\ Listed(m.due, seen.next - 1, mat[v].at)
      /\ m.next \in Instant /\ (m.next # None => m.next >= seen.next)
  BY <1>1, <1>2, <1>3, WakeupMovesOn
<1>5. Materialized(v) = m
  BY DEF Materialized
<1>6. \A r \in PendingOccurrences(v) : r.revision = task.revision /\ r.at >= task.next
  <2> SUFFICES ASSUME NEW x \in ToSet(m.due) PROVE x >= task.next
    BY <1>2, <1>5 DEF PendingOccurrences
  <2> HIDE DEF m
  <2>1. PICK i \in DOMAIN m.due : x = m.due[i] BY DEF ToSet
  <2>2. m.due[i] \in Nat /\ seen.next - 1 < m.due[i] BY <1>4, <2>1 DEF Listed
  <2> QED BY <1>2, <2>1, <2>2
<1> HIDE DEF m
<1>7. stored \in TaskCopy /\ stored.revision = task.revision /\ stored.schedule = task.schedule
      /\ stored.status = "enabled" /\ stored.next = m.next
  BY <1>1, <1>2, <1>4 DEF TaskCopy
<1>8. CASE QueueFull(v)
  <2>1. /\ task' = task /\ runs' = runs /\ mat' = [mat EXCEPT ![v] = NoCallback] /\ cmd' = cmd /\ now' = now
    BY <1>8 DEF StoreOccurrences
  <2>2. CallbackType' BY <2>1 DEF TaskInv, CallbackType, NoCallback
  <2>3. CommandType' BY <2>1 DEF TaskInv, CommandType
  <2>4. \A u \in Services : mat'[u] = mat[u] \/ mat'[u].phase # "read"
    BY <2>1 DEF TaskInv, CallbackType, NoCallback
  <2> QED BY <2>1, <2>2, <2>3, <2>4, OtherSteps DEF TaskInv
<1>9. CASE ~QueueFull(v)
  <2>1. /\ task' = stored /\ runs' = runs \cup PendingOccurrences(v)
        /\ mat' = [mat EXCEPT ![v].phase = "sync", ![v].seen = stored] /\ cmd' = cmd /\ now' = now
    BY <1>5, <1>9 DEF StoreOccurrences
  <2> HIDE DEF seen, stored
  <2>2. CallbackType' BY <1>7, <2>1 DEF TaskInv, CallbackType
  <2>3. CommandType' BY <2>1 DEF TaskInv, CommandType
  <2>4. \A u \in Services : CopyIsKnown(u)'
    BY <1>7, <2>1 DEF TaskInv, CopyIsKnown, CallbackType
  <2>5. \A c \in Clients : ReplacementIsTask(c)'
    BY <2>1 DEF TaskInv, ReplacementIsTask
  <2>6. HarmlessStep
    <3>1. task.revision \in Nat BY <1>1 DEF TaskCopy
    <3>2. task'.next # task.next => task.next # None /\ (task'.next = None \/ task'.next > task.next)
      BY <1>2, <1>4, <1>7, <2>1 DEF Instant, None
    <3> QED BY <1>2, <1>6, <1>7, <2>1, <3>1, <3>2 DEF HarmlessStep
  <2> QED BY <1>7, <2>1, <2>2, <2>3, <2>4, <2>5, <2>6 DEF TaskInv
<1> QED BY <1>8, <1>9

\* A scheduler loop reads the task, and materializes it only if it still is what was read.
LEMMA LoopStepHarmless ==
  ASSUME TaskInv, NEW v \in Services, LoopStep(v)
  PROVE  TaskInv' /\ HarmlessStep
<1>1. CASE DispatchDue(v)
  <2>1. /\ task' = task /\ runs' = runs /\ now' = now /\ cmd' = cmd
        /\ mat' = [mat EXCEPT ![v].phase = "due"]
    BY <1>1 DEF DispatchDue, storeVars
  <2>2. CallbackType' BY <2>1 DEF TaskInv, CallbackType
  <2>3. CommandType' BY <2>1 DEF TaskInv, CommandType
  <2>4. \A u \in Services : mat'[u] = mat[u] \/ mat'[u].phase # "read"
    BY <2>1 DEF TaskInv, CallbackType
  <2> QED BY <2>1, <2>2, <2>3, <2>4, OtherSteps DEF TaskInv
<1>2. CASE ReadDue(v)
  <2>0. task' = task /\ runs' = runs /\ now' = now /\ cmd' = cmd
    BY <1>2 DEF ReadDue, storeVars
  <2>1. CommandType' BY <2>0 DEF TaskInv, CommandType
  <2>2. CASE WakeupOf(task) = None
    <3>1. mat' = [mat EXCEPT ![v] = NoCallback] BY <1>2, <2>2 DEF ReadDue
    <3>2. CallbackType' BY <3>1 DEF TaskInv, CallbackType, NoCallback
    <3>3. \A u \in Services : mat'[u] = mat[u] \/ mat'[u].phase # "read"
      BY <3>1 DEF TaskInv, CallbackType, NoCallback
    <3> QED BY <2>0, <2>1, <3>2, <3>3, OtherSteps DEF TaskInv
  <2>3. CASE WakeupOf(task) # None
    <3>1. mat' = [mat EXCEPT ![v] = [phase |-> "read", seen |-> task, at |-> now]]
      BY <1>2, <2>3 DEF ReadDue
    <3>2. CallbackType' BY <3>1 DEF TaskInv, CallbackType
    <3>3. task.status = "enabled" /\ task.next # None BY <2>3 DEF WakeupOf
    <3>4. \A u \in Services : CopyIsKnown(u)'
      <4> TAKE u \in Services
      <4>1. CASE u = v BY <2>0, <3>1, <3>3, <4>1 DEF TaskInv, CallbackType, CopyIsKnown, TaskCopy
      <4>2. CASE u # v BY <2>0, <3>1, <4>2 DEF TaskInv, CallbackType, CopyIsKnown
      <4> QED BY <4>1, <4>2
    <3>5. \A c \in Clients : ReplacementIsTask(c)' BY <2>0 DEF TaskInv, ReplacementIsTask
    <3>6. HarmlessStep BY <2>0 DEF HarmlessStep, TaskInv, TaskCopy
    <3> QED BY <2>0, <2>1, <3>2, <3>4, <3>5, <3>6 DEF TaskInv
  <2> QED BY <2>2, <2>3
<1>3. CASE MaterializeTask(v)
  <2>0. mat[v].phase = "read" /\ now' = now /\ cmd' = cmd
    BY <1>3 DEF MaterializeTask
  <2>1. CASE MaterializationIsCurrent(mat[v].seen) /\ StoreOccurrences(v)
    BY <2>0, <2>1, StoreOccurrencesStep
  <2>2. CASE /\ task' = task /\ runs' = runs
             /\ mat' \in {[mat EXCEPT ![v] = NoCallback], [mat EXCEPT ![v].phase = "sync", ![v].seen = task]}
    <3>1. CallbackType' BY <2>2 DEF TaskInv, CallbackType, NoCallback
    <3>2. CommandType' BY <2>0 DEF TaskInv, CommandType
    <3>3. \A u \in Services : mat'[u] = mat[u] \/ mat'[u].phase # "read"
      BY <2>2 DEF TaskInv, CallbackType, NoCallback
    <3> QED BY <2>0, <2>2, <3>1, <3>2, <3>3, OtherSteps DEF TaskInv
  <2> QED BY <1>3, <2>1, <2>2 DEF MaterializeTask
<1>4. CASE SyncMaterialized(v)
  <2>1. task' = task /\ runs' = runs /\ now' = now /\ cmd' = cmd /\ mat' = [mat EXCEPT ![v] = NoCallback]
    BY <1>4 DEF SyncMaterialized, storeVars
  <2>2. CallbackType' BY <2>1 DEF TaskInv, CallbackType, NoCallback
  <2>3. CommandType' BY <2>1 DEF TaskInv, CommandType
  <2>4. \A u \in Services : mat'[u] = mat[u] \/ mat'[u].phase # "read"
    BY <2>1 DEF TaskInv, CallbackType, NoCallback
  <2> QED BY <2>1, <2>2, <2>3, <2>4, OtherSteps DEF TaskInv
<1> QED BY <1>1, <1>2, <1>3, <1>4 DEF LoopStep

\* A command replaces the task it read, and deletes the one that is there.
LEMMA StoreCommandHarmless ==
  ASSUME TaskInv, NEW c \in Clients, StoreCommand(c)
  PROVE  TaskInv' /\ HarmlessStep
<1>0. /\ cmd[c].phase = "read" /\ task.status # "deleted" /\ task.revision = ExpectedRevision(c)
      /\ runs' = runs /\ mat' = mat /\ now' = now
      /\ \E p \in {"stored", "sync"} : cmd' = [cmd EXCEPT ![c].phase = p]
  BY DEF StoreCommand
<1>1. cmd[c].seen \in TaskCopy /\ task \in TaskCopy
  BY <1>0 DEF TaskInv, ReplacementIsTask
<1>2. CommandType'
  BY <1>0 DEF TaskInv, CommandType
<1>3. CallbackType'
  BY <1>0 DEF TaskInv, CallbackType
<1>4. \A d \in Clients : ReplacementIsTask(d)'
  BY <1>0 DEF TaskInv, CommandType, ReplacementIsTask
<1>5. CASE cmd[c].kind = "delete"
  <2>1. task' = [task EXCEPT !.status = "deleted"] BY <1>5 DEF StoreCommand
  <2>2. task' \in TaskCopy /\ task'.revision = task.revision /\ task'.schedule = task.schedule
        /\ task'.status = "deleted" /\ task'.next = task.next
    BY <1>1, <2>1 DEF TaskCopy
  <2>3. \A v \in Services : CopyIsKnown(v)' BY <1>0, <2>2 DEF TaskInv, CopyIsKnown
  <2>4. HarmlessStep BY <1>0, <1>1, <2>2 DEF HarmlessStep, TaskCopy
  <2> QED BY <1>0, <1>2, <1>3, <1>4, <2>2, <2>3, <2>4 DEF TaskInv
<1>6. CASE cmd[c].kind # "delete"
  <2>1. task' = cmd[c].seen BY <1>6 DEF StoreCommand
  <2>2. task.revision = cmd[c].seen.revision - 1 BY <1>0, <1>6 DEF ExpectedRevision
  <2>3. task' \in TaskCopy /\ task'.revision > task.revision /\ task.revision \in Nat /\ task'.revision \in Nat
    BY <1>1, <2>1, <2>2 DEF TaskCopy
  <2>4. \A v \in Services : CopyIsKnown(v)'
    BY <1>0, <2>3 DEF TaskInv, CopyIsKnown, TaskCopy
  <2>5. HarmlessStep BY <1>0, <2>3 DEF HarmlessStep
  <2> QED BY <1>0, <1>2, <1>3, <1>4, <2>3, <2>4, <2>5 DEF TaskInv
<1> QED BY <1>5, <1>6

\* Every command derives a task from the one it read.
LEMMA ProposalsAreTasks ==
  ASSUME TaskInv, NEW kind \in Commands, NEW p \in Proposals(task, kind)
  PROVE  p \in TaskCopy
<1>1. task \in TaskCopy /\ now \in Int /\ kind \in {"rename", "reschedule", "pause", "enable", "delete"}
  BY SchedulingAssumption DEF TaskInv
<1>2. \A s \in Definitions : NextRunAfter(s, now) \in Instant
  BY <1>1, SchedulingAssumption, NextRunLater
<1> DEFINE bumped == [task EXCEPT !.revision = @ + 1]
<1>6. bumped \in TaskCopy
  BY <1>1 DEF TaskCopy
<1>3. CASE kind \in {"rename", "pause", "delete"}
  <2>1. p \in {bumped, [bumped EXCEPT !.status = "paused"], [task EXCEPT !.status = "deleted"]}
    BY <1>3 DEF Proposals
  <2> HIDE DEF bumped
  <2> QED BY <1>1, <1>6, <2>1 DEF TaskCopy
<1>4. CASE kind = "reschedule"
  <2>1. PICK s \in Definitions :
          p = [bumped EXCEPT !.schedule = s,
                 !.next = IF task.status = "enabled" THEN NextRunAfter(s, now) ELSE @]
    BY <1>4 DEF Proposals
  <2>2. NextRunAfter(s, now) \in Instant BY <1>2
  <2>3. bumped.next = task.next BY <1>1 DEF TaskCopy
  <2> HIDE DEF bumped
  <2> QED BY <1>1, <1>6, <2>1, <2>2 DEF TaskCopy
<1>5. CASE kind = "enable"
  <2>1. p = [bumped EXCEPT !.status = "enabled", !.next = NextRunAfter(task.schedule, now)]
    BY <1>5 DEF Proposals
  <2>2. task.schedule \in Definitions BY <1>1 DEF TaskCopy
  <2>3. NextRunAfter(task.schedule, now) \in Instant BY <1>2, <2>2
  <2> HIDE DEF bumped
  <2> QED BY <1>1, <1>6, <2>1, <2>3 DEF TaskCopy
<1> QED BY <1>1, <1>3, <1>4, <1>5

\* A command replaces the task it read, and no other.
LEMMA CommandsHarmless ==
  ASSUME TaskInv, NEW c \in Clients, ReadForCommand(c) \/ CommandStep(c)
  PROVE  TaskInv' /\ HarmlessStep
<1>1. CASE ReadForCommand(c)
  <2>1. PICK kind \in Commands : \E p \in Proposals(task, kind) :
          cmd' = [cmd EXCEPT ![c] = [phase |-> "read", seen |-> p, kind |-> kind]]
    BY <1>1 DEF ReadForCommand
  <2>8. PICK p \in Proposals(task, kind) :
          cmd' = [cmd EXCEPT ![c] = [phase |-> "read", seen |-> p, kind |-> kind]]
    BY <2>1
  <2>2. p \in TaskCopy BY ProposalsAreTasks
  <2>3. task' = task /\ runs' = runs /\ now' = now /\ mat' = mat
    BY <1>1 DEF ReadForCommand, storeVars
  <2>4. CommandType' BY <2>8, <2>2 DEF TaskInv, CommandType
  <2>5. CallbackType' /\ \A v \in Services : CopyIsKnown(v)'
    BY <2>3 DEF TaskInv, CallbackType, CopyIsKnown
  <2>6. \A d \in Clients : ReplacementIsTask(d)'
    BY <2>8, <2>2 DEF TaskInv, CommandType, ReplacementIsTask
  <2>7. HarmlessStep BY <2>3 DEF HarmlessStep, TaskInv, TaskCopy
  <2> QED BY <2>3, <2>4, <2>5, <2>6, <2>7 DEF TaskInv
<1>2. CASE StoreCommand(c)
  BY <1>2, StoreCommandHarmless
<1>3. CASE RefuseCommand(c) \/ ReadStored(c) \/ SyncCommand(c)
  <2>1. /\ task' = task /\ runs' = runs /\ now' = now /\ mat' = mat
        /\ cmd' \in {[cmd EXCEPT ![c] = NoCommand], [cmd EXCEPT ![c].phase = "sync", ![c].seen = task]}
    BY <1>3 DEF RefuseCommand, ReadStored, SyncCommand, storeVars
  <2>2. CommandType' BY <2>1 DEF TaskInv, CommandType, NoCommand
  <2>3. CallbackType' BY <2>1 DEF TaskInv, CallbackType
  <2>4. \A d \in Clients : cmd'[d] = cmd[d] \/ cmd'[d].phase # "read"
    BY <2>1 DEF TaskInv, CommandType, NoCommand
  <2> QED BY <2>1, <2>2, <2>3, <2>4, OtherSteps DEF TaskInv
<1> QED BY <1>1, <1>2, <1>3 DEF CommandStep

\* Every step keeps the invariant and is harmless.
LEMMA TaskStep ==
  ASSUME TaskInv, [SchedulingNext]_schedulingVars
  PROVE  TaskInv' /\ HarmlessStep
<1>1. ASSUME NEW v \in Services, LoopStep(v) PROVE TaskInv' /\ HarmlessStep
  BY <1>1, LoopStepHarmless
<1>2. ASSUME NEW c \in Clients, ReadForCommand(c) \/ CommandStep(c) PROVE TaskInv' /\ HarmlessStep
  BY <1>2, CommandsHarmless
<1>3. ASSUME NEW v \in Services, Crash(v) PROVE TaskInv' /\ HarmlessStep
  <2>1. /\ task' = task /\ runs' = runs /\ now' = now
        /\ mat' = [mat EXCEPT ![v] = NoCallback]
        /\ cmd' = [c \in Clients |-> IF Home[c] = v THEN NoCommand ELSE cmd[c]]
    BY <1>3 DEF Crash, storeVars
  <2>2. CommandType' BY <2>1 DEF TaskInv, CommandType, NoCommand
  <2>3. CallbackType' BY <2>1 DEF TaskInv, CallbackType, NoCallback
  <2>4. \A c \in Clients : cmd'[c] = cmd[c] \/ cmd'[c].phase # "read"
    BY <2>1 DEF NoCommand
  <2>5. \A u \in Services : mat'[u] = mat[u] \/ mat'[u].phase # "read"
    BY <2>1 DEF TaskInv, CallbackType, NoCallback
  <2> QED BY <2>1, <2>2, <2>3, <2>4, <2>5, OtherSteps DEF TaskInv
<1>4. ASSUME task' = task, runs' = runs, now' \in Nat, mat' = mat, cmd' = cmd
      PROVE  TaskInv' /\ HarmlessStep
  <2>1. CallbackType' /\ CommandType' BY <1>4 DEF TaskInv, CallbackType, CommandType
  <2> QED BY <1>4, <2>1, OtherSteps
<1>5. ASSUME NEW v \in Services, RefreshStep(v) \/ StartEngine(v) \/ Repair(v)
      PROVE  TaskInv' /\ HarmlessStep
  BY <1>4, <1>5 DEF TaskInv, RefreshStep, ListTasks, ApplyInventory, ReadHinted, ApplyHinted,
                    StartEngine, Repair, storeVars
<1>6. CASE StartQueued \/ ClockTick
  BY <1>4, <1>6 DEF TaskInv, StartQueued, ClockTick, storeVars
<1>7. CASE UNCHANGED schedulingVars
  BY <1>4, <1>7 DEF TaskInv, schedulingVars
<1> QED BY <1>1, <1>2, <1>3, <1>5, <1>6, <1>7 DEF SchedulingNext

\* Nothing that was prepared from an older copy of the task changes it: accepted changes stay,
\* a late wakeup creates no run of a definition that is no longer in force, and two schedulers
\* at one wakeup do not move it back (_materialize_due_task against the task commands), for any
\* number of processes and callers, every schedule and every misfire policy.
THEOREM StaleCopiesAreHarmless == SchedulingSpec => StaleWorkIsHarmless
<1>1. TaskInv /\ [SchedulingNext]_schedulingVars => TaskInv' /\ HarmlessStep
  BY TaskStep
<1>2. HarmlessStep =>
        /\ task'.revision >= task.revision
           /\ (task'.revision = task.revision =>
                 task'.schedule = task.schedule /\ task'.status \in {task.status, "deleted"})
           /\ (task.status = "deleted" => task' = task)
        /\ \A r \in runs' \ runs :
             /\ task.status = "enabled"
             /\ r.revision = task.revision
             /\ r.at >= task.next
        /\ (task'.revision = task.revision /\ task'.next # task.next =>
              task.next # None /\ (task'.next = None \/ task'.next > task.next))
  BY DEF HarmlessStep
<1> QED BY <1>1, <1>2, TaskInvInit, PTL
        DEF SchedulingSpec, StaleWorkIsHarmless, AcceptedChangesStay, RunsFollowDefinition, WakeupAdvances

-----------------------------------------------------------------------------
(* The saved task, the runs and the schedulers of the processes.            *)

Copy == Task \cup {NoTask}
Refresh == [phase : {"down", "list", "listed", "hinted", "idle"}, seen : Copy]
Callback == [phase : {"idle", "due", "read", "sync"}, seen : Copy, at : 0..MaxTime]
Command == [phase : {"idle", "read", "stored", "sync"}, seen : Copy, kind : Commands \cup {"none"}]

StoreType ==
  /\ now \in 0..MaxTime
  /\ task \in Task
  /\ \A r \in runs : r.revision \in 1..MaxRevision /\ r.at \in 0..MaxTime
  /\ queued \in 0..MaxQueuedRuns
  /\ first \in Instants
  /\ crashes \in 0..MaxCrashes

ProcessType ==
  /\ job \in [Services -> Instants]
  /\ dirty \in [Services -> BOOLEAN]
  /\ hint \in [Services -> BOOLEAN]
  /\ sup \in [Services -> Refresh]
  /\ mat \in [Services -> Callback]

CallerType == cmd \in [Clients -> Command]

\* An enabled task's wakeup is at an instant that its schedule selects.
OnSchedule(t) == t.status = "enabled" /\ t.next # None => Selects(t.schedule, t.next)

GoodReplacement(c) == cmd[c].phase = "read" => cmd[c].seen \in Task /\ OnSchedule(cmd[c].seen)

\* With a policy that catches up everything, what the wakeup has passed is a run.
Kept ==
  CatchesUp /\ task.status = "enabled" =>
    \A x \in Nat : Selects(task.schedule, x) /\ first # None /\ first <= x
                   /\ (task.next = None \/ x < task.next) => [revision |-> task.revision, at |-> x] \in runs

SchedInv ==
  /\ TaskInv
  /\ StoreType /\ ProcessType /\ CallerType
  /\ OnSchedule(task)
  /\ \A c \in Clients : GoodReplacement(c)
  /\ Kept

\* The invariant gives the types, and that no run is lost.
LEMMA SchedInvMeans == SchedInv => SchedulingInvariant
<1> SUFFICES ASSUME SchedInv PROVE SchedulingInvariant OBVIOUS
<1>1. SchedulingTypeOK
  BY DEF SchedInv, StoreType, ProcessType, CallerType, SchedulingTypeOK, Refresh, Callback, Command, Copy
<1>2. NothingLost
  BY DEF SchedInv, Kept, NothingLost, Occurrences
<1> QED BY <1>1, <1>2 DEF SchedulingInvariant

\* A created task satisfies the invariant, before any process has started.
LEMMA SchedInvInit == SchedulingInit => SchedInv
<1> SUFFICES ASSUME SchedulingInit PROVE SchedInv OBVIOUS
<1>1. PICK s \in Definitions :
        /\ task = [revision |-> 1, status |-> "enabled", schedule |-> s, next |-> NextRunAfter(s, 0)]
        /\ task.next # None /\ first = task.next
        /\ now = 0 /\ runs = {} /\ queued = 0 /\ crashes = 0
        /\ job = [v \in Services |-> None] /\ dirty = [v \in Services |-> FALSE]
        /\ hint = [v \in Services |-> FALSE] /\ sup = [v \in Services |-> Down]
        /\ mat = [v \in Services |-> NoCallback] /\ cmd = [c \in Clients |-> NoCommand]
  BY DEF SchedulingInit
<1>2. First(s, 0, NextRunAfter(s, 0)) BY NextRunIsFirstAfter, SchedulingAssumption
<1>3. task \in Task
  BY <1>1, <1>2, SchedulingAssumption DEF Task, Instants, First, Instant
<1>4. StoreType BY <1>1, <1>3, SchedulingAssumption DEF StoreType, Task
<1>5. NoTask \in Copy BY DEF Copy
<1>6. ProcessType
  BY <1>1, <1>5, SchedulingAssumption DEF ProcessType, Instants, Refresh, Callback, Down, NoCallback
<1>7. CallerType BY <1>1, <1>5 DEF CallerType, Command, NoCommand
<1>8. OnSchedule(task) BY <1>1, <1>2 DEF OnSchedule, First
<1>9. \A c \in Clients : GoodReplacement(c) BY <1>1 DEF GoodReplacement, NoCommand
<1>10. Kept BY <1>1, <1>2 DEF Kept, First, Instant, None
<1> QED BY <1>4, <1>6, <1>7, <1>8, <1>9, <1>10, TaskInvInit DEF SchedInv

\* What a process schedules for a copy of the task is an instant, or nothing.
LEMMA WakeupIsInstant == \A t \in Copy : WakeupOf(t) \in Instants
  BY DEF Copy, WakeupOf, Task, NoTask, Instants, None

\* A change of the task reaches some processes.
LEMMA PublishKeepsTypes ==
  ASSUME Publish, dirty \in [Services -> BOOLEAN], hint \in [Services -> BOOLEAN]
  PROVE  dirty' \in [Services -> BOOLEAN] /\ hint' \in [Services -> BOOLEAN]
  BY DEF Publish

\* A step that leaves the Store's task and runs alone keeps what is said of them.
LEMMA StoreUntouched ==
  ASSUME SchedInv, TaskInv', task' = task, runs' = runs, first' = first,
         StoreType', ProcessType', CallerType', \A c \in Clients : GoodReplacement(c)'
  PROVE  SchedInv'
<1>1. OnSchedule(task)' BY DEF SchedInv, OnSchedule
<1>2. Kept' BY DEF SchedInv, Kept
<1> QED BY <1>1, <1>2 DEF SchedInv

\* Such a step of a process, the callers aside.
LEMMA ProcessStep ==
  ASSUME SchedInv, TaskInv', UNCHANGED <<now, storeVars, cmd, crashes>>, ProcessType'
  PROVE  SchedInv'
<1>1. task' = task /\ runs' = runs /\ first' = first /\ cmd' = cmd /\ now' = now /\ queued' = queued
      /\ crashes' = crashes
  BY DEF storeVars
<1>2. StoreType' BY <1>1 DEF SchedInv, StoreType
<1>3. CallerType' BY <1>1 DEF SchedInv, CallerType
<1>4. \A c \in Clients : GoodReplacement(c)' BY <1>1 DEF SchedInv, GoodReplacement
<1> QED BY <1>1, <1>2, <1>3, <1>4, StoreUntouched

\* The occurrences that a wakeup stores: a finite set of the revision's instants until now.
LEMMA PendingIsFinite ==
  ASSUME SchedInv, NEW v \in Services, mat[v].phase = "read"
  PROVE  /\ IsFiniteSet(PendingOccurrences(v)) /\ Cardinality(PendingOccurrences(v)) \in Nat
         /\ \A r \in PendingOccurrences(v) :
              r.revision = mat[v].seen.revision /\ r.at \in 0..mat[v].at
<1> DEFINE seen == mat[v].seen
           at == mat[v].at
           due == Materialized(v).due
           pending == {[revision |-> seen.revision, at |-> x] : x \in ToSet(due)}
<1>1. seen \in TaskCopy /\ seen.next # None BY DEF SchedInv, TaskInv, CopyIsKnown
<1>2. at \in Nat BY DEF SchedInv, ProcessType, Callback
<1>3. seen.next \in Nat /\ WellFormed(seen.schedule) /\ ValidPolicy(Policy)
  BY <1>1, SchedulingAssumption DEF TaskCopy, Instant
<1>4. Listed(due, seen.next - 1, at)
  <2>1. Listed(MaterializeSchedule(seen.schedule, seen.next, at, Policy).due, seen.next - 1, at)
    BY <1>2, <1>3, WakeupMovesOn
  <2> QED BY <2>1 DEF Materialized
<1>5. IsFiniteSet(ToSet(due))
  <2> HIDE DEF due
  <2>1. seen.next - 1 \in Int /\ at \in Int BY <1>2, <1>3
  <2> QED BY <1>4, <2>1, ListCounts
<1>6. \A x \in ToSet(due) : x \in 0..at
  <2> HIDE DEF due
  <2> QED BY <1>2, <1>4 DEF Listed, ToSet
<1> HIDE DEF due
<1>7. IsFiniteSet(pending)
  <2> DEFINE f == [x \in ToSet(due) |-> [revision |-> seen.revision, at |-> x]]
  <2>1. f \in [ToSet(due) -> pending] /\ \A r \in pending : \E x \in ToSet(due) : f[x] = r
    OBVIOUS
  <2>2. \A x, y \in ToSet(due) : f[x] = f[y] => x = y
    <3>1. \A x \in ToSet(due) : f[x].at = x OBVIOUS
    <3> HIDE DEF f
    <3> QED BY <3>1
  <2> HIDE DEF f
  <2>3. f \in Bijection(ToSet(due), pending)
    BY <2>1, <2>2 DEF Bijection, Injection, Surjection, IsInjective
  <2>4. ExistsBijection(ToSet(due), pending) BY <2>3 DEF ExistsBijection
  <2> QED BY <1>5, <2>4, FS_Bijection
<1>8. PendingOccurrences(v) = pending \ runs BY DEF PendingOccurrences, due
<1> HIDE DEF pending
<1>9. IsFiniteSet(PendingOccurrences(v)) BY <1>7, <1>8, FS_Difference
<1>10. Cardinality(PendingOccurrences(v)) \in Nat BY <1>9, FS_CardinalityType
<1> QED BY <1>6, <1>8, <1>9, <1>10 DEF pending

\* The Store's half of a wakeup: runs and wakeup move together, and a full queue stops both.
LEMMA OccurrencesAreKept ==
  ASSUME SchedInv, TaskInv', NEW v \in Services, mat[v].phase = "read",
         MaterializationIsCurrent(mat[v].seen), StoreOccurrences(v), UNCHANGED <<now, first, sup, cmd, crashes>>
  PROVE  SchedInv'
<1> DEFINE seen == mat[v].seen
           at == mat[v].at
           m == MaterializeSchedule(seen.schedule, seen.next, at, Policy)
           stored == [seen EXCEPT !.next = m.next]
           pending == PendingOccurrences(v)
<1>1. /\ mat[v] \in Callback /\ seen \in Task /\ task \in Task /\ at \in Nat /\ at <= MaxTime /\ MaxTime \in Nat
      /\ seen \in TaskCopy
  BY SchedulingAssumption
     DEF SchedInv, ProcessType, StoreType, Callback, Copy, NoTask, TaskInv, CopyIsKnown, TaskCopy
<1>2. /\ seen.revision = task.revision /\ seen.schedule = task.schedule
      /\ seen.status = "enabled" /\ task.status = "enabled"
      /\ seen.next = task.next /\ seen.next \in Nat /\ task.schedule \in Definitions
      /\ Selects(task.schedule, task.next)
  <2>1. seen.next # None /\ (seen.revision = task.revision => seen.schedule = task.schedule)
    BY <1>1 DEF SchedInv, TaskInv, CopyIsKnown
  <2>2. seen.revision = task.revision /\ task.status = "enabled" /\ seen.next = task.next
    BY DEF MaterializationIsCurrent
  <2>3. seen.status = "enabled" /\ seen.next \in Nat
    BY <1>1, <2>1 DEF SchedInv, TaskInv, CopyIsKnown, TaskCopy, Instant
  <2>4. task.schedule \in Definitions BY <1>1 DEF Task
  <2>5. Selects(task.schedule, task.next) BY <2>1, <2>2 DEF SchedInv, OnSchedule
  <2> HIDE DEF seen
  <2> QED BY <2>1, <2>2, <2>3, <2>4, <2>5
<1>3. WellFormed(task.schedule) /\ ValidPolicy(Policy)
  BY <1>2, SchedulingAssumption
<1>4. m = IF seen.next > at THEN [due |-> <<>>, next |-> seen.next]
          ELSE [due |-> Due(task.schedule, seen.next, at, Policy), next |-> NextRunAfter(task.schedule, at)]
  BY <1>1, <1>2, <1>3, SelectedWakeup
<1>5. /\ IsFiniteSet(pending) /\ Cardinality(pending) \in Nat
      /\ \A r \in pending : r.revision = task.revision /\ r.at \in 0..at
  BY <1>2, PendingIsFinite
<1>6. Materialized(v) = m BY DEF Materialized
<1>7. m.next \in Instants /\ (m.next # None => Selects(task.schedule, m.next))
      /\ (seen.next <= at => First(task.schedule, at, m.next))
      /\ (seen.next > at => m.next = seen.next)
  BY <1>1, <1>2, <1>3, <1>4, NextRunIsFirstAfter DEF First, Instants, Instant
<1>8. stored \in Task /\ stored.revision = task.revision /\ stored.schedule = task.schedule
      /\ stored.status = "enabled" /\ stored.next = m.next
  BY <1>1, <1>2, <1>7 DEF Task
<1>9. CASE QueueFull(v)
  <2>1. /\ job' = [job EXCEPT ![v] = Smaller(at + 1, MaxTime)]
        /\ dirty' = [dirty EXCEPT ![v] = TRUE]
        /\ mat' = [mat EXCEPT ![v] = NoCallback]
        /\ UNCHANGED <<task, runs, queued, hint>>
    BY <1>9 DEF StoreOccurrences
  <2>2. Smaller(at + 1, MaxTime) \in Instants BY <1>1 DEF Smaller, Instants
  <2>3. NoCallback \in Callback BY <1>1 DEF NoCallback, Callback, Copy
  <2>4. ProcessType' BY <2>1, <2>2, <2>3 DEF SchedInv, ProcessType
  <2> QED BY <2>1, <2>4, ProcessStep DEF storeVars
<1>10. CASE ~QueueFull(v)
  <2>1. /\ task' = stored
        /\ runs' = runs \cup pending
        /\ queued' = queued + Cardinality(pending)
        /\ Publish
        /\ mat' = [mat EXCEPT ![v].phase = "sync", ![v].seen = stored]
        /\ UNCHANGED job
    BY <1>6, <1>10 DEF StoreOccurrences
  <2>2. queued' \in 0..MaxQueuedRuns
    BY <1>5, <1>10, <2>1, SchedulingAssumption DEF SchedInv, StoreType, QueueFull
  <2> HIDE DEF stored, m, seen, pending
  <2>3. StoreType'
    BY <1>1, <1>5, <1>8, <2>1, <2>2 DEF SchedInv, StoreType, Task
  <2>4. ProcessType'
    <3>1. dirty' \in [Services -> BOOLEAN] /\ hint' \in [Services -> BOOLEAN]
      BY <2>1, PublishKeepsTypes DEF SchedInv, ProcessType
    <3>2. mat' \in [Services -> Callback] BY <1>8, <2>1 DEF SchedInv, ProcessType, Callback, Copy
    <3> QED BY <2>1, <3>1, <3>2 DEF SchedInv, ProcessType
  <2>5. CallerType' /\ \A c \in Clients : GoodReplacement(c)'
    BY DEF SchedInv, CallerType, GoodReplacement
  <2>6. OnSchedule(task)' BY <1>7, <1>8, <2>1 DEF OnSchedule
  <2>7. Kept'
    <3> SUFFICES ASSUME CatchesUp, NEW x \in Nat, Selects(task.schedule, x), first # None, first <= x,
                        task'.next = None \/ x < task'.next
                 PROVE  [revision |-> task.revision, at |-> x] \in runs \cup pending
      BY <1>8, <2>1 DEF Kept
    <3>1. CASE x < task.next
      BY <1>2, <3>1 DEF SchedInv, Kept
    <3>2. CASE ~(x < task.next)
      <4>1. task.next \in Nat /\ task.next <= x BY <1>2, <3>2
      <4>2. seen.next <= at
        BY <1>1, <1>2, <1>7, <1>8, <2>1, <4>1 DEF None
      <4>3. First(task.schedule, at, task'.next) BY <1>7, <1>8, <2>1, <4>2
      <4>4. x <= at BY <1>1, <4>3 DEF First, Instant
      <4>5. m.due = Due(task.schedule, task.next, at, Policy) BY <1>1, <1>2, <1>4, <4>2
      <4>6. Policy.mode = "catch_up" /\ Policy.window >= at - task.next /\ Policy.maxCatchUp >= at - task.next + 1
        BY <1>1, <1>3, <4>1 DEF CatchesUp, ValidPolicy
      <4>7. ToSet(m.due) = Chosen(task.schedule, task.next, at)
        BY <1>1, <1>2, <1>3, <4>1, <4>2, <4>5, <4>6, NothingIsDropped
      <4>8. x \in ToSet(m.due) BY <4>1, <4>4, <4>7 DEF Chosen
      <4> QED BY <1>2, <1>6, <4>8 DEF PendingOccurrences, pending, seen
    <3> QED BY <3>1, <3>2
  <2> QED BY <2>3, <2>4, <2>5, <2>6, <2>7 DEF SchedInv
<1> QED BY <1>9, <1>10

\* The scheduler loop.
LEMMA LoopKeeps ==
  ASSUME SchedInv, TaskInv', NEW v \in Services, LoopStep(v)
  PROVE  SchedInv'
<1>0. /\ job \in [Services -> Instants] /\ dirty \in [Services -> BOOLEAN] /\ hint \in [Services -> BOOLEAN]
      /\ sup \in [Services -> Refresh] /\ mat \in [Services -> Callback] /\ task \in Copy
      /\ now \in 0..MaxTime /\ NoCallback \in Callback /\ None \in Instants
      /\ mat[v].seen \in Copy
  BY SchedulingAssumption
     DEF SchedInv, ProcessType, StoreType, Copy, NoCallback, Callback, Instants
<1>1. CASE DispatchDue(v)
  <2>1. UNCHANGED <<now, storeVars, dirty, hint, sup, cmd, crashes>>
        /\ job' = [job EXCEPT ![v] = None] /\ mat' = [mat EXCEPT ![v].phase = "due"]
    BY <1>1 DEF DispatchDue
  <2>2. ProcessType' BY <1>0, <2>1 DEF ProcessType, Callback
  <2> QED BY <2>1, <2>2, ProcessStep
<1>2. CASE ReadDue(v)
  <2>1. UNCHANGED <<now, storeVars, hint, sup, cmd, crashes>> BY <1>2 DEF ReadDue
  <2>2. CASE WakeupOf(task) = None
    <3>1. SyncTask(v, task) /\ mat' = [mat EXCEPT ![v] = NoCallback] BY <1>2, <2>2 DEF ReadDue
    <3>2. ProcessType' BY <1>0, <2>1, <2>2, <3>1 DEF ProcessType, SyncTask
    <3> QED BY <2>1, <3>2, ProcessStep
  <2>3. CASE WakeupOf(task) # None
    <3>1. mat' = [mat EXCEPT ![v] = [phase |-> "read", seen |-> task, at |-> now]] /\ job' = job /\ dirty' = dirty
      BY <1>2, <2>3 DEF ReadDue
    <3>2. [phase |-> "read", seen |-> task, at |-> now] \in Callback BY <1>0 DEF Callback
    <3>3. ProcessType' BY <1>0, <2>1, <3>1, <3>2 DEF ProcessType
    <3> QED BY <2>1, <3>3, ProcessStep
  <2> QED BY <2>2, <2>3
<1>3. CASE MaterializeTask(v)
  <2>0. mat[v].phase = "read" /\ UNCHANGED <<now, first, sup, cmd, crashes>> BY <1>3 DEF MaterializeTask
  <2>1. CASE MaterializationIsCurrent(mat[v].seen) /\ StoreOccurrences(v)
    BY <2>0, <2>1, OccurrencesAreKept
  <2>2. CASE SyncTask(v, task) /\ mat' = [mat EXCEPT ![v] = NoCallback] /\ UNCHANGED <<task, runs, queued, hint>>
    <3>1. WakeupOf(task) \in Instants BY <1>0, WakeupIsInstant
    <3>2. ProcessType' BY <1>0, <2>0, <2>2, <3>1 DEF ProcessType, SyncTask
    <3> QED BY <2>0, <2>2, <3>2, ProcessStep DEF storeVars
  <2>3. CASE /\ mat' = [mat EXCEPT ![v].phase = "sync", ![v].seen = task]
             /\ UNCHANGED <<task, runs, queued, job, dirty, hint>>
    <3>1. ProcessType' BY <1>0, <2>0, <2>3 DEF ProcessType, Callback
    <3> QED BY <2>0, <2>3, <3>1, ProcessStep DEF storeVars
  <2> QED BY <1>3, <2>1, <2>2, <2>3 DEF MaterializeTask
<1>4. CASE SyncMaterialized(v)
  <2>1. UNCHANGED <<now, storeVars, hint, sup, cmd, crashes>> /\ SyncTask(v, mat[v].seen)
        /\ mat' = [mat EXCEPT ![v] = NoCallback]
    BY <1>4 DEF SyncMaterialized
  <2>2. WakeupOf(mat[v].seen) \in Instants BY <1>0, WakeupIsInstant
  <2>3. ProcessType' BY <1>0, <2>1, <2>2 DEF ProcessType, SyncTask
  <2> QED BY <2>1, <2>3, ProcessStep
<1> QED BY <1>1, <1>2, <1>3, <1>4 DEF LoopStep

\* The supervisor: startup, inventories and hints.
LEMMA RefreshKeeps ==
  ASSUME SchedInv, TaskInv', NEW v \in Services, RefreshStep(v) \/ StartEngine(v) \/ Repair(v)
  PROVE  SchedInv'
<1>0. /\ job \in [Services -> Instants] /\ dirty \in [Services -> BOOLEAN] /\ hint \in [Services -> BOOLEAN]
      /\ sup \in [Services -> Refresh] /\ mat \in [Services -> Callback] /\ task \in Copy
      /\ Listing \in Refresh /\ Waiting \in Refresh /\ sup[v].seen \in Copy
      /\ WakeupOf(sup[v].seen) \in Instants
  BY WakeupIsInstant DEF SchedInv, ProcessType, StoreType, Copy, Listing, Waiting, Refresh
<1>1. \A p \in {"listed", "hinted"} : [phase |-> p, seen |-> task] \in Refresh
  BY <1>0 DEF Refresh
<1>2. CASE ListTasks(v)
  <2>1. ProcessType' BY <1>0, <1>1, <1>2 DEF ProcessType, ListTasks
  <2> QED BY <1>2, <2>1, ProcessStep DEF ListTasks
<1>3. CASE ApplyInventory(v)
  <2>1. ProcessType' BY <1>0, <1>3 DEF ProcessType, ApplyInventory
  <2> QED BY <1>3, <2>1, ProcessStep DEF ApplyInventory
<1>4. CASE ReadHinted(v)
  <2>1. ProcessType' BY <1>0, <1>1, <1>4 DEF ProcessType, ReadHinted
  <2> QED BY <1>4, <2>1, ProcessStep DEF ReadHinted
<1>5. CASE ApplyHinted(v)
  <2>1. ProcessType' BY <1>0, <1>5 DEF ProcessType, ApplyHinted, SyncTask
  <2> QED BY <1>5, <2>1, ProcessStep DEF ApplyHinted
<1>6. CASE StartEngine(v) \/ Repair(v)
  <2>1. ProcessType' BY <1>0, <1>6 DEF ProcessType, StartEngine, Repair
  <2> QED BY <1>6, <2>1, ProcessStep DEF StartEngine, Repair
<1> QED BY <1>2, <1>3, <1>4, <1>5, <1>6 DEF RefreshStep

\* Every command derives a task within the bounds from the one it read, with its wakeup at
\* an instant of its schedule.
LEMMA ProposalsAreOnSchedule ==
  ASSUME SchedInv, NEW kind \in Commands, NEW p \in Proposals(task, kind), task.revision < MaxRevision
  PROVE  p \in Task /\ OnSchedule(p)
<1>1. task \in Task /\ now \in Int /\ kind \in {"rename", "reschedule", "pause", "enable", "delete"}
      /\ OnSchedule(task) /\ MaxRevision \in Nat
  BY SchedulingAssumption DEF SchedInv, StoreType
<1>2. \A s \in Definitions : NextRunAfter(s, now) \in Instants
        /\ (NextRunAfter(s, now) # None => Selects(s, NextRunAfter(s, now)))
  BY <1>1, SchedulingAssumption, NextRunIsFirstAfter DEF First, Instants, Instant
<1> DEFINE bumped == [task EXCEPT !.revision = @ + 1]
<1>3. bumped \in Task /\ bumped.status = task.status /\ bumped.schedule = task.schedule
      /\ bumped.next = task.next
  BY <1>1 DEF Task
<1>4. CASE kind \in {"rename", "pause", "delete"}
  <2>1. p \in {bumped, [bumped EXCEPT !.status = "paused"], [task EXCEPT !.status = "deleted"]}
    BY <1>4 DEF Proposals
  <2> HIDE DEF bumped
  <2>2. p \in Task /\ (p.status = "enabled" => p = bumped) BY <1>1, <1>3, <2>1 DEF Task
  <2> QED BY <1>1, <1>3, <2>2 DEF OnSchedule
<1>5. CASE kind = "reschedule"
  <2>1. PICK s \in Definitions :
          p = [bumped EXCEPT !.schedule = s,
                 !.next = IF task.status = "enabled" THEN NextRunAfter(s, now) ELSE @]
    BY <1>5 DEF Proposals
  <2> DEFINE n == NextRunAfter(s, now)
  <2>2. n \in Instants /\ (n # None => Selects(s, n)) BY <1>2
  <2> HIDE DEF bumped, n
  <2>3. p = [bumped EXCEPT !.schedule = s, !.next = IF task.status = "enabled" THEN n ELSE @] BY <2>1 DEF n
  <2>4. p \in Task /\ p.status = task.status /\ p.schedule = s /\ (task.status = "enabled" => p.next = n)
    BY <1>3, <2>2, <2>3 DEF Task
  <2> QED BY <2>2, <2>4 DEF OnSchedule
<1>6. CASE kind = "enable"
  <2> DEFINE n == NextRunAfter(task.schedule, now)
  <2>1. p = [bumped EXCEPT !.status = "enabled", !.next = n]
    BY <1>6 DEF Proposals
  <2>2. task.schedule \in Definitions BY <1>1 DEF Task
  <2>3. n \in Instants /\ (n # None => Selects(task.schedule, n)) BY <1>2, <2>2
  <2> HIDE DEF bumped, n
  <2>4. p \in Task /\ p.schedule = task.schedule /\ p.next = n BY <1>3, <2>1, <2>3 DEF Task
  <2> QED BY <2>3, <2>4 DEF OnSchedule
<1> QED BY <1>1, <1>4, <1>5, <1>6

\* A stored command puts the wakeup of its revision: nothing has been passed yet.
LEMMA StoreCommandKeeps ==
  ASSUME SchedInv, TaskInv', NEW c \in Clients, StoreCommand(c)
  PROVE  SchedInv'
<1>0. /\ cmd[c].phase = "read" /\ task.status # "deleted"
      /\ task' = IF cmd[c].kind = "delete" THEN [task EXCEPT !.status = "deleted"] ELSE cmd[c].seen
      /\ first' = task'.next
      /\ queued' = IF cmd[c].kind = "delete" THEN 0 ELSE queued
      /\ Publish
      /\ cmd' = [cmd EXCEPT ![c].phase = IF cmd[c].kind \in {"rename", "reschedule"} THEN "stored" ELSE "sync"]
      /\ UNCHANGED <<now, runs, job, sup, mat, crashes>>
  BY DEF StoreCommand
<1>1. task \in Task /\ cmd[c].seen \in Task /\ OnSchedule(cmd[c].seen) /\ cmd \in [Clients -> Command]
  BY <1>0 DEF SchedInv, StoreType, GoodReplacement, CallerType
<1>2. task' \in Task /\ OnSchedule(task')
  BY <1>0, <1>1 DEF Task, OnSchedule
<1>3. task'.next \in Instants BY <1>2 DEF Task
<1>4. StoreType'
  <2>1. queued' \in 0..MaxQueuedRuns BY <1>0, SchedulingAssumption DEF SchedInv, StoreType
  <2> QED BY <1>0, <1>2, <1>3, <2>1 DEF SchedInv, StoreType
<1>5. ProcessType'
  <2>1. dirty' \in [Services -> BOOLEAN] /\ hint' \in [Services -> BOOLEAN]
    BY <1>0, PublishKeepsTypes DEF SchedInv, ProcessType
  <2> QED BY <1>0, <2>1 DEF SchedInv, ProcessType
<1>6. CallerType' BY <1>0, <1>1 DEF CallerType, Command
<1>7. \A d \in Clients : GoodReplacement(d)'
  <2>1. \A d \in Clients : cmd'[d] = cmd[d] \/ cmd'[d].phase # "read" BY <1>0, <1>1 DEF Command
  <2> QED BY <2>1 DEF SchedInv, GoodReplacement
<1>8. Kept'
  <2>1. ~\E x \in Nat : first' # None /\ first' <= x /\ (task'.next = None \/ x < task'.next)
    BY <1>0, <1>3 DEF Instants, None
  <2> QED BY <2>1 DEF Kept
<1> QED BY <1>2, <1>4, <1>5, <1>6, <1>7, <1>8 DEF SchedInv

\* The rest of a command leaves the task alone.
LEMMA CommandKeeps ==
  ASSUME SchedInv, TaskInv', NEW c \in Clients, ReadForCommand(c) \/ CommandStep(c)
  PROVE  SchedInv'
<1>0. cmd \in [Clients -> Command] /\ task \in Copy /\ NoCommand \in Command
      /\ job \in [Services -> Instants] /\ dirty \in [Services -> BOOLEAN] /\ hint \in [Services -> BOOLEAN]
      /\ Home[c] \in Services
  BY SchedulingAssumption DEF SchedInv, CallerType, StoreType, ProcessType, Copy, NoCommand, Command
<1>1. ASSUME UNCHANGED <<now, storeVars, crashes>>, ProcessType', CallerType',
             \A d \in Clients : GoodReplacement(d)'
      PROVE  SchedInv'
  <2>1. task' = task /\ runs' = runs /\ first' = first /\ now' = now /\ queued' = queued /\ crashes' = crashes
    BY <1>1 DEF storeVars
  <2>2. StoreType' BY <2>1 DEF SchedInv, StoreType
  <2> QED BY <1>1, <2>1, <2>2, StoreUntouched
<1>2. CASE ReadForCommand(c)
  <2>0. PICK kind \in Commands : \E p \in Proposals(task, kind) :
          cmd' = [cmd EXCEPT ![c] = [phase |-> "read", seen |-> p, kind |-> kind]]
    BY <1>2 DEF ReadForCommand
  <2>1. PICK p \in Proposals(task, kind) :
          cmd' = [cmd EXCEPT ![c] = [phase |-> "read", seen |-> p, kind |-> kind]]
    BY <2>0
  <2>2. p \in Task /\ OnSchedule(p) BY <1>2, ProposalsAreOnSchedule DEF ReadForCommand
  <2>3. UNCHANGED <<now, storeVars, job, dirty, hint, sup, mat, crashes>> BY <1>2 DEF ReadForCommand
  <2>4. ProcessType' BY <2>3 DEF SchedInv, ProcessType
  <2>5. CallerType' BY <1>0, <2>1, <2>2 DEF CallerType, Command, Copy
  <2>6. \A d \in Clients : GoodReplacement(d)' BY <1>0, <2>1, <2>2 DEF SchedInv, GoodReplacement
  <2> QED BY <2>3, <2>4, <2>5, <2>6, <1>1
<1>3. CASE StoreCommand(c) BY <1>3, StoreCommandKeeps
<1>4. CASE RefuseCommand(c) \/ ReadStored(c)
  <2>1. /\ UNCHANGED <<now, storeVars, job, dirty, hint, sup, mat, crashes>>
        /\ cmd' \in {[cmd EXCEPT ![c] = NoCommand], [cmd EXCEPT ![c].phase = "sync", ![c].seen = task]}
    BY <1>4 DEF RefuseCommand, ReadStored
  <2>2. ProcessType' BY <2>1 DEF SchedInv, ProcessType
  <2>3. CallerType' BY <1>0, <2>1 DEF CallerType, Command
  <2>4. \A d \in Clients : cmd'[d] = cmd[d] \/ cmd'[d].phase # "read" BY <1>0, <2>1 DEF Command, NoCommand
  <2>5. \A d \in Clients : GoodReplacement(d)' BY <2>4 DEF SchedInv, GoodReplacement
  <2> QED BY <2>1, <2>2, <2>3, <2>5, <1>1
<1>5. CASE SyncCommand(c)
  <2>1. /\ UNCHANGED <<now, storeVars, hint, sup, mat, crashes>>
        /\ SyncTask(Home[c], cmd[c].seen)
        /\ cmd' = [cmd EXCEPT ![c] = NoCommand]
    BY <1>5 DEF SyncCommand
  <2>2. WakeupOf(cmd[c].seen) \in Instants BY <1>0, WakeupIsInstant DEF Command
  <2>3. ProcessType' BY <1>0, <2>1, <2>2 DEF SchedInv, ProcessType, SyncTask
  <2>4. CallerType' BY <1>0, <2>1 DEF CallerType
  <2>5. \A d \in Clients : GoodReplacement(d)' BY <1>0, <2>1 DEF SchedInv, GoodReplacement, NoCommand
  <2> QED BY <2>1, <2>3, <2>4, <2>5, <1>1
<1> QED BY <1>2, <1>3, <1>4, <1>5 DEF CommandStep

\* A crash takes away what a process and its callers held, and nothing of the Store's.
LEMMA CrashKeeps ==
  ASSUME SchedInv, TaskInv', NEW v \in Services, Crash(v)
  PROVE  SchedInv'
<1>0. /\ UNCHANGED <<now, storeVars>> /\ crashes < MaxCrashes /\ crashes' = crashes + 1
      /\ job' = [job EXCEPT ![v] = None] /\ dirty' = [dirty EXCEPT ![v] = FALSE]
      /\ hint' = [hint EXCEPT ![v] = FALSE] /\ sup' = [sup EXCEPT ![v] = Down]
      /\ mat' = [mat EXCEPT ![v] = NoCallback]
      /\ cmd' = [c \in Clients |-> IF Home[c] = v THEN NoCommand ELSE cmd[c]]
  BY DEF Crash
<1>1. Down \in Refresh /\ NoCallback \in Callback /\ NoCommand \in Command /\ None \in Instants
  BY SchedulingAssumption DEF Refresh, Callback, Command, Down, NoCallback, NoCommand, Copy, Instants
<1>2. task' = task /\ runs' = runs /\ first' = first /\ now' = now /\ queued' = queued
  BY <1>0 DEF storeVars
<1>3. StoreType' BY <1>0, <1>2, SchedulingAssumption DEF SchedInv, StoreType
<1>4. ProcessType' BY <1>0, <1>1 DEF SchedInv, ProcessType
<1>5. CallerType' BY <1>0, <1>1 DEF SchedInv, CallerType
<1>6. \A c \in Clients : GoodReplacement(c)' BY <1>0, <1>2 DEF SchedInv, GoodReplacement, NoCommand
<1> QED BY <1>2, <1>3, <1>4, <1>5, <1>6, StoreUntouched

\* Every step of a process, a caller or the surroundings keeps the invariant.
LEMMA SchedInvStep == SchedInv /\ [SchedulingNext]_schedulingVars => SchedInv'
<1> SUFFICES ASSUME SchedInv, [SchedulingNext]_schedulingVars PROVE SchedInv' OBVIOUS
<1>0. TaskInv' BY TaskStep DEF SchedInv
<1>1. ASSUME NEW v \in Services, LoopStep(v) PROVE SchedInv' BY <1>0, <1>1, LoopKeeps
<1>2. ASSUME NEW v \in Services, RefreshStep(v) \/ StartEngine(v) \/ Repair(v) PROVE SchedInv'
  BY <1>0, <1>2, RefreshKeeps
<1>3. ASSUME NEW v \in Services, Crash(v) PROVE SchedInv' BY <1>0, <1>3, CrashKeeps
<1>4. ASSUME NEW c \in Clients, ReadForCommand(c) \/ CommandStep(c) PROVE SchedInv'
  BY <1>0, <1>4, CommandKeeps
<1>5. CASE StartQueued \/ ClockTick \/ UNCHANGED schedulingVars
  <2>1. /\ UNCHANGED <<task, runs, first, job, dirty, hint, sup, mat, cmd, crashes>>
        /\ now' \in 0..MaxTime /\ queued' \in 0..MaxQueuedRuns
    BY <1>5, SchedulingAssumption
       DEF StartQueued, ClockTick, schedulingVars, storeVars, SchedInv, StoreType
  <2>2. StoreType' BY <2>1 DEF SchedInv, StoreType
  <2>3. ProcessType' /\ CallerType' BY <2>1 DEF SchedInv, ProcessType, CallerType
  <2>4. \A c \in Clients : GoodReplacement(c)' BY <2>1 DEF SchedInv, GoodReplacement
  <2> QED BY <1>0, <2>1, <2>2, <2>3, <2>4, StoreUntouched
<1> QED BY <1>1, <1>2, <1>3, <1>4, <1>5 DEF SchedulingNext

\* The queue of runs keeps its limit, and with a policy that catches up everything no instant
\* that the wakeup has passed is without its run, whatever the races between schedulers and
\* commands, crashes, lost hints and full queues: for any number of processes and callers
\* (materialize_task, which moves the wakeup only together with the runs).
THEOREM NoRunIsLost == SchedulingSpec => []SchedulingInvariant
  BY SchedInvInit, SchedInvStep, SchedInvMeans, PTL DEF SchedulingSpec
=============================================================================
