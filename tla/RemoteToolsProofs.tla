--------------------------- MODULE RemoteToolsProofs ---------------------------
(***************************************************************************)
(* For any sessions, operations, processes, frames and faults: a tool has  *)
(* its effect once and its callers are told so, and the two ledgers tell   *)
(* one story.                                                               *)
(***************************************************************************)
EXTENDS RemoteTools, FiniteSetTheorems, WellFoundedInduction, TLAPS

-----------------------------------------------------------------------------
(* Induction over the natural numbers, and what it gives of finite sets.    *)

\* A set that has 0 and is closed under successors has every natural number.
LEMMA NaturalInduction ==
  ASSUME NEW S, 0 \in S, \A n \in Nat : n \in S => n + 1 \in S
  PROVE  \A n \in Nat : n \in S
<1> SUFFICES ASSUME NEW k \in Nat, k \notin S PROVE FALSE
  OBVIOUS
<1> DEFINE T == {n \in Nat : n \notin S}
           R == OpToRel(<, Nat)
<1>1. PICK x \in T : \A y \in T : ~(<<y, x>> \in R)
  <2>1. IsWellFoundedOn(R, Nat) /\ T \subseteq Nat /\ T # {}
    BY NatLessThanWellFounded
  <2> HIDE DEF T, R
  <2> QED BY <2>1, WFMin
<1>2. x \in Nat /\ x # 0 /\ x - 1 \in Nat
  OBVIOUS
<1>3. <<x - 1, x>> \in R
  <2>1. <<x - 1, x>> \in Nat \X Nat BY <1>2
  <2>2. <<x - 1, x>>[1] < <<x - 1, x>>[2] BY <1>2
  <2> QED BY <2>1, <2>2 DEF OpToRel
<1>4. x - 1 \notin T
  BY <1>1, <1>3
<1> QED BY <1>2, <1>4

\* A bounded set of natural numbers that is not empty has a greatest one.
LEMMA MaxOfBounded ==
  ASSUME NEW n \in Nat, NEW T, T # {}, \A x \in T : x \in Nat /\ x <= n
  PROVE  Max(T) \in T /\ \A y \in T : y <= Max(T)
<1> DEFINE S == {k \in Nat : \A A \in SUBSET (0 .. k) : A # {} => \E x \in A : \A y \in A : y <= x}
<1>1. 0 \in S
  <2> SUFFICES ASSUME NEW A \in SUBSET (0 .. 0), A # {} PROVE \E x \in A : \A y \in A : y <= x
    OBVIOUS
  <2>1. \A x \in A : x = 0 OBVIOUS
  <2>2. PICK x \in A : TRUE OBVIOUS
  <2>3. \A y \in A : y <= x BY <2>1, <2>2
  <2> QED BY <2>3
<1>2. ASSUME NEW k \in Nat, k \in S PROVE k + 1 \in S
  <2> SUFFICES ASSUME NEW A \in SUBSET (0 .. k + 1), A # {} PROVE \E x \in A : \A y \in A : y <= x
    OBVIOUS
  <2>1. CASE k + 1 \in A
    BY <2>1
  <2>2. CASE k + 1 \notin A
    <3>1. A \in SUBSET (0 .. k) BY <2>2
    <3> QED BY <3>1, <1>2
  <2> QED BY <2>1, <2>2
<1> HIDE DEF S
<1>3. n \in S
  BY <1>1, <1>2, NaturalInduction
<1>4. T \in SUBSET (0 .. n)
  OBVIOUS
<1>5. PICK x \in T : \A y \in T : y <= x
  BY <1>3, <1>4 DEF S
<1>6. \A y \in T : x >= y
  BY <1>5
<1> QED BY <1>5, <1>6 DEF Max

\* An interval from 1 ends with its greatest number.
LEMMA MaxOfInterval ==
  ASSUME NEW k \in Nat, k # 0
  PROVE  Max(1 .. k) = k /\ (1 .. k) \ {k} = 1 .. (k - 1)
<1> DEFINE T == 1 .. k
<1>1. k \in T /\ \A x \in T : x \in Nat /\ x <= k
  OBVIOUS
<1>2. T # {}
  BY <1>1
<1> HIDE DEF T
<1>3. Max(T) \in T /\ \A y \in T : y <= Max(T)
  BY <1>1, <1>2, MaxOfBounded
<1> DEFINE m == Max(T)
<1>4. m \in Nat /\ m <= k /\ k <= m
  BY <1>1, <1>3
<1> HIDE DEF m
<1>5. m = k
  BY <1>4
<1>6. (1 .. k) \ {k} = 1 .. (k - 1)
  OBVIOUS
<1> QED BY <1>5, <1>6 DEF T, m

\* The same for the indices of a sequence.
LEMMA MaxOfPrefix ==
  ASSUME NEW n \in Nat, NEW k \in 1 .. n
  PROVE  Max(1 .. k) = k /\ (1 .. k) \ {k} = 1 .. (k - 1) /\ 1 .. k # {} /\ 1 .. k \in SUBSET (1 .. n)
<1>1. k \in Nat /\ k # 0
  OBVIOUS
<1>2. k \in 1 .. k /\ \A x \in 1 .. k : x \in 1 .. n
  OBVIOUS
<1> QED BY <1>1, <1>2, MaxOfInterval

\* The greatest of some indices is an index.
LEMMA MaxOfIndices ==
  ASSUME NEW n \in Nat, NEW s \in SUBSET (1 .. n), s # {}
  PROVE  Max(s) \in 1 .. n
<1>1. \A x \in s : x \in Nat /\ x <= n
  OBVIOUS
<1>2. Max(s) \in s
  BY <1>1, MaxOfBounded
<1> QED BY <1>2

\* The items of a sequence over a set are in it.
LEMMA ElementIn ==
  ASSUME NEW S, NEW q \in Seq(S), NEW k \in 1 .. Len(q)
  PROVE  q[k] \in S
  OBVIOUS

\* A finite set can be listed in the order of a number of its members.
LEMMA SortedListing ==
  ASSUME NEW S, IsFiniteSet(S), NEW key \in [S -> Nat]
  PROVE  \E q \in SetToSeqs(S) : \A i, j \in DOMAIN q : i < j => key[q[i]] <= key[q[j]]
<1> DEFINE Lists(A, q) == \A i, j \in 1 .. Cardinality(A) : i < j => q[i] # q[j] /\ key[q[i]] <= key[q[j]]
           T == {n \in Nat : \A A \in SUBSET S : Cardinality(A) = n =>
                                \E q \in [1 .. Cardinality(A) -> A] : Lists(A, q)}
<1>1. 0 \in T
  <2> SUFFICES ASSUME NEW A \in SUBSET S, Cardinality(A) = 0
               PROVE  \E q \in [1 .. Cardinality(A) -> A] : Lists(A, q)
    OBVIOUS
  <2>1. 1 .. Cardinality(A) = {} BY SMT
  <2>2. [i \in 1 .. Cardinality(A) |-> i] \in [1 .. Cardinality(A) -> A] BY <2>1
  <2> QED BY <2>1, <2>2
<1>2. ASSUME NEW n \in Nat, n \in T PROVE n + 1 \in T
  <2> SUFFICES ASSUME NEW A \in SUBSET S, Cardinality(A) = n + 1
               PROVE  \E q \in [1 .. Cardinality(A) -> A] : Lists(A, q)
    OBVIOUS
  <2>1. IsFiniteSet(A) BY FS_Subset
  <2>2. A # {} BY FS_EmptySet
  <2>3. PICK x \in A : \A y \in A : key[x] <= key[y]
    <3> DEFINE K == {key[a] : a \in A}
    <3>1. K # {} /\ K \in SUBSET Nat BY <2>2
    <3>2. \E k \in K : \A m \in K : k <= m
      <4> DEFINE R == OpToRel(<, Nat)
      <4>1. PICK k \in K : \A m \in K : ~(<<m, k>> \in R)
        <5>1. IsWellFoundedOn(R, Nat) BY NatLessThanWellFounded
        <5> HIDE DEF R, K
        <5> QED BY <3>1, <5>1, WFMin
      <4>2. ASSUME NEW m \in K PROVE k <= m
        <5>1. m \in Nat /\ k \in Nat BY <3>1
        <5>2. <<m, k>> \in Nat \X Nat /\ <<m, k>>[1] = m /\ <<m, k>>[2] = k BY <5>1
        <5>3. ~(m < k) BY <4>1, <5>2 DEF OpToRel
        <5> QED BY <5>1, <5>3
      <4> QED BY <4>2
    <3> QED BY <3>2
  <2> DEFINE B == A \ {x}
  <2>4. IsFiniteSet(B) /\ Cardinality(B) = n /\ B \in SUBSET S
    <3>1. IsFiniteSet(A \ {x}) /\ Cardinality(A \ {x}) = Cardinality(A) - 1
      BY <2>1, <2>3, FS_RemoveElement, Zenon
    <3> QED BY <3>1
  <2>5. PICK q \in [1 .. n -> B] : Lists(B, q)
    BY <1>2, <2>4
  <2> DEFINE r == [i \in 1 .. n + 1 |-> IF i = 1 THEN x ELSE q[i - 1]]
  <2>6. r \in [1 .. Cardinality(A) -> A]
    <3>1. \A i \in 1 .. n + 1 : i # 1 => i - 1 \in 1 .. n OBVIOUS
    <3> QED BY <3>1
  <2>7. Lists(A, r)
    <3> SUFFICES ASSUME NEW i \in 1 .. n + 1, NEW j \in 1 .. n + 1, i < j
                 PROVE  r[i] # r[j] /\ key[r[i]] <= key[r[j]]
      OBVIOUS
    <3>1. j - 1 \in 1 .. n /\ r[j] = q[j - 1] /\ q[j - 1] \in B OBVIOUS
    <3>2. CASE i = 1
      BY <3>1, <3>2, <2>3
    <3>3. CASE i # 1
      <4>1. i - 1 \in 1 .. n /\ r[i] = q[i - 1] /\ i - 1 < j - 1 BY <3>3
      <4> QED BY <4>1, <3>1, <2>5, <2>4
    <3> QED BY <3>2, <3>3
  <2> QED BY <2>6, <2>7
<1> HIDE DEF T
<1>3. Cardinality(S) \in Nat
  BY FS_CardinalityType
<1>4. Cardinality(S) \in T
  BY <1>1, <1>2, <1>3, NaturalInduction
<1>5. PICK q \in [1 .. Cardinality(S) -> S] : Lists(S, q)
  BY <1>4 DEF T
<1>6. q \in SetToSeqs(S)
  <2>1. \A i, j \in 1 .. Cardinality(S) : i # j => i < j \/ j < i BY <1>3
  <2> QED BY <1>5, <2>1 DEF SetToSeqs
<1> QED BY <1>5, <1>6

\* A listing of a finite set has its members and no other.
LEMMA ListingIsWhole ==
  ASSUME NEW S, IsFiniteSet(S), NEW q \in SetToSeqs(S)
  PROVE  /\ q \in Seq(S) /\ Cardinality(S) \in Nat
         /\ Len(q) = Cardinality(S) /\ DOMAIN q = 1 .. Cardinality(S)
         /\ \A e \in S : \E i \in DOMAIN q : q[i] = e
<1>1. Cardinality(S) \in Nat
  BY FS_CardinalityType
<1>2. q \in [1 .. Cardinality(S) -> S] /\ \A i, j \in 1 .. Cardinality(S) : i # j => q[i] # q[j]
  BY DEF SetToSeqs
<1>3. q \in Seq(S) /\ Len(q) = Cardinality(S)
  BY <1>1, <1>2
<1>4. q \in Injection(1 .. Cardinality(S), S)
  BY <1>2 DEF Injection, IsInjective
<1>5. IsFiniteSet(1 .. Cardinality(S)) /\ Cardinality(1 .. Cardinality(S)) = Cardinality(S)
  BY <1>1, FS_Interval
<1>6. q \in Surjection(1 .. Cardinality(S), S)
  BY <1>4, <1>5, FS_Injection
<1> QED BY <1>1, <1>2, <1>3, <1>6 DEF Surjection

-----------------------------------------------------------------------------
(* Folds over a sequence.  FoldLeft is defined by a recursive function on   *)
(* the sets of indices.  g stands for the fold's operation, a function of   *)
(* the index and of the value so far.                                       *)

\* f folds the indices 1 to n, from the greatest of a set down, into members of V.
FoldsInto(f, n, V, base, g) ==
  /\ f \in [SUBSET (1 .. n) -> V] /\ f[{}] = base
  /\ \A s \in SUBSET (1 .. n) : s # {} => f[s] = g[Max(s)][f[s \ {Max(s)}]]

\* The recursive function exists, and it stays among the values its step stays among.
LEMMA FoldExists ==
  ASSUME NEW n \in Nat, NEW V, NEW base \in V, NEW g, \A k \in 1 .. n, v \in V : g[k][v] \in V
  PROVE  \E f : FoldsInto(f, n, V, base, g)
<1> DEFINE Folds(f, m) ==
             /\ f = [s \in SUBSET (1 .. m) |-> IF s = {} THEN base ELSE g[Max(s)][f[s \ {Max(s)}]]]
             /\ \A s \in SUBSET (1 .. m) : f[s] \in V
           Has(m) == m <= n => \E f : Folds(f, m)
           S == {m \in Nat : Has(m)}
<1>1. Has(0)
  <2> DEFINE f == [s \in SUBSET (1 .. 0) |-> base]
  <2>1. SUBSET (1 .. 0) = {{}} BY SMT
  <2>2. \A s \in SUBSET (1 .. 0) : f[s] = IF s = {} THEN base ELSE g[Max(s)][f[s \ {Max(s)}]]
    BY <2>1
  <2>3. f = [s \in SUBSET (1 .. 0) |-> IF s = {} THEN base ELSE g[Max(s)][f[s \ {Max(s)}]]]
    BY <2>2
  <2>4. \A s \in SUBSET (1 .. 0) : f[s] \in V OBVIOUS
  <2> HIDE DEF f
  <2> QED BY <2>3, <2>4
<1>2. ASSUME NEW m \in Nat, Has(m) PROVE Has(m + 1)
  <2> SUFFICES ASSUME m + 1 <= n PROVE \E f : Folds(f, m + 1)
    OBVIOUS
  <2>1. PICK f : Folds(f, m)
    <3>1. m <= n OBVIOUS
    <3> HIDE DEF Folds
    <3> QED BY <1>2, <3>1
  <2> DEFINE h == [s \in SUBSET (1 .. m + 1) |-> IF m + 1 \in s THEN g[m + 1][f[s \ {m + 1}]] ELSE f[s]]
  <2>2. ASSUME NEW s \in SUBSET (1 .. m + 1)
        PROVE  h[s] = (IF s = {} THEN base ELSE g[Max(s)][h[s \ {Max(s)}]]) /\ h[s] \in V
    <3>1. CASE m + 1 \in s
      <4>1. Max(s) = m + 1
        <5>1. m + 1 \in Nat /\ s # {} /\ \A x \in s : x \in Nat /\ x <= m + 1 BY <3>1
        <5>2. Max(s) \in s /\ \A y \in s : y <= Max(s)
          BY <5>1, MaxOfBounded
        <5>3. Max(s) \in Nat /\ Max(s) <= m + 1 /\ m + 1 <= Max(s) BY <5>1, <5>2, <3>1
        <5> QED BY <5>3
      <4>2. s \ {m + 1} \in SUBSET (1 .. m) /\ s \ {m + 1} \in SUBSET (1 .. m + 1) /\ s # {}
        BY <3>1
      <4>3. h[s \ {m + 1}] = f[s \ {m + 1}]
        BY <4>2
      <4>4. f[s \ {m + 1}] \in V BY <2>1, <4>2
      <4>5. m + 1 \in 1 .. n OBVIOUS
      <4>6. g[m + 1][f[s \ {m + 1}]] \in V BY <4>4, <4>5
      <4>7. h[s] = g[m + 1][f[s \ {m + 1}]] BY <3>1
      <4> HIDE DEF h
      <4> QED BY <4>1, <4>2, <4>3, <4>6, <4>7
    <3>2. CASE m + 1 \notin s
      <4>1. s \in SUBSET (1 .. m) BY <3>2
      <4>2. h[s] = f[s] /\ f[s] \in V BY <3>2, <4>1, <2>1
      <4>3. f[s] = IF s = {} THEN base ELSE g[Max(s)][f[s \ {Max(s)}]]
        BY <4>1, <2>1
      <4>4. s # {} => h[s \ {Max(s)}] = f[s \ {Max(s)}]
        <5>1. s \ {Max(s)} \in SUBSET (1 .. m + 1) /\ m + 1 \notin s \ {Max(s)} BY <3>2
        <5> QED BY <5>1
      <4> QED BY <4>2, <4>3, <4>4
    <3> QED BY <3>1, <3>2
  <2>3. h = [s \in SUBSET (1 .. m + 1) |-> IF s = {} THEN base ELSE g[Max(s)][h[s \ {Max(s)}]]]
    BY <2>2
  <2> HIDE DEF h
  <2>4. Folds(h, m + 1) BY <2>2, <2>3
  <2> QED BY <2>4
<1> HIDE DEF Has
<1>3. 0 \in S /\ \A m \in Nat : m \in S => m + 1 \in S
  BY <1>1, <1>2
<1> HIDE DEF S
<1>4. n \in S
  BY <1>3, NaturalInduction
<1>5. Has(n)
  BY <1>4 DEF S
<1>6. n <= n
  OBVIOUS
<1> HIDE DEF Folds
<1>7. PICK f : Folds(f, n)
  BY <1>5, <1>6 DEF Has
<1>8. f \in [SUBSET (1 .. n) -> V] /\ {} \in SUBSET (1 .. n)
  BY <1>7 DEF Folds
<1>9. \A s \in SUBSET (1 .. n) : f[s] = IF s = {} THEN base ELSE g[Max(s)][f[s \ {Max(s)}]]
  BY <1>7 DEF Folds
<1> QED BY <1>8, <1>9 DEF FoldsInto

\* A function that satisfies the recursion goes through the stages P[0], P[1], ... that the
\* step leads through.
LEMMA FoldStages ==
  ASSUME NEW n \in Nat, NEW base, NEW iter, NEW P,
         iter[{}] = base, base \in P[0],
         \A k \in 1 .. n : iter[1 .. (k - 1)] \in P[k - 1] => iter[1 .. k] \in P[k]
  PROVE  iter[1 .. n] \in P[n]
<1> DEFINE S == {k \in Nat : k <= n => iter[1 .. k] \in P[k]}
<1>1. 0 \in S
  <2>1. 1 .. 0 = {} BY SMT
  <2> QED BY <2>1
<1>2. ASSUME NEW k \in Nat, k \in S PROVE k + 1 \in S
  <2>1. (k + 1) - 1 = k OBVIOUS
  <2>2. k + 1 <= n => k + 1 \in 1 .. n /\ k <= n OBVIOUS
  <2> QED BY <1>2, <2>1, <2>2
<1> HIDE DEF S
<1>3. n \in S BY <1>1, <1>2, NaturalInduction
<1> QED BY <1>3 DEF S

-----------------------------------------------------------------------------
(* The ledger's records.                                                    *)

Kinds == TerminalEvents \cup {"started", "output"}
ReplyKinds == {"ready", "error", "closed"}

Commands ==
  [type : {"open", "close"}, session : Sessions, operation : {None}]
  \cup [type : {"dispatch"}, session : Sessions, operation : Operations]
  \cup [type : {"cancel"}, session : {None}, operation : Operations]

Rows == [session : Sessions \cup {None}, events : Seq(Kinds), cancelled : BOOLEAN, retired : BOOLEAN]

Ledgers ==
  [sess : [Sessions -> {None, "open", "closed"}], replies : [Sessions -> SUBSET ReplyKinds],
   replyAcks : [Sessions -> SUBSET ReplyKinds], compacted : [Sessions -> BOOLEAN],
   op : [Operations -> Rows], eventAcks : [Operations -> Nat],
   commands : Seq([command : Commands, ack : BOOLEAN]),
   chunks : [Operations -> {None, "stored", "confirmed"}], revoked : BOOLEAN]

\* The commands of a ledger are commands.
LEMMA CommandsOf ==
  ASSUME NEW L \in Ledgers, NEW i \in DOMAIN L.commands
  PROVE  L.commands[i].command \in Commands
<1> DEFINE I == [command : Commands, ack : BOOLEAN]
<1>1. L.commands \in Seq(I)
  BY DEF Ledgers
<1>2. \A x \in I : x.command \in Commands
  OBVIOUS
<1> HIDE DEF I
<1>3. i \in 1 .. Len(L.commands)
  BY <1>1
<1>4. L.commands[i] \in I
  BY <1>1, <1>3, ElementIn
<1> QED BY <1>2, <1>4

\* The commands that wait for their receipt are commands of the ledger.
LEMMA PendingAreCommands ==
  ASSUME NEW L \in Ledgers, NEW S, \A i \in DOMAIN L.commands : L.commands[i].command \in S
  PROVE  PendingCommands(L) \in Seq(S)
<1> DEFINE C == L.commands
           n == Len(C)
           V == Seq(S)
           g == [k \in 1 .. n |-> [v \in V |-> IF C[k].ack THEN v ELSE Append(v, C[k].command)]]
           Rec(f) == f = [s \in SUBSET DOMAIN C |->
                            IF s = {} THEN <<>>
                            ELSE IF C[Max(s)].ack THEN f[s \ {Max(s)}]
                                 ELSE Append(f[s \ {Max(s)}], C[Max(s)].command)]
           iter == CHOOSE f : Rec(f)
<1>1. PendingCommands(L) = iter[DOMAIN C]
  BY DEF PendingCommands, FoldLeft, MapThenFoldSet
<1>2. /\ n \in Nat /\ DOMAIN C = 1 .. n
      /\ \A k \in 1 .. n : C[k].command \in S
  <2>1. C \in Seq([command : Commands, ack : BOOLEAN]) BY DEF Ledgers
  <2>2. n \in Nat /\ DOMAIN C = 1 .. n BY <2>1
  <2> QED BY <2>2
<1>3. <<>> \in V
  OBVIOUS
<1>4. \A k \in 1 .. n, v \in V : g[k][v] = IF C[k].ack THEN v ELSE Append(v, C[k].command)
  OBVIOUS
<1>5. ASSUME NEW k \in 1 .. n, NEW v \in V PROVE g[k][v] \in V
  <2>1. C[k].command \in S BY <1>2
  <2>2. Append(v, C[k].command) \in V BY <2>1
  <2> HIDE DEF g
  <2> QED BY <1>4, <2>2
<1> HIDE DEF C, n, V, g
<1>6. \E f : Rec(f)
  <2>1. PICK f : FoldsInto(f, n, V, <<>>, g)
    BY <1>2, <1>3, <1>5, FoldExists
  <2>2. ASSUME NEW s \in SUBSET (1 .. n), s # {}
        PROVE  f[s] = IF C[Max(s)].ack THEN f[s \ {Max(s)}] ELSE Append(f[s \ {Max(s)}], C[Max(s)].command)
    <3>1. Max(s) \in 1 .. n BY <1>2, <2>2, MaxOfIndices
    <3>2. f[s \ {Max(s)}] \in V BY <2>1 DEF FoldsInto
    <3> QED BY <2>1, <2>2, <3>1, <3>2, <1>4 DEF FoldsInto
  <2>3. f = [s \in SUBSET (1 .. n) |->
               IF s = {} THEN <<>>
               ELSE IF C[Max(s)].ack THEN f[s \ {Max(s)}]
                    ELSE Append(f[s \ {Max(s)}], C[Max(s)].command)]
    BY <2>1, <2>2 DEF FoldsInto
  <2> QED BY <2>3, <1>2
<1>7. Rec(iter)
  BY <1>6
<1> HIDE DEF iter
<1>8. iter[{}] = <<>>
  BY <1>7, <1>2
<1>9. ASSUME NEW k \in 1 .. n
      PROVE  iter[1 .. k] = IF C[k].ack THEN iter[1 .. (k - 1)] ELSE Append(iter[1 .. (k - 1)], C[k].command)
  <2>1. Max(1 .. k) = k /\ (1 .. k) \ {k} = 1 .. (k - 1) /\ 1 .. k # {} /\ 1 .. k \in SUBSET (1 .. n)
    BY <1>2, MaxOfPrefix
  <2> QED BY <2>1, <1>7, <1>2
<1> DEFINE P == [k \in 0 .. n |-> V]
<1>10. iter[1 .. n] \in P[n]
  <2>1. <<>> \in P[0] BY <1>2, <1>3
  <2>2. ASSUME NEW k \in 1 .. n, iter[1 .. (k - 1)] \in P[k - 1] PROVE iter[1 .. k] \in P[k]
    <3>1. k \in 0 .. n /\ k - 1 \in 0 .. n BY <1>2
    <3>2. iter[1 .. (k - 1)] \in V BY <2>2, <3>1
    <3>3. g[k][iter[1 .. (k - 1)]] \in V BY <3>2, <1>5
    <3>4. iter[1 .. k] = g[k][iter[1 .. (k - 1)]] BY <3>2, <1>4, <1>9
    <3> QED BY <3>1, <3>3, <3>4
  <2> HIDE DEF P
  <2> QED BY <1>2, <1>8, <2>1, <2>2, FoldStages
<1>11. n \in 0 .. n /\ P[n] = V
  BY <1>2
<1> QED BY <1>1, <1>2, <1>10, <1>11 DEF V

-----------------------------------------------------------------------------
(* The three folds of a frame.  What every item keeps, the frame keeps.      *)

\* What the command of an item keeps, a frame's commands keep.
LEMMA CommandsInTurn ==
  ASSUME NEW S, NEW C0 \in Seq(S), NEW accept, NEW V, NEW so \in V,
         \A h \in V, c \in S :
           Applied(h, CommandRefused(h.ledger, c), WithCommand(h.ledger, c, accept)) \in V
  PROVE  CommandsHandled(so, C0, accept) \in V
<1> DEFINE C == C0
           n == Len(C)
           Op(v, k) == Applied(v, CommandRefused(v.ledger, C0[k]), WithCommand(v.ledger, C0[k], accept))
           g == [k \in 1 .. n |-> [v \in V |-> Op(v, k)]]
           Rec(f) == f = [s \in SUBSET DOMAIN C |-> IF s = {} THEN so ELSE Op(f[s \ {Max(s)}], Max(s))]
           iter == CHOOSE f : Rec(f)
<1>1. CommandsHandled(so, C0, accept) = iter[DOMAIN C]
  BY DEF CommandsHandled, FoldLeft, MapThenFoldSet
<1>2. n \in Nat /\ DOMAIN C = 1 .. n /\ \A k \in 1 .. n : C[k] \in S
  BY ElementIn
<1>4. \A k \in 1 .. n, v \in V : g[k][v] = Op(v, k) /\ Op(v, k) \in V
  BY <1>2
<1> HIDE DEF C, n, Op, g
<1>5. \A k \in 1 .. n, v \in V : g[k][v] \in V
  BY <1>4
<1>6. \E f : Rec(f)
  <2>1. PICK f : FoldsInto(f, n, V, so, g)
    BY <1>2, <1>5, FoldExists
  <2>2. ASSUME NEW s \in SUBSET (1 .. n), s # {}
        PROVE  f[s] = Op(f[s \ {Max(s)}], Max(s))
    <3>1. Max(s) \in 1 .. n BY <1>2, <2>2, MaxOfIndices
    <3>2. f[s \ {Max(s)}] \in V BY <2>1 DEF FoldsInto
    <3> QED BY <2>1, <2>2, <3>1, <3>2, <1>4 DEF FoldsInto
  <2>3. f = [s \in SUBSET (1 .. n) |-> IF s = {} THEN so ELSE Op(f[s \ {Max(s)}], Max(s))]
    BY <2>1, <2>2 DEF FoldsInto
  <2> QED BY <2>3, <1>2
<1>7. Rec(iter)
  BY <1>6
<1> HIDE DEF iter
<1>8. iter[{}] = so
  BY <1>7, <1>2
<1>9. \A k \in 1 .. n : iter[1 .. k] = Op(iter[1 .. (k - 1)], k)
  <2> TAKE k \in 1 .. n
  <2>1. Max(1 .. k) = k /\ (1 .. k) \ {k} = 1 .. (k - 1) /\ 1 .. k # {} /\ 1 .. k \in SUBSET (1 .. n)
    BY <1>2, MaxOfPrefix
  <2> QED BY <2>1, <1>7, <1>2
<1> DEFINE P == [k \in 0 .. n |-> V]
<1>10. iter[1 .. n] \in P[n]
  <2>1. so \in P[0] BY <1>2
  <2>2. ASSUME NEW k \in 1 .. n, iter[1 .. (k - 1)] \in P[k - 1] PROVE iter[1 .. k] \in P[k]
    <3>1. k \in 0 .. n /\ k - 1 \in 0 .. n BY <1>2
    <3>2. iter[1 .. (k - 1)] \in V BY <2>2, <3>1
    <3> QED BY <3>1, <3>2, <1>4, <1>9
  <2> HIDE DEF P
  <2> QED BY <1>2, <1>8, <2>1, <2>2, FoldStages
<1>11. n \in 0 .. n /\ P[n] = V
  BY <1>2
<1> QED BY <1>1, <1>2, <1>10, <1>11

\* The same for its chunks.
LEMMA ChunksInTurn ==
  ASSUME NEW A, IsFiniteSet(A), NEW V, NEW so \in V,
         \A h \in V, o \in A : Applied(h, ChunkRefused(h.ledger, o), WithChunk(h.ledger, o)) \in V
  PROVE  ChunksHandled(so, A) \in V
<1> DEFINE C == SetToSeq(A)
           n == Len(C)
           Op(v, k) == Applied(v, ChunkRefused(v.ledger, C[k]), WithChunk(v.ledger, C[k]))
           g == [k \in 1 .. n |-> [v \in V |-> Op(v, k)]]
           Rec(f) == f = [s \in SUBSET DOMAIN C |-> IF s = {} THEN so ELSE Op(f[s \ {Max(s)}], Max(s))]
           iter == CHOOSE f : Rec(f)
<1>1. ChunksHandled(so, A) = iter[DOMAIN C]
  BY DEF ChunksHandled, FoldLeft, MapThenFoldSet
<1>2. n \in Nat /\ DOMAIN C = 1 .. n /\ \A k \in 1 .. n : C[k] \in A
  <2>1. Cardinality(A) \in Nat /\ \E f \in [1 .. Cardinality(A) -> A] : IsInjective(f)
    <3>1. PICK f : f \in Bijection(1 .. Cardinality(A), A)
      BY FS_CardinalityType DEF ExistsBijection
    <3>2. f \in [1 .. Cardinality(A) -> A] /\ IsInjective(f)
      BY <3>1 DEF Bijection, Injection
    <3> QED BY <3>2, FS_CardinalityType
  <2>2. C \in [1 .. Cardinality(A) -> A] BY <2>1 DEF SetToSeq
  <2> HIDE DEF C
  <2>3. DOMAIN C = 1 .. Cardinality(A) /\ Len(C) = Cardinality(A) BY <2>1, <2>2
  <2> QED BY <2>1, <2>2, <2>3
<1>4. \A k \in 1 .. n, v \in V : g[k][v] = Op(v, k) /\ Op(v, k) \in V
  BY <1>2
<1> HIDE DEF C, n, Op, g
<1>5. \A k \in 1 .. n, v \in V : g[k][v] \in V
  BY <1>4
<1>6. \E f : Rec(f)
  <2>1. PICK f : FoldsInto(f, n, V, so, g)
    BY <1>2, <1>5, FoldExists
  <2>2. ASSUME NEW s \in SUBSET (1 .. n), s # {}
        PROVE  f[s] = Op(f[s \ {Max(s)}], Max(s))
    <3>1. Max(s) \in 1 .. n BY <1>2, <2>2, MaxOfIndices
    <3>2. f[s \ {Max(s)}] \in V BY <2>1 DEF FoldsInto
    <3> QED BY <2>1, <2>2, <3>1, <3>2, <1>4 DEF FoldsInto
  <2>3. f = [s \in SUBSET (1 .. n) |-> IF s = {} THEN so ELSE Op(f[s \ {Max(s)}], Max(s))]
    BY <2>1, <2>2 DEF FoldsInto
  <2> QED BY <2>3, <1>2
<1>7. Rec(iter)
  BY <1>6
<1> HIDE DEF iter
<1>8. iter[{}] = so
  BY <1>7, <1>2
<1>9. \A k \in 1 .. n : iter[1 .. k] = Op(iter[1 .. (k - 1)], k)
  <2> TAKE k \in 1 .. n
  <2>1. Max(1 .. k) = k /\ (1 .. k) \ {k} = 1 .. (k - 1) /\ 1 .. k # {} /\ 1 .. k \in SUBSET (1 .. n)
    BY <1>2, MaxOfPrefix
  <2> QED BY <2>1, <1>7, <1>2
<1> DEFINE P == [k \in 0 .. n |-> V]
<1>10. iter[1 .. n] \in P[n]
  <2>1. so \in P[0] BY <1>2
  <2>2. ASSUME NEW k \in 1 .. n, iter[1 .. (k - 1)] \in P[k - 1] PROVE iter[1 .. k] \in P[k]
    <3>1. k \in 0 .. n /\ k - 1 \in 0 .. n BY <1>2
    <3>2. iter[1 .. (k - 1)] \in V BY <2>2, <3>1
    <3> QED BY <3>1, <3>2, <1>4, <1>9
  <2> HIDE DEF P
  <2> QED BY <1>2, <1>8, <2>1, <2>2, FoldStages
<1>11. n \in 0 .. n /\ P[n] = V
  BY <1>2
<1> QED BY <1>1, <1>2, <1>10, <1>11

\* After the events in K the turn of e has come: what is before it has been handled.
InTurn(E, K, e) == \A d \in E : d.sequence < e.sequence => d \in K

\* What a frame's events lead to, event by event, from the first stage to the last.
LEMMA EventsInTurn ==
  ASSUME NEW E, IsFiniteSet(E), \A e \in E : e.sequence \in Nat, NEW V, NEW so \in V, NEW P,
         \A h \in V, e \in E : Applied(h, EventRefused(h.ledger, e), WithEvent(h.ledger, e)) \in V,
         so \in P[{}],
         \A K \in SUBSET E, h \in V, e \in E :
           InTurn(E, K, e) /\ h \in P[K] =>
             Applied(h, EventRefused(h.ledger, e), WithEvent(h.ledger, e)) \in P[K \cup {e}]
  PROVE  EventsHandled(so, E) \in V \cap P[E]
<1> DEFINE C == InOrder(E)
           n == Len(C)
           Op(v, k) == Applied(v, EventRefused(v.ledger, C[k]), WithEvent(v.ledger, C[k]))
           g == [k \in 1 .. n |-> [v \in V |-> Op(v, k)]]
           Rec(f) == f = [s \in SUBSET DOMAIN C |-> IF s = {} THEN so ELSE Op(f[s \ {Max(s)}], Max(s))]
           iter == CHOOSE f : Rec(f)
<1>1. EventsHandled(so, E) = iter[DOMAIN C]
  BY DEF EventsHandled, FoldLeft, MapThenFoldSet
<1>2. /\ n \in Nat /\ DOMAIN C = 1 .. n /\ C \in SetToSeqs(E) /\ \A k \in 1 .. n : C[k] \in E
      /\ \A i, j \in 1 .. n : i < j => C[i].sequence <= C[j].sequence
  <2>1. \E q \in SetToSeqs(E) : \A i, j \in DOMAIN q : i < j => q[i].sequence <= q[j].sequence
    <3> DEFINE key == [e \in E |-> e.sequence]
    <3>1. key \in [E -> Nat] /\ \A e \in E : key[e] = e.sequence OBVIOUS
    <3> HIDE DEF key
    <3>2. PICK q \in SetToSeqs(E) : \A i, j \in DOMAIN q : i < j => key[q[i]] <= key[q[j]]
      BY <3>1, SortedListing
    <3>3. \A i \in DOMAIN q : q[i] \in E BY DEF SetToSeqs
    <3> QED BY <3>1, <3>2, <3>3
  <2>2. C \in SetToSeqs(E) /\ \A i, j \in DOMAIN C : i < j => C[i].sequence <= C[j].sequence
    BY <2>1 DEF InOrder
  <2> HIDE DEF C
  <2> QED BY <2>2, ListingIsWhole, ElementIn
<1>3. \A e \in E : \E i \in 1 .. n : C[i] = e
  BY <1>2, ListingIsWhole
<1>4. \A k \in 1 .. n, v \in V : g[k][v] = Op(v, k) /\ Op(v, k) \in V
  BY <1>2
<1> HIDE DEF C, n, Op, g
<1>5. \A k \in 1 .. n, v \in V : g[k][v] \in V
  BY <1>4
<1>6. \E f : Rec(f)
  <2>1. PICK f : FoldsInto(f, n, V, so, g)
    BY <1>2, <1>5, FoldExists
  <2>2. ASSUME NEW s \in SUBSET (1 .. n), s # {}
        PROVE  f[s] = Op(f[s \ {Max(s)}], Max(s))
    <3>1. Max(s) \in 1 .. n BY <1>2, <2>2, MaxOfIndices
    <3>2. f[s \ {Max(s)}] \in V BY <2>1 DEF FoldsInto
    <3> QED BY <2>1, <2>2, <3>1, <3>2, <1>4 DEF FoldsInto
  <2>3. f = [s \in SUBSET (1 .. n) |-> IF s = {} THEN so ELSE Op(f[s \ {Max(s)}], Max(s))]
    BY <2>1, <2>2 DEF FoldsInto
  <2> QED BY <2>3, <1>2
<1>7. Rec(iter)
  BY <1>6
<1> HIDE DEF iter
<1>8. iter[{}] = so
  BY <1>7, <1>2
<1>9. \A k \in 1 .. n : iter[1 .. k] = Op(iter[1 .. (k - 1)], k)
  <2> TAKE k \in 1 .. n
  <2>1. Max(1 .. k) = k /\ (1 .. k) \ {k} = 1 .. (k - 1) /\ 1 .. k # {} /\ 1 .. k \in SUBSET (1 .. n)
    BY <1>2, MaxOfPrefix
  <2> QED BY <2>1, <1>7, <1>2
<1> DEFINE K(k) == {C[i] : i \in 1 .. k}
           Q == [k \in 0 .. n |-> V \cap P[K(k)]]
<1>10. iter[1 .. n] \in Q[n]
  <2>1. so \in Q[0]
    <3>1. K(0) = {} BY SMT
    <3>2. 0 \in 0 .. n BY <1>2
    <3> HIDE DEF K
    <3>3. Q[0] = V \cap P[K(0)] BY <3>2
    <3> HIDE DEF Q
    <3>4. so \in P[K(0)] BY <3>1
    <3> QED BY <3>3, <3>4
  <2>2. ASSUME NEW k \in 1 .. n, iter[1 .. (k - 1)] \in Q[k - 1] PROVE iter[1 .. k] \in Q[k]
    <3>1. k \in 0 .. n /\ k - 1 \in 0 .. n BY <1>2
    <3>2. iter[1 .. (k - 1)] \in V /\ iter[1 .. (k - 1)] \in P[K(k - 1)] BY <2>2, <3>1
    <3>3. K(k) = K(k - 1) \cup {C[k]}
      <4>1. \A i \in 1 .. k : i \in 1 .. (k - 1) \/ i = k BY <1>2
      <4>2. \A i \in 1 .. (k - 1) : i \in 1 .. k BY <1>2
      <4>3. k \in 1 .. k BY <1>2
      <4> QED BY <4>1, <4>2, <4>3
    <3>4. K(k - 1) \in SUBSET E /\ C[k] \in E
      <4>1. \A i \in 1 .. (k - 1) : i \in 1 .. n BY <1>2
      <4> QED BY <4>1, <1>2
    <3>6. InTurn(E, K(k - 1), C[k])
      <4> SUFFICES ASSUME NEW d \in E, d.sequence < C[k].sequence PROVE d \in K(k - 1)
        BY DEF InTurn
      <4>1. PICK i \in 1 .. n : C[i] = d BY <1>3
      <4>2. ~(k < i) /\ i # k
        <5>1. k < i => C[k].sequence <= C[i].sequence BY <1>2
        <5>2. C[k].sequence \in Nat /\ C[i].sequence \in Nat BY <3>4, <4>1
        <5> QED BY <5>1, <5>2, <4>1
      <4>3. i \in 1 .. (k - 1) BY <4>2, <1>2
      <4> QED BY <4>1, <4>3
    <3> HIDE DEF K
    <3>5. Op(iter[1 .. (k - 1)], k) \in P[K(k)]
      BY <3>2, <3>3, <3>4, <3>6 DEF Op
    <3> QED BY <3>1, <3>2, <3>5, <1>4, <1>9
  <2> HIDE DEF Q
  <2> QED BY <1>2, <1>8, <2>1, <2>2, FoldStages
<1>11. n \in 0 .. n /\ K(n) = E
  <2>1. \A e \in E : e \in K(n) BY <1>3
  <2>2. \A e \in K(n) : e \in E BY <1>2
  <2>3. n \in 0 .. n BY <1>2
  <2> HIDE DEF K
  <2> QED BY <2>1, <2>2, <2>3
<1>12. Q[n] = V \cap P[K(n)]
  <2> HIDE DEF K
  <2> QED BY <1>11
<1> HIDE DEF K, Q
<1> QED BY <1>1, <1>2, <1>10, <1>11, <1>12

-----------------------------------------------------------------------------
(* What a ledger says of itself, and what a command keeps of it.            *)

\* What a history may begin with; "started" comes nowhere but first.
Opening == {"started", "failed", "cancelled", "uncertain"}
Legal(q) == \A i \in 1 .. Len(q) : (i = 1 => q[i] \in Opening) /\ (i # 1 => q[i] # "started")

\* An operation's row: a session that was opened, a history in order with no event after an
\* outcome, and receipts and compaction that do not run ahead of the history.
RowOK(L, o) ==
  /\ L.op[o].session = None => L.op[o].events = <<>> /\ ~L.op[o].retired
  /\ L.op[o].session # None => L.sess[L.op[o].session] # None
  /\ L.eventAcks[o] <= Len(L.op[o].events)
  /\ \A i \in 1 .. Len(L.op[o].events) - 1 : L.op[o].events[i] \notin TerminalEvents
  /\ L.op[o].retired => Terminal(L, o) /\ L.eventAcks[o] = Len(L.op[o].events)
  /\ Legal(L.op[o].events)

\* Nothing follows an outcome, and what was retired is over and confirmed.
LedgerOK(L) == L \in Ledgers /\ \A o \in Operations : RowOK(L, o)

\* A settled session is closed and all that is attached to it is over.
SettledOK(L) ==
  \A s \in Sessions :
    /\ L.sess[s] = None => L.replies[s] = {}
    /\ Settled(L, s) => L.sess[s] = "closed" /\ \A o \in Operations : L.op[o].session = s => Terminal(L, o)

\* An operation is there with the command that requests it.
Requested(L) ==
  \A i \in DOMAIN L.commands :
    L.commands[i].command.type = "dispatch" => Exists(L, L.commands[i].command.operation)

\* Whatever happens to a ledger, it forgets no session, no operation and no event.
Keeps(L, M) ==
  /\ \A o \in Operations : Exists(L, o) => Exists(M, o) /\ M.op[o].events = L.op[o].events
  /\ \A s \in Sessions : L.sess[s] # None => M.sess[s] # None

\* The state is read off the last event.
LEMMA StateOf ==
  ASSUME NEW L \in Ledgers, NEW o \in Operations
  PROVE  /\ L.op[o] \in Rows /\ L.op[o].events \in Seq(Kinds) /\ Len(L.op[o].events) \in Nat
         /\ State(L, o) = "pending" <=> L.op[o].events = <<>>
         /\ Terminal(L, o) <=> L.op[o].events # <<>> /\ L.op[o].events[Len(L.op[o].events)] \in TerminalEvents
         /\ Terminal(L, o) => State(L, o) = L.op[o].events[Len(L.op[o].events)]
         /\ L.op[o].events # <<>> => Len(L.op[o].events) > 0
<1> DEFINE q == L.op[o].events
<1>1. L.op[o] \in Rows /\ q \in Seq(Kinds)
  BY DEF Ledgers, Rows
<1>2. Len(q) \in Nat /\ (q # <<>> => Len(q) > 0)
  BY <1>1
<1>3. State(L, o) = IF q = <<>> THEN "pending" ELSE IF q[Len(q)] \in TerminalEvents THEN q[Len(q)] ELSE "started"
  BY DEF State, Last
<1>4. "pending" \notin TerminalEvents /\ "started" \notin TerminalEvents
  BY DEF TerminalEvents
<1> HIDE DEF q
<1>5. /\ State(L, o) = "pending" <=> q = <<>>
      /\ State(L, o) \in TerminalEvents <=> q # <<>> /\ q[Len(q)] \in TerminalEvents
      /\ State(L, o) \in TerminalEvents => State(L, o) = q[Len(q)]
  BY <1>3, <1>4
<1> QED BY <1>1, <1>2, <1>5 DEF Terminal, q

\* The state depends on the history alone.
LEMMA SameState ==
  ASSUME NEW L, NEW M, NEW o, M.op[o].events = L.op[o].events
  PROVE  State(M, o) = State(L, o) /\ (Terminal(M, o) <=> Terminal(L, o))
BY DEF State, Terminal

\* A command admits an operation, moves a pending one, cancels one, or leaves its row.
LEMMA RowAfter ==
  ASSUME NEW L, LedgerOK(L), NEW c \in Commands, ~CommandRefused(L, c), NEW accept \in BOOLEAN,
         NEW o \in Operations
  PROVE  LET r == L.op[o]
             n == Row(L, c, o, accept) IN
         /\ n \in Rows /\ n.retired = r.retired
         /\ r.session # None => n.session # None /\ n.events = r.events
         /\ r.session = None => n.events \in {<<>>, <<"failed">>} /\ (accept => n.events = <<>>)
                                /\ (n.session = None => n.events = <<>>)
         /\ \/ n.session = r.session
            \/ /\ c.type = "dispatch" /\ n.session = c.session /\ c.session \in Sessions
               /\ L.sess[c.session] = "open"
         /\ IF c.type = "dispatch" /\ c.operation = o THEN n.session # None
            ELSE n.session = None <=> r.session = None
<1> DEFINE r == L.op[o]
           n == Row(L, c, o, accept)
<1>1. /\ r \in Rows /\ (r.session = None => r.events = <<>> /\ r.retired = FALSE)
      /\ L.sess \in [Sessions -> {None, "open", "closed"}]
  BY DEF LedgerOK, RowOK, Ledgers, Rows
<1>2. <<>> \in Seq(Kinds) /\ <<"failed">> \in Seq(Kinds)
  BY DEF Kinds, TerminalEvents
<1>3. (c.type = "dispatch" => c.session \in Sessions /\ c.session # None)
      /\ c.type \in {"open", "close", "dispatch", "cancel"}
  BY RemoteAssumption DEF Commands
<1>4. CASE c.type = "dispatch" /\ c.operation = o /\ r.session = None
  <2>1. n = [NoOperation EXCEPT !.session = c.session, !.events = IF accept THEN <<>> ELSE <<"failed">>]
    BY <1>4 DEF Row, CancelledBy
  <2>2. n.session = c.session /\ n.events = (IF accept THEN <<>> ELSE <<"failed">>) /\ n.retired = FALSE /\ n \in Rows
    BY <2>1, <1>2, <1>3, <1>4 DEF NoOperation, Rows
  <2>3. L.sess[c.session] = "open"
    BY <1>1, <1>3, <1>4 DEF CommandRefused, Exists
  <2> QED BY <2>2, <2>3, <1>1, <1>3, <1>4
<1>5. CASE c.type = "dispatch" /\ c.operation = o /\ r.session # None /\ r.events = <<>> /\ L.sess[c.session] = "open"
  <2>1. n = [r EXCEPT !.session = c.session]
    BY <1>5 DEF Row, CancelledBy
  <2>2. n \in Rows /\ n.session = c.session /\ n.events = r.events /\ n.retired = r.retired
    BY <2>1, <1>1, <1>3, <1>5 DEF Rows
  <2> QED BY <2>2, <1>3, <1>5
<1>6. CASE /\ ~(c.type = "dispatch" /\ c.operation = o /\ r.session = None)
           /\ ~(c.type = "dispatch" /\ c.operation = o /\ r.session # None /\ r.events = <<>> /\ L.sess[c.session] = "open")
  <2>1. n = (IF r.session # None /\ CancelledBy(L, c, o) THEN [r EXCEPT !.cancelled = TRUE] ELSE r)
    BY <1>6 DEF Row
  <2>2. n \in Rows /\ n.session = r.session /\ n.events = r.events /\ n.retired = r.retired
    BY <2>1, <1>1 DEF Rows
  <2> QED BY <2>2, <1>1, <1>6
<1> QED BY <1>4, <1>5, <1>6, <1>1

\* What a command that is not refused keeps.
LEMMA CommandKeeps ==
  ASSUME NEW L, LedgerOK(L), NEW c \in Commands, ~CommandRefused(L, c), NEW accept \in BOOLEAN
  PROVE  LET M == WithCommand(L, c, accept) IN
         /\ LedgerOK(M) /\ Keeps(L, M) /\ M.eventAcks = L.eventAcks
         /\ accept => M.replies = L.replies /\ \A o \in Operations : M.op[o].events = L.op[o].events
         /\ \A o \in Operations : ~Exists(L, o) => M.op[o].events \in {<<>>, <<"failed">>}
         /\ \A o \in Operations : L.op[o].retired = M.op[o].retired
         /\ SettledOK(L) => SettledOK(M) /\ \A s \in Sessions : Settled(M, s) <=> Settled(L, s)
         /\ \A o \in Operations : Exists(M, o) => Exists(L, o) \/ (c.type = "dispatch" /\ c.operation = o)
         /\ Requested(L) => Requested(M)
<1> DEFINE M == WithCommand(L, c, accept)
<1>1. L \in Ledgers /\ L.sess \in [Sessions -> {None, "open", "closed"}] /\ L.replies \in [Sessions -> SUBSET ReplyKinds]
  BY DEF LedgerOK, Ledgers
<1>2. c \in [type : {"open", "close", "dispatch", "cancel"}, session : Sessions \cup {None}, operation : Operations \cup {None}]
      /\ (c.type \in {"open", "close"} => c.session \in Sessions)
  BY DEF Commands
<1>3. /\ M.op = [o \in Operations |-> Row(L, c, o, accept)]
      /\ M.eventAcks = L.eventAcks /\ M.replyAcks = L.replyAcks /\ M.compacted = L.compacted
      /\ M.chunks = L.chunks /\ M.revoked = L.revoked
      /\ M.sess = (CASE c.type = "open" /\ L.sess[c.session] = None -> [L.sess EXCEPT ![c.session] = "open"]
                     [] c.type = "close" -> [L.sess EXCEPT ![c.session] = "closed"]
                     [] OTHER -> L.sess)
      /\ M.replies = (IF RefusalRecorded(L, c, accept) THEN [L.replies EXCEPT ![c.session] = {"error"}] ELSE L.replies)
      /\ M.commands = (IF \E i \in DOMAIN L.commands : L.commands[i].command = c THEN L.commands
                       ELSE Append(L.commands, [command |-> c, ack |-> FALSE]))
  BY <1>1 DEF WithCommand, Ledgers
<1>4. /\ M.sess \in [Sessions -> {None, "open", "closed"}]
      /\ \A s \in Sessions : L.sess[s] # None => M.sess[s] # None
      /\ \A s \in Sessions : L.sess[s] = "closed" => M.sess[s] = "closed"
      /\ \A s \in Sessions : M.sess[s] = None => L.sess[s] = None
  <2>1. CASE c.type = "open" /\ L.sess[c.session] = None
    <3>1. M.sess = [L.sess EXCEPT ![c.session] = "open"] BY <2>1, <1>3
    <3> QED BY <3>1, <2>1, <1>1, <1>2 DEF None
  <2>2. CASE c.type = "close"
    <3>1. M.sess = [L.sess EXCEPT ![c.session] = "closed"] BY <2>2, <1>3
    <3> QED BY <3>1, <2>2, <1>1, <1>2 DEF None
  <2>3. CASE ~(c.type = "open" /\ L.sess[c.session] = None) /\ c.type # "close"
    <3>1. M.sess = L.sess BY <2>3, <1>3
    <3> QED BY <3>1, <1>1
  <2> QED BY <2>1, <2>2, <2>3
<1>5. /\ M.replies \in [Sessions -> SUBSET ReplyKinds]
      /\ (accept => M.replies = L.replies)
      /\ \A s \in Sessions : M.replies[s] = L.replies[s] \/ (c.type = "open" /\ s = c.session /\ L.sess[s] = None /\ M.replies[s] = {"error"})
  <2>1. CASE RefusalRecorded(L, c, accept)
    <3>1. M.replies = [L.replies EXCEPT ![c.session] = {"error"}] BY <2>1, <1>3
    <3> QED BY <3>1, <2>1, <1>1, <1>2 DEF RefusalRecorded, ReplyKinds
  <2>2. CASE ~RefusalRecorded(L, c, accept)
    <3>1. M.replies = L.replies BY <2>2, <1>3
    <3> QED BY <3>1, <1>1
  <2> QED BY <2>1, <2>2
<1>6. M.commands \in Seq([command : Commands, ack : BOOLEAN])
  <2> DEFINE I == [command : Commands, ack : BOOLEAN]
             i == [command |-> c, ack |-> FALSE]
  <2>1. L.commands \in Seq(I) BY <1>1 DEF Ledgers
  <2>2. i \in I OBVIOUS
  <2>3. M.commands = L.commands \/ M.commands = Append(L.commands, i) BY <1>3
  <2> HIDE DEF I, i, M
  <2>4. M.commands \in Seq(I) BY <2>1, <2>2, <2>3
  <2> QED BY <2>4 DEF I
<1>7. \A o \in Operations : M.op[o] = Row(L, c, o, accept) /\ M.op[o] \in Rows
  BY <1>3, RowAfter
<1>8. M \in Ledgers
  <2>1. M.op \in [Operations -> Rows] BY <1>3, <1>7
  <2>2. M.replyAcks \in [Sessions -> SUBSET ReplyKinds] /\ M.compacted \in [Sessions -> BOOLEAN]
        /\ M.eventAcks \in [Operations -> Nat] /\ M.chunks \in [Operations -> {None, "stored", "confirmed"}]
        /\ M.revoked \in BOOLEAN
    BY <1>1, <1>3 DEF Ledgers
  <2>3. M = [L EXCEPT !.sess = M.sess, !.replies = M.replies, !.op = M.op, !.commands = M.commands]
    BY <1>1 DEF WithCommand, Ledgers
  <2> HIDE DEF M
  <2> QED BY <2>1, <2>2, <2>3, <1>1, <1>4, <1>5, <1>6 DEF Ledgers
<1> HIDE DEF M
<1>9. ASSUME NEW o \in Operations
      PROVE  /\ M.op[o].retired = L.op[o].retired
             /\ L.op[o].session # None => M.op[o].session # None /\ M.op[o].events = L.op[o].events
             /\ L.op[o].session = None => /\ M.op[o].events \in {<<>>, <<"failed">>} /\ L.op[o].events = <<>>
                                          /\ accept => M.op[o].events = <<>>
                                          /\ M.op[o].session = None => M.op[o].events = <<>>
             /\ \/ M.op[o].session = L.op[o].session
                \/ M.op[o].session \in Sessions /\ L.sess[M.op[o].session] = "open" /\ c.type = "dispatch"
  BY <1>7, RowAfter DEF LedgerOK, RowOK
<1>10. ASSUME NEW o \in Operations PROVE RowOK(M, o)
  <2>1. RowOK(L, o) BY DEF LedgerOK
  <2>2. M.op[o].session # None => M.sess[M.op[o].session] # None
    <3>1. M.op[o].session \in Sessions \cup {None} BY <1>7 DEF Rows
    <3> QED BY <3>1, <2>1, <1>4, <1>9 DEF RowOK, None
  <2>3. CASE L.op[o].session # None
    BY <2>1, <2>2, <2>3, <1>3, <1>9, SameState DEF RowOK
  <2>4. CASE L.op[o].session = None
    <3>1. L.eventAcks[o] = 0 /\ ~L.op[o].retired
      <4>1. L.eventAcks[o] \in Nat BY <1>1 DEF Ledgers
      <4> QED BY <2>1, <2>4, <4>1 DEF RowOK
    <3>2. \A i \in 1 .. Len(M.op[o].events) - 1 : M.op[o].events[i] \notin TerminalEvents
      <4>1. M.op[o].events = <<>> \/ M.op[o].events = <<"failed">> BY <1>9, <2>4
      <4>2. Len(<<>>) = 0 /\ Len(<<"failed">>) = 1 OBVIOUS
      <4>3. \A i : i \notin 1 .. 0 - 1 /\ i \notin 1 .. 1 - 1 OBVIOUS
      <4> QED BY <4>1, <4>2, <4>3
    <3>3. Len(M.op[o].events) \in Nat BY <1>8, StateOf
    <3>4. Legal(M.op[o].events)
      <4>1. M.op[o].events = <<>> \/ M.op[o].events = <<"failed">> BY <1>9, <2>4
      <4>2. Legal(<<>>) /\ Legal(<<"failed">>) BY DEF Legal, Opening
      <4> QED BY <4>1, <4>2
    <3> QED BY <3>1, <3>2, <3>3, <3>4, <2>2, <2>4, <1>3, <1>9 DEF RowOK
  <2> QED BY <2>3, <2>4
<1>11. ASSUME SettledOK(L) PROVE SettledOK(M) /\ \A s \in Sessions : Settled(M, s) <=> Settled(L, s)
  <2>1. ASSUME NEW s \in Sessions PROVE Settled(M, s) <=> Settled(L, s)
    BY <1>5, <1>11 DEF SettledOK, Settled
  <2>2. ASSUME NEW s \in Sessions, M.sess[s] = None PROVE M.replies[s] = {}
    <3>1. ~(c.type = "open" /\ s = c.session /\ L.sess[s] = None)
      <4> SUFFICES ASSUME c.type = "open" /\ s = c.session /\ L.sess[s] = None PROVE FALSE
        OBVIOUS
      <4>1. M.sess = [L.sess EXCEPT ![c.session] = "open"] BY <1>3
      <4> QED BY <4>1, <1>1, <2>2 DEF None
    <3> QED BY <3>1, <2>2, <1>4, <1>5, <1>11 DEF SettledOK
  <2>3. ASSUME NEW s \in Sessions, Settled(M, s), NEW o \in Operations, M.op[o].session = s PROVE Terminal(M, o)
    <3>1. L.sess[s] = "closed" /\ (L.op[o].session = s => Terminal(L, o)) BY <2>1, <2>3, <1>11 DEF SettledOK
    <3>2. L.op[o].session = s /\ L.op[o].session # None
      BY <3>1, <2>3, <1>9, RemoteAssumption
    <3> QED BY <3>1, <3>2, <1>9, SameState
  <2> QED BY <2>1, <2>2, <2>3, <1>4, <1>11 DEF SettledOK
<1>12. Keeps(L, M)
  BY <1>4, <1>9 DEF Keeps, Exists
<1>13. \A o \in Operations : ~Exists(L, o) => M.op[o].events \in {<<>>, <<"failed">>}
  BY <1>9 DEF Exists
<1>14. accept => \A o \in Operations : M.op[o].events = L.op[o].events
  BY <1>9
<1>15. ASSUME NEW o \in Operations
       PROVE  IF c.type = "dispatch" /\ c.operation = o THEN Exists(M, o) ELSE Exists(M, o) <=> Exists(L, o)
  BY <1>7, RowAfter DEF Exists
<1>16. ASSUME Requested(L) PROVE Requested(M)
  <2> SUFFICES ASSUME NEW i \in DOMAIN M.commands, M.commands[i].command.type = "dispatch"
               PROVE  Exists(M, M.commands[i].command.operation)
    BY DEF Requested
  <2>1. /\ i \in DOMAIN L.commands => M.commands[i] = L.commands[i]
        /\ i \notin DOMAIN L.commands => M.commands[i].command = c
    <3> DEFINE x == [command |-> c, ack |-> FALSE]
    <3>1. M.commands = L.commands \/ M.commands = Append(L.commands, x) BY <1>3
    <3>2. L.commands \in Seq([command : Commands, ack : BOOLEAN]) BY <1>1 DEF Ledgers
    <3>3. x.command = c OBVIOUS
    <3>4. x \in [command : Commands, ack : BOOLEAN] OBVIOUS
    <3> HIDE DEF x
    <3> QED BY <3>1, <3>2, <3>3, <3>4
  <2>2. CASE i \in DOMAIN L.commands
    <3>1. Exists(L, L.commands[i].command.operation) BY <2>1, <2>2, <1>16 DEF Requested
    <3>2. L.commands[i].command.operation \in Operations
      <4>1. L.commands[i].command \in Commands BY <1>1, <2>2, CommandsOf
      <4> QED BY <4>1, <2>1, <2>2 DEF Commands
    <3> QED BY <3>1, <3>2, <2>1, <2>2, <1>12 DEF Keeps
  <2>3. CASE i \notin DOMAIN L.commands
    <3>1. c.type = "dispatch" /\ M.commands[i].command = c BY <2>1, <2>3
    <3>2. c.operation \in Operations BY <3>1 DEF Commands
    <3> QED BY <3>1, <3>2, <1>15
  <2> QED BY <2>2, <2>3
<1> QED BY <1>3, <1>5, <1>8, <1>9, <1>10, <1>11, <1>12, <1>13, <1>14, <1>15, <1>16 DEF LedgerOK, M

-----------------------------------------------------------------------------
(* The other transactions of a ledger.                                      *)

\* q is the beginning of r.
Begins(q, r) == Len(q) <= Len(r) /\ \A i \in 1 .. Len(q) : q[i] = r[i]

\* The transaction touches no history, no command, no reply and no session's beginning.
SameHistory(L, M) ==
  /\ \A i \in DOMAIN M.commands : i \in DOMAIN L.commands /\ M.commands[i].command = L.commands[i].command
  /\ \A o \in Operations : M.op[o].events = L.op[o].events /\ M.op[o].session = L.op[o].session
  /\ \A s \in Sessions : /\ M.replies[s] = L.replies[s]
                         /\ M.sess[s] = None <=> L.sess[s] = None
                         /\ L.sess[s] = "closed" => M.sess[s] = "closed"

\* A ledger that stays good and forgets nothing; nothing is completed by it but what `but` says.
Grows(L, M, but) ==
  /\ LedgerOK(M) /\ SettledOK(M)
  /\ \A o \in Operations :
       /\ Begins(L.op[o].events, M.op[o].events)
       /\ Exists(L, o) => Exists(M, o)
       /\ o \notin but => \A i \in 1 .. Len(M.op[o].events) : M.op[o].events[i] = "completed" => i <= Len(L.op[o].events)
  /\ \A s \in Sessions : (L.sess[s] # None => M.sess[s] # None) /\ (Settled(L, s) => Settled(M, s))

\* A beginning of a beginning is a beginning.
LEMMA BeginsOn ==
  ASSUME NEW q, NEW r, NEW t, Len(q) \in Nat, Len(r) \in Nat, Len(t) \in Nat, Begins(q, r), Begins(r, t)
  PROVE  Begins(q, t)
<1>1. Len(q) <= Len(t)
  BY DEF Begins
<1>2. ASSUME NEW i \in 1 .. Len(q) PROVE q[i] = t[i]
  <2>1. i \in 1 .. Len(r) BY DEF Begins
  <2> QED BY <2>1 DEF Begins
<1> QED BY <1>1, <1>2 DEF Begins

\* Two transactions after one another.
LEMMA GrowsOn ==
  ASSUME NEW L \in Ledgers, NEW M, NEW N, Grows(L, M, {}), Grows(M, N, {})
  PROVE  Grows(L, N, {})
<1>1. M \in Ledgers /\ N \in Ledgers /\ LedgerOK(N) /\ SettledOK(N)
  BY DEF Grows, LedgerOK
<1>2. ASSUME NEW o \in Operations
      PROVE  /\ Begins(L.op[o].events, N.op[o].events)
             /\ Exists(L, o) => Exists(N, o)
             /\ \A i \in 1 .. Len(N.op[o].events) : N.op[o].events[i] = "completed" => i <= Len(L.op[o].events)
  <2>1. Len(L.op[o].events) \in Nat /\ Len(M.op[o].events) \in Nat /\ Len(N.op[o].events) \in Nat
    BY <1>1, StateOf
  <2>2. Begins(L.op[o].events, M.op[o].events) /\ Begins(M.op[o].events, N.op[o].events)
    BY DEF Grows
  <2>3. Begins(L.op[o].events, N.op[o].events)
    BY <2>1, <2>2, BeginsOn
  <2>4. ASSUME NEW i \in 1 .. Len(N.op[o].events), N.op[o].events[i] = "completed" PROVE i <= Len(L.op[o].events)
    <3>1. i <= Len(M.op[o].events) BY <2>4 DEF Grows
    <3>2. i \in 1 .. Len(M.op[o].events) BY <3>1, <2>1
    <3>3. M.op[o].events[i] = "completed" BY <3>2, <2>2, <2>4 DEF Begins
    <3> QED BY <3>2, <3>3 DEF Grows
  <2>5. Exists(L, o) => Exists(N, o) BY DEF Grows
  <2> QED BY <2>3, <2>4, <2>5
<1>3. \A s \in Sessions : (L.sess[s] # None => N.sess[s] # None) /\ (Settled(L, s) => Settled(N, s))
  BY DEF Grows
<1> QED BY <1>1, <1>2, <1>3 DEF Grows

\* A good ledger grows by a transaction that keeps its history.
LEMMA SameHistoryGrows ==
  ASSUME NEW L, LedgerOK(L), NEW M, LedgerOK(M), SameHistory(L, M), SettledOK(L)
  PROVE  Grows(L, M, {})
<1>1. SettledOK(M)
  <2>1. \A s \in Sessions : Settled(M, s) <=> Settled(L, s) BY DEF SameHistory, Settled
  <2>2. \A o \in Operations : Terminal(M, o) <=> Terminal(L, o) BY SameState DEF SameHistory
  <2> QED BY <2>1, <2>2 DEF SettledOK, SameHistory
<1>2. \A o \in Operations : Len(L.op[o].events) \in Nat
  BY StateOf DEF LedgerOK
<1> QED BY <1>1, <1>2 DEF Grows, SameHistory, Begins, Exists, Settled

\* What makes a ledger with the same history good.
LEMMA SameHistoryOK ==
  ASSUME NEW L, LedgerOK(L), NEW M \in Ledgers, SameHistory(L, M),
         \A o \in Operations :
           /\ M.eventAcks[o] <= Len(L.op[o].events) /\ L.eventAcks[o] <= M.eventAcks[o]
           /\ M.op[o].retired => L.op[o].retired \/ (Terminal(L, o) /\ M.eventAcks[o] = Len(L.op[o].events))
           /\ M.op[o].retired => L.op[o].session # None
  PROVE  LedgerOK(M)
<1> SUFFICES ASSUME NEW o \in Operations PROVE RowOK(M, o)
  BY DEF LedgerOK
<1>1. RowOK(L, o) /\ L \in Ledgers
  BY DEF LedgerOK
<1>2. M.op[o].events = L.op[o].events /\ M.op[o].session = L.op[o].session /\ (Terminal(M, o) <=> Terminal(L, o))
  BY SameState DEF SameHistory
<1>3. M.op[o].session \in Sessions \cup {None} /\ M.eventAcks[o] \in Nat /\ L.eventAcks[o] \in Nat
      /\ Len(L.op[o].events) \in Nat
  BY <1>1, StateOf DEF Ledgers, Rows
<1>4. M.op[o].session # None => M.sess[M.op[o].session] # None
  BY <1>1, <1>2, <1>3 DEF RowOK, SameHistory
<1>5. M.op[o].retired => Terminal(L, o) /\ M.eventAcks[o] = Len(L.op[o].events)
  BY <1>1, <1>3 DEF RowOK
<1> QED BY <1>1, <1>2, <1>4, <1>5 DEF RowOK

\* A chunk touches no history.
LEMMA ChunkKeeps ==
  ASSUME NEW L, LedgerOK(L), NEW o
  PROVE  LedgerOK(WithChunk(L, o)) /\ SameHistory(L, WithChunk(L, o)) /\ WithChunk(L, o).eventAcks = L.eventAcks
<1> DEFINE M == WithChunk(L, o)
<1>1. L \in Ledgers
  BY DEF LedgerOK
<1>2. /\ M \in Ledgers /\ M.op = L.op /\ M.sess = L.sess /\ M.replies = L.replies /\ M.eventAcks = L.eventAcks
      /\ M.commands = L.commands
  BY <1>1 DEF WithChunk, Ledgers
<1> HIDE DEF M
<1>3. SameHistory(L, M)
  BY <1>2 DEF SameHistory
<1>4. \A p \in Operations : L.eventAcks[p] \in Nat /\ (L.op[p].retired => L.op[p].session # None)
  BY <1>1 DEF Ledgers, LedgerOK, RowOK
<1>5. \A p \in Operations : L.eventAcks[p] <= Len(L.op[p].events)
  BY DEF LedgerOK, RowOK
<1>6. LedgerOK(M)
  BY <1>2, <1>3, <1>4, <1>5, SameHistoryOK
<1> QED BY <1>2, <1>3, <1>6 DEF M

\* Revocation closes sessions and cancels operations, and touches no history.
LEMMA RevocationKeeps ==
  ASSUME NEW L, LedgerOK(L)
  PROVE  /\ LedgerOK(WithRevocation(L)) /\ SameHistory(L, WithRevocation(L))
         /\ WithRevocation(L).eventAcks = L.eventAcks
<1> DEFINE M == WithRevocation(L)
<1>1. L \in Ledgers
  BY DEF LedgerOK
<1>2. /\ M.op = [o \in Operations |-> [L.op[o] EXCEPT !.cancelled = @ \/ (Exists(L, o) /\ ~Terminal(L, o))]]
      /\ M.sess = [s \in Sessions |-> IF L.sess[s] = None THEN None ELSE "closed"]
      /\ M.replies = L.replies /\ M.eventAcks = L.eventAcks /\ M.commands = L.commands
  <2> DEFINE ops == [o \in Operations |-> [L.op[o] EXCEPT !.cancelled = @ \/ (Exists(L, o) /\ ~Terminal(L, o))]]
             ses == [s \in Sessions |-> IF L.sess[s] = None THEN None ELSE "closed"]
  <2>1. M = [L EXCEPT !.revoked = TRUE, !.op = ops, !.sess = ses] BY DEF WithRevocation
  <2> HIDE DEF ops, ses, M
  <2>2. M.op = ops /\ M.sess = ses /\ M.replies = L.replies /\ M.eventAcks = L.eventAcks /\ M.commands = L.commands
    BY <2>1, <1>1 DEF Ledgers
  <2> QED BY <2>2 DEF ops, ses
<1>3. ASSUME NEW o \in Operations
      PROVE  /\ M.op[o] \in Rows /\ M.op[o].events = L.op[o].events /\ M.op[o].session = L.op[o].session
             /\ M.op[o].retired = L.op[o].retired
  <2>1. L.op[o] \in Rows BY <1>1 DEF Ledgers
  <2>2. M.op[o] = [L.op[o] EXCEPT !.cancelled = @ \/ (Exists(L, o) /\ ~Terminal(L, o))] BY <1>2
  <2>3. (L.op[o].cancelled \/ (Exists(L, o) /\ ~Terminal(L, o))) \in BOOLEAN OBVIOUS
  <2> HIDE DEF M
  <2> QED BY <2>1, <2>2, <2>3 DEF Rows
<1>4. M \in Ledgers
  <2>1. M = [L EXCEPT !.revoked = TRUE, !.op = M.op, !.sess = M.sess] BY <1>1 DEF WithRevocation, Ledgers
  <2>2. M.op \in [Operations -> Rows] BY <1>2, <1>3
  <2>3. M.sess \in [Sessions -> {None, "open", "closed"}] BY <1>2
  <2> HIDE DEF M
  <2> QED BY <2>1, <2>2, <2>3, <1>1 DEF Ledgers
<1> HIDE DEF M
<1>5. SameHistory(L, M)
  BY <1>2, <1>3 DEF SameHistory, None
<1>6. \A p \in Operations : L.eventAcks[p] \in Nat /\ (L.op[p].retired => L.op[p].session # None)
  BY <1>1 DEF Ledgers, LedgerOK, RowOK
<1>7. \A p \in Operations : L.eventAcks[p] <= Len(L.op[p].events)
  BY DEF LedgerOK, RowOK
<1>8. LedgerOK(M)
  BY <1>2, <1>3, <1>4, <1>5, <1>6, <1>7, SameHistoryOK
<1> QED BY <1>2, <1>5, <1>8 DEF M

\* A receipt of what the peer has: B bounds the events it has.
LEMMA AcknowledgementKeeps ==
  ASSUME NEW L, LedgerOK(L), NEW r, NEW B \in [Operations -> Nat],
         \A o \in Operations : L.eventAcks[o] <= B[o] /\ B[o] <= Len(L.op[o].events),
         \A e \in r.events : e.operation \in Operations /\ e.sequence \in Nat /\ e.sequence <= B[e.operation],
         \A w \in r.replies : w.reply \in ReplyKinds
  PROVE  LET M == Acknowledged(L, r) IN
         LedgerOK(M) /\ SameHistory(L, M) /\ \A o \in Operations : M.eventAcks[o] <= B[o]
<1> DEFINE M == Acknowledged(L, r)
           seqs(o) == {L.eventAcks[o]} \cup {e.sequence : e \in {f \in r.events : f.operation = o}}
           com == [i \in DOMAIN L.commands |-> IF L.commands[i].command \in r.commands
                                               THEN [L.commands[i] EXCEPT !.ack = TRUE] ELSE L.commands[i]]
           chu == [o \in Operations |-> IF o \in r.chunks THEN "confirmed" ELSE L.chunks[o]]
           eva == [o \in Operations |-> Max(seqs(o))]
           rep == [s \in Sessions |-> L.replyAcks[s] \cup {w.reply : w \in {v \in r.replies : v.session = s}}]
<1>1. L \in Ledgers
  BY DEF LedgerOK
<1>2. M = [L EXCEPT !.commands = com, !.chunks = chu, !.eventAcks = eva, !.replyAcks = rep]
  BY DEF Acknowledged
<1>3. com \in Seq([command : Commands, ack : BOOLEAN])
  <2> DEFINE I == [command : Commands, ack : BOOLEAN]
  <2>1. L.commands \in Seq(I) BY <1>1 DEF Ledgers
  <2>2. ASSUME NEW x \in I PROVE [x EXCEPT !.ack = TRUE] \in I
    OBVIOUS
  <2> HIDE DEF I
  <2>3. Len(L.commands) \in Nat /\ DOMAIN L.commands = 1 .. Len(L.commands) BY <2>1
  <2>4. \A i \in DOMAIN L.commands : L.commands[i] \in I BY <2>1, <2>3, ElementIn
  <2>5. \A i \in DOMAIN L.commands : com[i] \in I BY <2>2, <2>4
  <2>6. com \in [1 .. Len(L.commands) -> I] BY <2>3, <2>5
  <2> HIDE DEF com
  <2>7. com \in Seq(I) BY <2>3, <2>6
  <2> QED BY <2>7 DEF I
<1>4. chu \in [Operations -> {None, "stored", "confirmed"}]
  BY <1>1 DEF Ledgers
<1>5. ASSUME NEW o \in Operations
      PROVE  eva[o] \in Nat /\ L.eventAcks[o] <= eva[o] /\ eva[o] <= B[o]
  <2>1. L.eventAcks[o] \in Nat /\ L.eventAcks[o] <= B[o] /\ B[o] \in Nat BY <1>1 DEF Ledgers
  <2>2. \A x \in seqs(o) : x \in Nat /\ x <= B[o] BY <2>1
  <2>3. L.eventAcks[o] \in seqs(o) OBVIOUS
  <2> HIDE DEF seqs
  <2>4. Max(seqs(o)) \in seqs(o) /\ \A y \in seqs(o) : y <= Max(seqs(o)) BY <2>1, <2>2, <2>3, MaxOfBounded
  <2> QED BY <2>2, <2>3, <2>4
<1>6. rep \in [Sessions -> SUBSET ReplyKinds]
  BY <1>1 DEF Ledgers
<1>7. eva \in [Operations -> Nat]
  BY <1>5
<1>11. DOMAIN com = DOMAIN L.commands /\ \A i \in DOMAIN com : com[i].command = L.commands[i].command
  <2>1. L.commands \in Seq([command : Commands, ack : BOOLEAN]) BY <1>1 DEF Ledgers
  <2>2. ASSUME NEW x \in [command : Commands, ack : BOOLEAN] PROVE [x EXCEPT !.ack = TRUE].command = x.command
    OBVIOUS
  <2> QED BY <2>1, <2>2
<1> HIDE DEF com, chu, eva, rep, M
<1>8. /\ M \in Ledgers /\ M.op = L.op /\ M.sess = L.sess /\ M.replies = L.replies /\ M.eventAcks = eva
      /\ M.commands = com
  BY <1>1, <1>2, <1>3, <1>4, <1>6, <1>7 DEF Ledgers
<1>9. SameHistory(L, M)
  BY <1>8, <1>11 DEF SameHistory
<1>10. LedgerOK(M)
  <2> SUFFICES ASSUME NEW o \in Operations
               PROVE  /\ M.eventAcks[o] <= Len(L.op[o].events) /\ L.eventAcks[o] <= M.eventAcks[o]
                      /\ M.op[o].retired => L.op[o].retired /\ L.op[o].session # None
    BY <1>8, <1>9, SameHistoryOK
  <2>1. Len(L.op[o].events) \in Nat /\ B[o] \in Nat /\ B[o] <= Len(L.op[o].events) BY <1>1, StateOf
  <2>2. L.op[o].retired => L.op[o].session # None BY DEF LedgerOK, RowOK
  <2> QED BY <2>1, <2>2, <1>5, <1>8
<1> QED BY <1>5, <1>8, <1>9, <1>10 DEF M

\* Compaction retires what is over and confirmed.
LEMMA ReclamationKeeps ==
  ASSUME NEW L, LedgerOK(L)
  PROVE  LedgerOK(Reclaimed(L)) /\ SameHistory(L, Reclaimed(L)) /\ Reclaimed(L).eventAcks = L.eventAcks
<1> DEFINE M == Reclaimed(L)
           done == {s \in Sessions : Reclaimable(L, s)}
           com == [s \in Sessions |-> L.compacted[s] \/ s \in done]
           ops == [o \in Operations |-> [L.op[o] EXCEPT !.retired = @ \/ L.op[o].session \in done]]
<1>1. L \in Ledgers
  BY DEF LedgerOK
<1>2. M = [L EXCEPT !.compacted = com, !.op = ops]
  BY DEF Reclaimed
<1>3. com \in [Sessions -> BOOLEAN]
  BY <1>1 DEF Ledgers
<1>4. ASSUME NEW o \in Operations
      PROVE  /\ ops[o] \in Rows /\ ops[o].events = L.op[o].events /\ ops[o].session = L.op[o].session
             /\ ops[o].retired => L.op[o].retired \/ L.op[o].session \in done
  <2>1. L.op[o] \in Rows BY <1>1 DEF Ledgers
  <2>2. (L.op[o].retired \/ L.op[o].session \in done) \in BOOLEAN OBVIOUS
  <2>3. ops[o] = [L.op[o] EXCEPT !.retired = @ \/ L.op[o].session \in done] OBVIOUS
  <2> HIDE DEF ops, done
  <2> QED BY <2>1, <2>2, <2>3 DEF Rows
<1>5. ASSUME NEW o \in Operations, L.op[o].session \in done
      PROVE  Terminal(L, o) /\ L.eventAcks[o] = Len(L.op[o].events) /\ L.op[o].session # None
  <2>1. Terminal(L, o) /\ ~Unconfirmed(L, L.op[o].session) BY <1>5 DEF Reclaimable
  <2>2. ~(L.eventAcks[o] < Len(L.op[o].events)) BY <2>1 DEF Unconfirmed
  <2>3. Len(L.op[o].events) \in Nat /\ L.eventAcks[o] \in Nat /\ L.eventAcks[o] <= Len(L.op[o].events)
    BY <1>1, StateOf DEF Ledgers, LedgerOK, RowOK
  <2>4. L.op[o].session # None BY <1>5, RemoteAssumption
  <2> QED BY <2>1, <2>2, <2>3, <2>4
<1> HIDE DEF com, ops, M
<1>6. ops \in [Operations -> Rows]
  <2>1. \A o \in Operations : ops[o] \in Rows BY <1>4
  <2>2. ops = [o \in Operations |-> ops[o]] BY DEF ops
  <2> QED BY <2>1, <2>2
<1>7. /\ M \in Ledgers /\ M.op = ops /\ M.sess = L.sess /\ M.replies = L.replies /\ M.eventAcks = L.eventAcks
      /\ M.commands = L.commands
  BY <1>1, <1>2, <1>3, <1>6 DEF Ledgers
<1>8. SameHistory(L, M)
  BY <1>4, <1>7 DEF SameHistory
<1>9. LedgerOK(M)
  <2> SUFFICES ASSUME NEW o \in Operations
               PROVE  /\ M.eventAcks[o] <= Len(L.op[o].events) /\ L.eventAcks[o] <= M.eventAcks[o]
                      /\ M.op[o].retired => L.op[o].retired \/ (Terminal(L, o) /\ M.eventAcks[o] = Len(L.op[o].events))
                      /\ M.op[o].retired => L.op[o].session # None
    BY <1>7, <1>8, SameHistoryOK
  <2>1. L.eventAcks[o] \in Nat /\ L.eventAcks[o] <= Len(L.op[o].events) /\ (L.op[o].retired => L.op[o].session # None)
    BY <1>1 DEF Ledgers, LedgerOK, RowOK
  <2>2. M.op[o].retired => L.op[o].retired \/ L.op[o].session \in done BY <1>4, <1>7
  <2> QED BY <2>1, <2>2, <1>5, <1>7
<1> QED BY <1>7, <1>8, <1>9 DEF M

-----------------------------------------------------------------------------
(* What the worker's ledger does in a step.                                 *)

\* The two ledgers have the same operations.
SameRows(L, M) == \A o \in Operations : Exists(M, o) <=> Exists(L, o)

\* The operation that an event of this kind completes.
But(o, kind) == IF kind = "completed" THEN {o} ELSE {}

\* A ledger that stays as it is.
LEMMA StaysGrown ==
  ASSUME NEW L, LedgerOK(L), SettledOK(L), NEW but
  PROVE  Grows(L, L, but)
<1>1. SameHistory(L, L)
  BY DEF SameHistory
<1>2. Grows(L, L, {})
  BY <1>1, SameHistoryGrows
<1> QED BY <1>2 DEF Grows

\* The next event of an operation that is not over.
LEMMA RecordedGrows ==
  ASSUME NEW L, LedgerOK(L), SettledOK(L), NEW o \in Operations, NEW kind \in Kinds, Exists(L, o), ~Terminal(L, o),
         IF L.op[o].events = <<>> THEN kind \in Opening ELSE kind # "started"
  PROVE  LET M == Recorded(L, o, kind) IN
         /\ Grows(L, M, But(o, kind)) /\ M.eventAcks = L.eventAcks /\ SameRows(L, M)
         /\ M.op[o].events = Append(L.op[o].events, kind)
<1> DEFINE M == Recorded(L, o, kind)
           q == L.op[o].events
<1>1. L \in Ledgers /\ L.op \in [Operations -> Rows] /\ \A p \in Operations : RowOK(L, p)
  BY DEF LedgerOK, Ledgers
<1>2. q \in Seq(Kinds) /\ Len(q) \in Nat /\ L.op[o] \in Rows
  BY <1>1, StateOf
<1>3. /\ Append(q, kind) \in Seq(Kinds) /\ Len(Append(q, kind)) = Len(q) + 1 /\ Append(q, kind)[Len(q) + 1] = kind
      /\ \A i \in 1 .. Len(q) : Append(q, kind)[i] = q[i]
  <2> HIDE DEF q
  <2> QED BY <1>2
<1>4. M = [L EXCEPT !.op = [L.op EXCEPT ![o] = [L.op[o] EXCEPT !.events = Append(q, kind)]]]
  BY DEF Recorded
<1> HIDE DEF M
<1>5. /\ M.op = [L.op EXCEPT ![o] = [L.op[o] EXCEPT !.events = Append(q, kind)]] /\ M.sess = L.sess
      /\ M.replies = L.replies /\ M.eventAcks = L.eventAcks
  BY <1>1, <1>4 DEF Ledgers
<1>6. /\ M.op[o] \in Rows /\ M.op[o].events = Append(q, kind) /\ M.op[o].session = L.op[o].session
      /\ M.op[o].retired = L.op[o].retired
      /\ \A p \in Operations : p # o => M.op[p] = L.op[p]
  <2>1. M.op[o] = [L.op[o] EXCEPT !.events = Append(q, kind)] BY <1>1, <1>5
  <2>2. \A p \in Operations : p # o => M.op[p] = L.op[p] BY <1>1, <1>5
  <2> HIDE DEF q
  <2> QED BY <2>1, <2>2, <1>2, <1>3 DEF Rows
<1> HIDE DEF q
<1>7. M \in Ledgers
  <2>1. M.op \in [Operations -> Rows] BY <1>1, <1>5, <1>6
  <2>2. M = [L EXCEPT !.op = M.op] BY <1>1, <1>4, <1>5
  <2> QED BY <2>1, <2>2, <1>1 DEF Ledgers
<1>8. ~L.op[o].retired /\ L.op[o].session # None
  BY <1>1 DEF RowOK, Exists
<1>9. \A i \in 1 .. Len(q) : q[i] \notin TerminalEvents
  <2> TAKE i \in 1 .. Len(q)
  <2>1. i = Len(q) => q[i] \notin TerminalEvents BY <1>1, <1>2, StateOf DEF q
  <2>2. i # Len(q) => i \in 1 .. Len(q) - 1 BY <1>2
  <2>3. \A j \in 1 .. Len(q) - 1 : q[j] \notin TerminalEvents BY <1>1 DEF RowOK, q
  <2> QED BY <2>1, <2>2, <2>3
<1>10. RowOK(M, o)
  <2>1. \A i \in 1 .. Len(M.op[o].events) - 1 : M.op[o].events[i] \notin TerminalEvents
    <3>1. Len(M.op[o].events) - 1 = Len(q) BY <1>2, <1>3, <1>6
    <3> QED BY <3>1, <1>3, <1>6, <1>9
  <2>2. L.eventAcks[o] \in Nat /\ L.eventAcks[o] <= Len(q) BY <1>1 DEF RowOK, Ledgers, q
  <2>3. M.eventAcks[o] <= Len(M.op[o].events) BY <2>2, <1>2, <1>3, <1>5, <1>6
  <2>4. M.sess[M.op[o].session] # None BY <1>1, <1>5, <1>6, <1>8 DEF RowOK
  <2>5. Legal(M.op[o].events)
    <3> DEFINE t == Append(q, kind)
    <3>1. Legal(q) /\ (q = <<>> <=> Len(q) = 0) BY <1>1, <1>2 DEF RowOK, q
    <3>2. ASSUME NEW i \in 1 .. Len(t)
          PROVE  (i = 1 => t[i] \in Opening) /\ (i # 1 => t[i] # "started")
      <4>1. CASE i \in 1 .. Len(q)
        BY <4>1, <3>1, <1>3 DEF Legal
      <4>2. CASE i = Len(q) + 1
        <5>1. t[i] = kind BY <4>2, <1>3
        <5>2. IF q = <<>> THEN kind \in Opening ELSE kind # "started" BY DEF q
        <5>3. i = 1 <=> Len(q) = 0 BY <4>2, <1>2
        <5> QED BY <5>1, <5>2, <5>3, <3>1
      <4> QED BY <4>1, <4>2, <1>2, <1>3
    <3> HIDE DEF t
    <3>3. Legal(t) BY <3>2 DEF Legal
    <3> QED BY <3>3, <1>6 DEF t
  <2> QED BY <2>1, <2>3, <2>4, <2>5, <1>6, <1>8 DEF RowOK
<1>11. LedgerOK(M)
  <2>1. ASSUME NEW p \in Operations, p # o PROVE RowOK(M, p)
    <3>1. Terminal(M, p) <=> Terminal(L, p) BY <2>1, <1>6, SameState
    <3> QED BY <2>1, <3>1, <1>1, <1>5, <1>6 DEF RowOK
  <2> QED BY <2>1, <1>7, <1>10 DEF LedgerOK
<1>12. SettledOK(M)
  <2>1. ASSUME NEW s \in Sessions, Settled(M, s), NEW p \in Operations, M.op[p].session = s PROVE Terminal(M, p)
    <3>1. Settled(L, s) /\ L.op[p].session = s BY <2>1, <1>5, <1>6 DEF Settled
    <3>2. Terminal(L, p) BY <3>1 DEF SettledOK
    <3>3. p # o BY <3>2
    <3> QED BY <3>2, <3>3, <1>6, SameState
  <2> QED BY <2>1, <1>5 DEF SettledOK, Settled
<1>13. ASSUME NEW p \in Operations
       PROVE  /\ Begins(L.op[p].events, M.op[p].events) /\ (Exists(L, p) => Exists(M, p))
              /\ p \notin But(o, kind) =>
                   \A i \in 1 .. Len(M.op[p].events) : M.op[p].events[i] = "completed" => i <= Len(L.op[p].events)
  <2>1. CASE p = o
    <3>1. Begins(q, Append(q, kind)) BY <1>2, <1>3 DEF Begins
    <3>2. p \notin But(o, kind) => kind # "completed" BY <2>1 DEF But
    <3>3. ASSUME kind # "completed", NEW i \in 1 .. Len(q) + 1, Append(q, kind)[i] = "completed" PROVE i <= Len(q)
      BY <3>3, <1>2, <1>3
    <3> QED BY <2>1, <3>1, <3>2, <3>3, <1>3, <1>6, <1>8 DEF Exists, q
  <2>2. CASE p # o
    <3>1. Len(L.op[p].events) \in Nat BY <1>1, StateOf
    <3> QED BY <2>2, <3>1, <1>6 DEF Begins, Exists
  <2> QED BY <2>1, <2>2
<1>14. Grows(L, M, But(o, kind))
  BY <1>5, <1>11, <1>12, <1>13 DEF Grows, Settled
<1>15. SameRows(L, M)
  BY <1>6 DEF SameRows, Exists
<1> QED BY <1>5, <1>6, <1>14, <1>15 DEF M, q

\* An outcome, unless there is one.
LEMMA FinishedGrows ==
  ASSUME NEW L, LedgerOK(L), SettledOK(L), NEW o \in Operations, NEW kind \in TerminalEvents, Exists(L, o),
         kind = "completed" => L.op[o].events # <<>>
  PROVE  LET M == Finished(L, o, kind) IN
         Grows(L, M, But(o, kind)) /\ M.eventAcks = L.eventAcks /\ SameRows(L, M)
<1>1. kind \in Kinds /\ kind # "started" /\ (kind # "completed" => kind \in Opening)
  BY DEF Kinds, TerminalEvents, Opening
<1>2. CASE Terminal(L, o)
  BY <1>2, StaysGrown DEF Finished, SameRows
<1>3. CASE ~Terminal(L, o)
  BY <1>1, <1>3, RecordedGrows DEF Finished
<1> QED BY <1>2, <1>3

\* A reply to a session that was opened; the one that settles it comes last.
LEMMA ReplyGrows ==
  ASSUME NEW L, LedgerOK(L), SettledOK(L), NEW s \in Sessions, NEW kind \in ReplyKinds, L.sess[s] # None,
         kind = "closed" => L.sess[s] = "closed" /\ \A o \in Operations : L.op[o].session = s => Terminal(L, o)
  PROVE  LET M == WithReply(L, s, kind) IN Grows(L, M, {}) /\ M.eventAcks = L.eventAcks /\ SameRows(L, M)
<1> DEFINE M == WithReply(L, s, kind)
<1>1. L \in Ledgers /\ \A o \in Operations : RowOK(L, o) /\ Len(L.op[o].events) \in Nat
  BY StateOf DEF LedgerOK
<1>2. /\ M.op = L.op /\ M.sess = L.sess /\ M.eventAcks = L.eventAcks
      /\ M.replies = [L.replies EXCEPT ![s] = @ \cup {kind}] /\ M \in Ledgers
  BY <1>1 DEF WithReply, Ledgers
<1> HIDE DEF M
<1>3. /\ \A t \in Sessions : t # s => M.replies[t] = L.replies[t]
      /\ M.replies[s] = L.replies[s] \cup {kind}
  BY <1>1, <1>2 DEF Ledgers
<1>4. \A o \in Operations : (Terminal(M, o) <=> Terminal(L, o)) /\ (Exists(M, o) <=> Exists(L, o))
  BY <1>2, SameState DEF Exists
<1>5. LedgerOK(M)
  BY <1>1, <1>2, <1>4 DEF LedgerOK, RowOK
<1>6. SettledOK(M)
  BY <1>2, <1>3, <1>4 DEF SettledOK, Settled
<1>7. Grows(L, M, {})
  BY <1>1, <1>2, <1>3, <1>4, <1>5, <1>6 DEF Grows, Begins, Settled
<1> QED BY <1>2, <1>4, <1>7 DEF M, SameRows

\* A command that is not refused; an operation it fails had no history.
LEMMA CommandGrows ==
  ASSUME NEW L, LedgerOK(L), SettledOK(L), NEW c \in Commands, ~CommandRefused(L, c), NEW accept \in BOOLEAN
  PROVE  LET M == WithCommand(L, c, accept) IN
         /\ Grows(L, M, {}) /\ M.eventAcks = L.eventAcks
         /\ \A o \in Operations : Exists(M, o) => Exists(L, o) \/ (c.type = "dispatch" /\ c.operation = o)
<1> DEFINE M == WithCommand(L, c, accept)
<1> HIDE DEF M
<1>1. /\ \A o \in Operations : Exists(M, o) => Exists(L, o) \/ (c.type = "dispatch" /\ c.operation = o)
      /\ LedgerOK(M) /\ Keeps(L, M) /\ M.eventAcks = L.eventAcks
      /\ \A o \in Operations : ~Exists(L, o) => M.op[o].events \in {<<>>, <<"failed">>}
      /\ SettledOK(M) /\ \A s \in Sessions : Settled(M, s) <=> Settled(L, s)
  BY CommandKeeps DEF M
<1>2. L \in Ledgers /\ \A o \in Operations : RowOK(L, o) /\ Len(L.op[o].events) \in Nat
  BY StateOf DEF LedgerOK
<1>3. ASSUME NEW o \in Operations
      PROVE  /\ Begins(L.op[o].events, M.op[o].events)
             /\ \A i \in 1 .. Len(M.op[o].events) : M.op[o].events[i] = "completed" => i <= Len(L.op[o].events)
  <2>1. CASE Exists(L, o)
    BY <2>1, <1>1, <1>2 DEF Keeps, Begins
  <2>2. CASE ~Exists(L, o)
    <3>1. L.op[o].events = <<>> BY <2>2, <1>2 DEF RowOK, Exists
    <3>2. M.op[o].events = <<>> \/ M.op[o].events = <<"failed">> BY <2>2, <1>1
    <3>3. Len(<<>>) = 0 /\ Len(<<"failed">>) = 1 /\ <<"failed">>[1] = "failed" OBVIOUS
    <3>4. CASE M.op[o].events = <<>>
      BY <3>1, <3>3, <3>4 DEF Begins
    <3>5. CASE M.op[o].events = <<"failed">>
      <4>1. \A i \in 1 .. 1 : <<"failed">>[i] # "completed" OBVIOUS
      <4>2. Begins(<<>>, <<"failed">>) BY <3>3 DEF Begins
      <4> QED BY <3>1, <3>3, <3>5, <4>1, <4>2
    <3> QED BY <3>2, <3>4, <3>5
  <2> QED BY <2>1, <2>2
<1>4. Grows(L, M, {})
  BY <1>1, <1>3 DEF Grows, Keeps
<1> QED BY <1>1, <1>4 DEF M

-----------------------------------------------------------------------------
(* A frame at the worker and at the coordinator.                            *)

\* A ledger between two items of a frame.
Handled == [ledger : Ledgers, ok : BOOLEAN]

\* An item that is applied or refused: what holds of the ledger before and after it.
LEMMA AppliedIn ==
  ASSUME NEW h \in Handled, NEW refused, NEW ledger, NEW V,
         \A ok \in BOOLEAN : [ledger |-> h.ledger, ok |-> ok] \in V,
         ~refused => \A ok \in BOOLEAN : [ledger |-> ledger, ok |-> ok] \in V
  PROVE  Applied(h, refused, ledger) \in V
<1>1. CASE h.ok /\ ~refused
  <2>1. Applied(h, refused, ledger) = [ledger |-> ledger, ok |-> h.ok]
    BY <1>1 DEF Applied, Handled
  <2> QED BY <2>1, <1>1 DEF Handled
<1>2. CASE ~(h.ok /\ ~refused)
  <2>1. Applied(h, refused, ledger) = [ledger |-> h.ledger, ok |-> FALSE]
    BY <1>2 DEF Applied, Handled
  <2> QED BY <2>1
<1> QED BY <1>1, <1>2

\* The commands for operations that the coordinator has.
Requests == {c \in Commands : c.type = "dispatch" => Exists(coord, c.operation)}

\* A frame the worker may get, when the coordinator has B of its events.
WorkerFrame(frame, B) ==
  /\ frame.revoked \in BOOLEAN
  /\ ~frame.revoked =>
       /\ frame.commands \in Seq(Requests) /\ IsFiniteSet(frame.chunks)
       /\ \A e \in frame.receipts.events :
            e.operation \in Operations /\ e.sequence \in Nat /\ e.sequence <= B[e.operation]
       /\ \A w \in frame.receipts.replies : w.reply \in ReplyKinds

\* A frame at the worker loses nothing, confirms no event the coordinator does not have, and
\* brings no operation it does not have.
LEMMA WorkerHandlingGrows ==
  ASSUME LedgerOK(worker), SettledOK(worker), NEW B \in [Operations -> Nat],
         \A o \in Operations : worker.eventAcks[o] <= B[o] /\ B[o] <= Len(worker.op[o].events),
         \A o \in Operations : Exists(worker, o) => Exists(coord, o),
         NEW frame, WorkerFrame(frame, B), NEW accept \in BOOLEAN
  PROVE  LET M == WorkerHandles(frame, accept).ledger IN
         Grows(worker, M, {}) /\ \A o \in Operations : M.eventAcks[o] <= B[o] /\ (Exists(M, o) => Exists(coord, o))
<1> DEFINE Good(N) == /\ Grows(worker, N, {})
                      /\ \A o \in Operations : N.eventAcks[o] <= B[o] /\ (Exists(N, o) => Exists(coord, o))
           V == {h \in Handled : Good(h.ledger)}
           acked == IF frame.receipts = NoReceipts THEN worker
                    ELSE Reclaimed(Acknowledged(worker, frame.receipts))
<1>1. CASE frame.revoked
  <2>1. WorkerHandles(frame, accept).ledger = WithRevocation(worker)
    BY <1>1 DEF WorkerHandles
  <2>2. Grows(worker, WithRevocation(worker), {})
    BY RevocationKeeps, SameHistoryGrows
  <2>3. SameHistory(worker, WithRevocation(worker)) BY RevocationKeeps
  <2> QED BY <2>1, <2>2, <2>3, RevocationKeeps DEF SameHistory, Exists
<1>2. CASE ~frame.revoked
  <2>1. Good(acked)
    <3>1. CASE frame.receipts = NoReceipts
      BY <3>1, StaysGrown
    <3>2. CASE frame.receipts # NoReceipts
      <4> DEFINE A == Acknowledged(worker, frame.receipts)
      <4> HIDE DEF A
      <4>1. LedgerOK(A) /\ SameHistory(worker, A) /\ \A o \in Operations : A.eventAcks[o] <= B[o]
        BY <1>2, AcknowledgementKeeps DEF A, WorkerFrame
      <4>2. Grows(worker, A, {})
        BY <4>1, SameHistoryGrows
      <4>3. SettledOK(A) BY <4>2 DEF Grows
      <4>4. LedgerOK(Reclaimed(A)) /\ SameHistory(A, Reclaimed(A)) /\ Reclaimed(A).eventAcks = A.eventAcks
        BY <4>1, ReclamationKeeps
      <4>5. Grows(A, Reclaimed(A), {})
        BY <4>1, <4>3, <4>4, SameHistoryGrows
      <4>6. Grows(worker, Reclaimed(A), {})
        BY <4>2, <4>5, GrowsOn DEF LedgerOK
      <4>7. \A o \in Operations : Exists(Reclaimed(A), o) <=> Exists(worker, o)
        BY <4>1, <4>4 DEF SameHistory, Exists
      <4> QED BY <3>2, <4>1, <4>4, <4>6, <4>7 DEF A
    <3> QED BY <3>1, <3>2
  <2> HIDE DEF acked
  <2>2. ASSUME NEW N, Good(N), NEW ok \in BOOLEAN PROVE [ledger |-> N, ok |-> ok] \in V
    <3>1. N \in Ledgers BY <2>2 DEF Grows, LedgerOK
    <3> QED BY <2>2, <3>1 DEF Handled
  <2>3. \A h \in V : h \in Handled /\ Good(h.ledger) /\ LedgerOK(h.ledger) /\ SettledOK(h.ledger)
    BY DEF Grows
  <2>4. [ledger |-> acked, ok |-> TRUE] \in V
    BY <2>1, <2>2
  <2>5. ASSUME NEW N, NEW h \in V, Grows(h.ledger, N, {}), N.eventAcks = h.ledger.eventAcks,
               \A o \in Operations : Exists(N, o) => Exists(h.ledger, o) \/ Exists(coord, o)
        PROVE  Good(N)
    BY <2>3, <2>5, GrowsOn DEF LedgerOK
  <2> HIDE DEF V
  <2>6. \A h \in V, c \in Requests :
          Applied(h, CommandRefused(h.ledger, c), WithCommand(h.ledger, c, accept)) \in V
    <3> TAKE h \in V, c \in Requests
    <3>1. h \in Handled /\ Good(h.ledger) /\ LedgerOK(h.ledger) /\ SettledOK(h.ledger)
      BY <2>3
    <3>2. ASSUME ~CommandRefused(h.ledger, c) PROVE Good(WithCommand(h.ledger, c, accept))
      <4> DEFINE N == WithCommand(h.ledger, c, accept)
      <4>1. /\ Grows(h.ledger, N, {}) /\ N.eventAcks = h.ledger.eventAcks
            /\ \A o \in Operations : Exists(N, o) => Exists(h.ledger, o) \/ (c.type = "dispatch" /\ c.operation = o)
        BY <3>1, <3>2, CommandGrows DEF Requests
      <4> HIDE DEF N
      <4>3. \A o \in Operations : Exists(N, o) => Exists(h.ledger, o) \/ Exists(coord, o)
        BY <4>1 DEF Requests
      <4> HIDE DEF Good
      <4>2. Good(N) BY <4>1, <4>3, <2>5
      <4> QED BY <4>2 DEF N
    <3> HIDE DEF Good
    <3> QED BY <3>1, <3>2, <2>2, AppliedIn
  <2>7. \A h \in V, o \in frame.chunks : Applied(h, ChunkRefused(h.ledger, o), WithChunk(h.ledger, o)) \in V
    <3> TAKE h \in V, o \in frame.chunks
    <3>1. h \in Handled /\ Good(h.ledger) /\ LedgerOK(h.ledger) /\ SettledOK(h.ledger)
      BY <2>3
    <3> DEFINE N == WithChunk(h.ledger, o)
    <3>2. LedgerOK(N) /\ SameHistory(h.ledger, N) /\ N.eventAcks = h.ledger.eventAcks
      BY <3>1, ChunkKeeps
    <3> HIDE DEF N
    <3>3. Grows(h.ledger, N, {}) BY <3>1, <3>2, SameHistoryGrows
    <3>5. \A x \in Operations : Exists(N, x) => Exists(h.ledger, x) \/ Exists(coord, x)
      BY <3>2 DEF SameHistory, Exists
    <3>4. Good(N) BY <3>2, <3>3, <3>5, <2>5
    <3> HIDE DEF Good
    <3> QED BY <3>1, <3>4, <2>2, AppliedIn DEF N
  <2> DEFINE commanded == CommandsHandled([ledger |-> acked, ok |-> TRUE], frame.commands, accept)
  <2>8. commanded \in V
    BY <1>2, <2>4, <2>6, CommandsInTurn DEF WorkerFrame
  <2> HIDE DEF commanded
  <2>9. ChunksHandled(commanded, frame.chunks) \in V
    BY <1>2, <2>7, <2>8, ChunksInTurn DEF WorkerFrame
  <2>10. WorkerHandles(frame, accept) = ChunksHandled(commanded, frame.chunks)
    BY <1>2 DEF WorkerHandles, commanded, acked
  <2> QED BY <2>3, <2>9, <2>10
<1> QED BY <1>1, <1>2

\* The coordinator's history on its way from C to the worker's.
Between(C, N) ==
  /\ LedgerOK(N) /\ N.replies = C.replies /\ N.commands = C.commands
  /\ \A o \in Operations :
       /\ Begins(C.op[o].events, N.op[o].events) /\ Begins(N.op[o].events, worker.op[o].events)
       /\ Terminal(C, o) => N.op[o].events = C.op[o].events
       /\ Exists(C, o) => Exists(N, o)

\* An event that the worker has to say is one of a history of the worker's.
LEMMA EventOfWorker ==
  ASSUME LedgerOK(worker), NEW e \in PendingEvents(worker)
  PROVE  /\ e.operation \in Operations /\ e.sequence \in 1 .. Len(worker.op[e.operation].events)
         /\ e.kind = worker.op[e.operation].events[e.sequence]
         /\ Exists(worker, e.operation)
<1>1. PICK p \in Operations : \E j \in worker.eventAcks[p] + 1 .. Len(worker.op[p].events) :
        e = [operation |-> p, sequence |-> j, kind |-> worker.op[p].events[j]]
  BY DEF PendingEvents
<1>2. PICK j \in worker.eventAcks[p] + 1 .. Len(worker.op[p].events) :
        e = [operation |-> p, sequence |-> j, kind |-> worker.op[p].events[j]]
  BY <1>1
<1>3. worker.eventAcks[p] \in Nat /\ Len(worker.op[p].events) \in Nat
  BY StateOf DEF LedgerOK, Ledgers
<1>4. j \in 1 .. Len(worker.op[p].events)
  BY <1>3
<1>5. Exists(worker, p)
  <2>1. worker.op[p].events # <<>>
    <3>1. Len(<<>>) = 0 OBVIOUS
    <3> QED BY <3>1, <1>3, <1>4
  <2> QED BY <2>1 DEF LedgerOK, RowOK, Exists
<1> QED BY <1>2, <1>4, <1>5

\* An event of the worker that is next in the coordinator's history.
LEMMA EventBetween ==
  ASSUME LedgerOK(worker), NEW C \in Ledgers, NEW N, Between(C, N),
         NEW e \in PendingEvents(worker), ~EventRefused(N, e)
  PROVE  /\ Between(C, WithEvent(N, e))
         /\ e.sequence <= Len(WithEvent(N, e).op[e.operation].events)
         /\ \A o \in Operations : Len(N.op[o].events) <= Len(WithEvent(N, e).op[o].events)
<1> DEFINE o == e.operation
           i == e.sequence
           q == N.op[o].events
           w == worker.op[o].events
           M == WithEvent(N, e)
<1>1. N \in Ledgers /\ worker \in Ledgers /\ N.op \in [Operations -> Rows]
  BY DEF Between, LedgerOK, Ledgers
<1>2. o \in Operations /\ i \in Nat /\ i > 0 /\ i <= Len(w) /\ e.kind = w[i]
  <2>1. o \in Operations /\ i \in 1 .. Len(w) /\ e.kind = w[i] BY EventOfWorker
  <2>2. Len(w) \in Nat BY <2>1, <1>1, StateOf
  <2> QED BY <2>1, <2>2
<1>3. /\ q \in Seq(Kinds) /\ Len(q) \in Nat /\ w \in Seq(Kinds) /\ Len(w) \in Nat /\ N.op[o] \in Rows
      /\ RowOK(N, o) /\ RowOK(worker, o) /\ Begins(q, w)
  BY <1>1, <1>2, StateOf DEF Between, LedgerOK
<1>4. CASE i <= Len(q)
  <2>1. M = N
    <3>1. M = [N EXCEPT !.op = [N.op EXCEPT ![o] = [N.op[o] EXCEPT !.events = q]]]
      BY <1>4 DEF WithEvent, EventKnown
    <3> HIDE DEF M
    <3>2. [N.op[o] EXCEPT !.events = q] = N.op[o] BY <1>3 DEF Rows
    <3>3. [N.op EXCEPT ![o] = N.op[o]] = N.op BY <1>1, <1>2
    <3> QED BY <3>1, <3>2, <3>3, <1>1 DEF Ledgers
  <2>2. \A p \in Operations : Len(N.op[p].events) \in Nat BY <1>1, StateOf
  <2> QED BY <2>1, <2>2, <1>4
<1>5. CASE ~(i <= Len(q))
  <2> DEFINE r == Append(q, e.kind)
  <2>1. i = Len(q) + 1 /\ Exists(N, o)
    BY <1>5 DEF EventRefused, EventKnown
  <2>2. e.kind \in Kinds
    <3> HIDE DEF w
    <3> QED BY <1>2, <1>3, ElementIn
  <2>3. /\ r \in Seq(Kinds) /\ Len(r) = Len(q) + 1 /\ r[Len(q) + 1] = e.kind
        /\ \A j \in 1 .. Len(q) : r[j] = q[j]
    <3> HIDE DEF q
    <3> QED BY <2>2, <1>3
  <2> HIDE DEF r
  <2>4. M = [N EXCEPT !.op = [N.op EXCEPT ![o] = [N.op[o] EXCEPT !.events = r]]]
    BY <1>5 DEF WithEvent, EventKnown, r
  <2> HIDE DEF M
  <2>5. /\ M.op = [N.op EXCEPT ![o] = [N.op[o] EXCEPT !.events = r]] /\ M.sess = N.sess
        /\ M.replies = N.replies /\ M.eventAcks = N.eventAcks /\ M.commands = N.commands
    BY <1>1, <2>4 DEF Ledgers
  <2>6. /\ M.op[o] \in Rows /\ M.op[o].events = r /\ M.op[o].session = N.op[o].session
        /\ M.op[o].retired = N.op[o].retired
        /\ \A p \in Operations : p # o => M.op[p] = N.op[p]
    <3>1. M.op[o] = [N.op[o] EXCEPT !.events = r] BY <1>1, <1>2, <2>5
    <3>2. \A p \in Operations : p # o => M.op[p] = N.op[p] BY <1>1, <2>5
    <3> HIDE DEF o, q
    <3> QED BY <3>1, <3>2, <1>3, <2>3 DEF Rows
  <2>7. M \in Ledgers
    <3>1. M.op \in [Operations -> Rows] BY <1>1, <2>5, <2>6
    <3>2. M = [N EXCEPT !.op = M.op] BY <1>1, <2>4, <2>5
    <3> QED BY <3>1, <3>2, <1>1 DEF Ledgers
  <2> HIDE DEF q, w
  <2>8. \A j \in 1 .. Len(q) : q[j] = w[j] /\ q[j] \notin TerminalEvents
    <3> TAKE j \in 1 .. Len(q)
    <3>1. j \in 1 .. Len(w) - 1 BY <1>2, <1>3, <2>1
    <3>2. w[j] \notin TerminalEvents BY <3>1, <1>3 DEF RowOK, w
    <3> QED BY <3>2, <1>3 DEF Begins
  <2>9. ~Terminal(N, o)
    <3>1. Len(q) > 0 => Len(q) \in 1 .. Len(q) BY <1>3
    <3> QED BY <3>1, <2>8, <1>1, <1>2, StateOf DEF q
  <2>10. RowOK(M, o)
    <3>1. \A j \in 1 .. Len(r) - 1 : r[j] \notin TerminalEvents
      <4>1. Len(r) - 1 = Len(q) BY <1>3, <2>3
      <4> QED BY <4>1, <2>3, <2>8
    <3>2. N.eventAcks[o] <= Len(r)
      <4>1. N.eventAcks[o] \in Nat /\ N.eventAcks[o] <= Len(q) BY <1>1, <1>2, <1>3 DEF RowOK, Ledgers, q
      <4> QED BY <4>1, <1>3, <2>3
    <3>3. ~N.op[o].retired /\ N.sess[N.op[o].session] # None BY <1>3, <2>1, <2>9 DEF RowOK, Exists
    <3>4. Legal(r)
      <4>1. Len(r) <= Len(w) BY <1>2, <2>1, <2>3
      <4>2. ASSUME NEW j \in 1 .. Len(r) PROVE j \in 1 .. Len(w) /\ r[j] = w[j]
        <5>1. j = Len(q) + 1 => r[j] = w[j] BY <1>2, <2>1, <2>3
        <5>2. j # Len(q) + 1 => j \in 1 .. Len(q) BY <1>3, <2>3
        <5>3. j \in 1 .. Len(w) BY <4>1, <1>3, <2>3
        <5> QED BY <5>1, <5>2, <5>3, <2>3, <2>8
      <4>3. Legal(w) BY <1>3 DEF RowOK, w
      <4> QED BY <4>2, <4>3 DEF Legal
    <3> QED BY <3>1, <3>2, <3>3, <3>4, <2>1, <2>5, <2>6 DEF RowOK, Exists
  <2>11. LedgerOK(M)
    <3>1. ASSUME NEW p \in Operations, p # o PROVE RowOK(M, p)
      <4>1. RowOK(N, p) BY DEF Between, LedgerOK
      <4>2. Terminal(M, p) <=> Terminal(N, p) BY <3>1, <2>6, SameState
      <4> QED BY <3>1, <4>1, <4>2, <2>5, <2>6 DEF RowOK
    <3> QED BY <3>1, <2>7, <2>10 DEF LedgerOK
  <2>12. Begins(r, w)
    <3>1. Len(r) <= Len(w) BY <1>2, <2>1, <2>3
    <3>2. ASSUME NEW j \in 1 .. Len(r) PROVE r[j] = w[j]
      <4>1. CASE j = Len(q) + 1 BY <4>1, <1>2, <2>1, <2>3
      <4>2. CASE j # Len(q) + 1
        <5>1. j \in 1 .. Len(q) BY <4>2, <1>3, <2>3
        <5> QED BY <5>1, <2>3, <2>8
      <4> QED BY <4>1, <4>2
    <3> QED BY <3>1, <3>2 DEF Begins
  <2>13. Begins(C.op[o].events, r)
    <3>1. Begins(q, r) BY <1>3, <2>3 DEF Begins
    <3>2. Begins(C.op[o].events, q) BY <1>2 DEF Between, q
    <3>3. Len(C.op[o].events) \in Nat BY <1>2, StateOf
    <3>4. Len(r) \in Nat BY <1>3, <2>3
    <3> QED BY <3>1, <3>2, <3>3, <3>4, <1>3, BeginsOn
  <2>14. ~Terminal(C, o)
    <3>1. Terminal(C, o) => N.op[o].events = C.op[o].events BY <1>2 DEF Between
    <3> QED BY <3>1, <2>9, SameState
  <2>15. Between(C, M)
    <3>1. ASSUME NEW p \in Operations
          PROVE  /\ Begins(C.op[p].events, M.op[p].events) /\ Begins(M.op[p].events, worker.op[p].events)
                 /\ Terminal(C, p) => M.op[p].events = C.op[p].events
                 /\ Exists(C, p) => Exists(M, p)
      <4>1. CASE p = o
        BY <4>1, <2>1, <2>6, <2>12, <2>13, <2>14 DEF w, Exists
      <4>2. CASE p # o
        BY <4>2, <2>6 DEF Between, Exists
      <4> QED BY <4>1, <4>2
    <3> QED BY <3>1, <2>5, <2>11 DEF Between
  <2>16. \A p \in Operations : Len(N.op[p].events) \in Nat BY <1>1, StateOf
  <2>17. Len(N.op[o].events) <= Len(M.op[o].events) /\ i <= Len(M.op[o].events)
    BY <2>1, <2>3, <2>6, <1>3 DEF q
  <2> QED BY <2>6, <2>15, <2>16, <2>17 DEF M
<1> QED BY <1>4, <1>5


\* A later ledger of the coordinator: no history is shorter, none that is over has changed.
Advances(C, N) ==
  /\ \A o \in Operations :
       /\ Begins(C.op[o].events, N.op[o].events)
       /\ Terminal(C, o) => N.op[o].events = C.op[o].events
       /\ Exists(C, o) => Exists(N, o)
  /\ Requested(C) => Requested(N)

\* The coordinator's ledger C holds nothing the worker's does not hold.
Follows(C) ==
  /\ \A o \in Operations : Begins(C.op[o].events, worker.op[o].events)
  /\ \A s \in Sessions : Settled(C, s) => Settled(worker, s)

\* With the same commands and no operation less, every requested operation is still there.
LEMMA RequestedOn ==
  ASSUME NEW L \in Ledgers, NEW M, Requested(L),
         \A i \in DOMAIN M.commands : i \in DOMAIN L.commands /\ M.commands[i].command = L.commands[i].command,
         \A o \in Operations : Exists(L, o) => Exists(M, o)
  PROVE  Requested(M)
<1> SUFFICES ASSUME NEW i \in DOMAIN M.commands, M.commands[i].command.type = "dispatch"
             PROVE  Exists(M, M.commands[i].command.operation)
  BY DEF Requested
<1>1. i \in DOMAIN L.commands /\ M.commands[i].command = L.commands[i].command
  OBVIOUS
<1>2. L.commands[i].command \in Commands
  BY <1>1, CommandsOf
<1>3. L.commands[i].command.operation \in Operations
  BY <1>1, <1>2 DEF Commands
<1>4. Exists(L, L.commands[i].command.operation)
  BY <1>1 DEF Requested
<1> QED BY <1>1, <1>3, <1>4

\* A ledger with the same history is as far behind the worker as before.
LEMMA FollowsOn ==
  ASSUME NEW C, LedgerOK(C), NEW N, SameHistory(C, N), Follows(C)
  PROVE  Follows(N) /\ Advances(C, N)
<1>1. \A o \in Operations : Len(C.op[o].events) \in Nat
  BY StateOf DEF LedgerOK
<1>2. Follows(N)
  BY DEF SameHistory, Follows, Settled
<1>3. Requested(C) => Requested(N)
  BY RequestedOn DEF SameHistory, Exists, LedgerOK
<1>4. \A o \in Operations : /\ Begins(C.op[o].events, N.op[o].events)
                            /\ Terminal(C, o) => N.op[o].events = C.op[o].events
                            /\ Exists(C, o) => Exists(N, o)
  BY <1>1 DEF SameHistory, Begins, Exists
<1> QED BY <1>2, <1>3, <1>4 DEF Advances

\* What the worker has to say is of its operations and of its sessions.
LEMMA FrameToCoordinator ==
  ASSUME NEW frame \in FramesToCoordinator, LedgerOK(worker)
  PROVE  /\ frame = [commands |-> frame.commands, chunks |-> frame.chunks,
                     events |-> frame.events, replies |-> frame.replies]
         /\ IsFiniteSet(frame.events) /\ frame.events \in SUBSET PendingEvents(worker)
         /\ \A e \in frame.events : e.operation \in Operations /\ e.sequence \in Nat
         /\ \A w \in frame.replies : w.session \in Sessions /\ w.reply \in worker.replies[w.session]
                                     /\ w.reply \in ReplyKinds
<1>1. worker \in Ledgers
  BY DEF LedgerOK
<1>2. frame \in [commands : {Range(First(PendingCommands(worker)))}, chunks : SomeOf(PendingChunks(worker)),
                 events : SomeOf(PendingEvents(worker)), replies : SomeOf(PendingReplies(worker))]
  BY DEF FramesToCoordinator
<1>3. /\ frame = [commands |-> frame.commands, chunks |-> frame.chunks,
                  events |-> frame.events, replies |-> frame.replies]
      /\ frame.events \in SomeOf(PendingEvents(worker)) /\ frame.replies \in SomeOf(PendingReplies(worker))
  BY <1>2
<1>4. /\ frame.events \in SUBSET PendingEvents(worker) /\ IsFiniteSet(frame.events)
      /\ frame.replies \in SUBSET PendingReplies(worker)
  BY <1>3 DEF SomeOf
<1>5. ASSUME NEW e \in frame.events PROVE e.operation \in Operations /\ e.sequence \in Nat
  <2>1. e.operation \in Operations /\ e.sequence \in 1 .. Len(worker.op[e.operation].events)
    BY <1>4, EventOfWorker
  <2> QED BY <2>1
<1>6. ASSUME NEW w \in frame.replies
      PROVE  w.session \in Sessions /\ w.reply \in worker.replies[w.session] /\ w.reply \in ReplyKinds
  <2>1. PICK s \in Sessions : \E k \in worker.replies[s] \ worker.replyAcks[s] : w = [session |-> s, reply |-> k]
    BY <1>4 DEF PendingReplies
  <2>2. worker.replies[s] \in SUBSET ReplyKinds BY <1>1 DEF Ledgers
  <2> QED BY <2>1, <2>2
<1> QED BY <1>3, <1>4, <1>5, <1>6

\* An event of the worker that is known to the coordinator or next for it is not refused.
LEMMA EventAccepted ==
  ASSUME LedgerOK(worker), NEW C, NEW N, Between(C, N), NEW e \in PendingEvents(worker),
         Exists(N, e.operation), e.sequence <= Len(N.op[e.operation].events) + 1
  PROVE  ~EventRefused(N, e)
<1> DEFINE o == e.operation
           i == e.sequence
           q == N.op[o].events
           w == worker.op[o].events
<1>1. o \in Operations /\ i \in 1 .. Len(w) /\ e.kind = w[i]
  BY EventOfWorker
<1>2. /\ N \in Ledgers /\ worker \in Ledgers /\ Begins(q, w)
      /\ Legal(w) /\ \A j \in 1 .. Len(w) - 1 : w[j] \notin TerminalEvents
  BY <1>1 DEF Between, LedgerOK, RowOK
<1>3. Len(q) \in Nat /\ Len(w) \in Nat /\ (q # <<>> => Len(q) > 0) /\ (q = <<>> => Len(q) = 0)
  <2>1. q = <<>> => Len(q) = 0 OBVIOUS
  <2> QED BY <2>1, <1>1, <1>2, StateOf
<1>4. /\ State(N, o) = "pending" <=> q = <<>>
      /\ Terminal(N, o) => q # <<>> /\ q[Len(q)] \in TerminalEvents
  BY <1>1, <1>2, StateOf
<1>5. State(N, o) \in {"pending", "started"} \/ Terminal(N, o)
  BY DEF State, Terminal
<1> HIDE DEF q, w
<1>6. CASE i <= Len(q)
  BY <1>6 DEF EventRefused, EventKnown, q
<1>7. CASE ~(i <= Len(q))
  <2>1. i = Len(q) + 1
    BY <1>1, <1>3, <1>7 DEF q
  <2>2. ~Terminal(N, o)
    <3>1. Len(q) > 0 => Len(q) \in 1 .. Len(q) /\ Len(q) \in 1 .. Len(w) - 1
      BY <1>1, <1>3, <2>1
    <3>2. Len(q) > 0 => q[Len(q)] \notin TerminalEvents
      BY <3>1, <1>2 DEF Begins
    <3> QED BY <3>2, <1>3, <1>4
  <2>3. MayFollow(N, o, e.kind)
    <3>1. CASE q = <<>>
      <4>1. i = 1 BY <3>1, <2>1, <1>3
      <4>2. e.kind \in Opening BY <4>1, <1>1, <1>2 DEF Legal
      <4>3. State(N, o) = "pending" BY <3>1, <1>4
      <4> QED BY <4>2, <4>3 DEF MayFollow, Opening
    <3>2. CASE q # <<>>
      <4>1. i # 1 BY <3>2, <2>1, <1>3
      <4>2. e.kind # "started" BY <4>1, <1>1, <1>2 DEF Legal
      <4>3. State(N, o) = "started" BY <3>2, <2>2, <1>4, <1>5
      <4> QED BY <4>2, <4>3 DEF MayFollow
    <3> QED BY <3>1, <3>2
  <2> QED BY <2>1, <2>3 DEF EventRefused, q
<1> QED BY <1>6, <1>7

\* A frame that has an event of an operation has the one before it, unless that is confirmed.
LEMMA EventBefore ==
  ASSUME LedgerOK(worker), NEW frame \in FramesToCoordinator, NEW e \in frame.events,
         e.sequence - 1 > worker.eventAcks[e.operation]
  PROVE  \E d \in frame.events : d.operation = e.operation /\ d.sequence = e.sequence - 1
<1> DEFINE o == e.operation
           j == e.sequence - 1
           d == [operation |-> o, sequence |-> j, kind |-> worker.op[o].events[j]]
<1>1. /\ e \in PendingEvents(worker)
      /\ \A g \in PendingEvents(worker) : g.sequence < e.sequence => g \in frame.events
  <2>1. frame.events \in SUBSET PendingEvents(worker) BY FrameToCoordinator
  <2> QED BY <2>1 DEF FramesToCoordinator
<1>2. o \in Operations /\ e.sequence \in 1 .. Len(worker.op[o].events)
  BY <1>1, EventOfWorker
<1>3. worker.eventAcks[o] \in Nat /\ Len(worker.op[o].events) \in Nat
  BY <1>2, StateOf DEF LedgerOK, Ledgers
<1>4. j \in worker.eventAcks[o] + 1 .. Len(worker.op[o].events) /\ j < e.sequence
  BY <1>2, <1>3
<1>5. d \in PendingEvents(worker)
  BY <1>2, <1>4 DEF PendingEvents
<1>6. d.operation = o /\ d.sequence = j
  OBVIOUS
<1> HIDE DEF d
<1>7. d \in frame.events
  BY <1>1, <1>4, <1>5, <1>6
<1> QED BY <1>6, <1>7

\* Receipts of commands and of chunks alone keep a history and what is confirmed of it.
LEMMA PlainReceiptsKeep ==
  ASSUME NEW L, LedgerOK(L), NEW r, r.events = {}, r.replies = {}
  PROVE  LedgerOK(Acknowledged(L, r)) /\ SameHistory(L, Acknowledged(L, r))
<1> DEFINE B == [o \in Operations |-> Len(L.op[o].events)]
<1>1. \A o \in Operations : Len(L.op[o].events) \in Nat
  BY StateOf DEF LedgerOK
<1>2. B \in [Operations -> Nat] /\ \A o \in Operations : B[o] = Len(L.op[o].events)
  BY <1>1
<1> HIDE DEF B
<1>3. \A o \in Operations : L.eventAcks[o] <= B[o] /\ B[o] <= Len(L.op[o].events)
  BY <1>1, <1>2 DEF LedgerOK, RowOK
<1> QED BY <1>2, <1>3, AcknowledgementKeeps

\* The coordinator has every operation the worker has, and what the worker saw confirmed.
Welcome ==
  \A o \in Operations :
    (Exists(worker, o) => Exists(coord, o)) /\ worker.eventAcks[o] <= Len(coord.op[o].events)

\* Storing a frame of the worker brings the coordinator no further than the worker is, loses
\* nothing, and when nothing was refused every event of the frame is there.  Nothing is
\* refused when the coordinator has the operations and what was confirmed.
LEMMA StoringKeeps ==
  ASSUME LedgerOK(coord), LedgerOK(worker), Follows(coord), NEW frame \in FramesToCoordinator
  PROVE  LET S == CoordinatorStores(frame) IN
         /\ LedgerOK(S.ledger) /\ Follows(S.ledger) /\ Advances(coord, S.ledger)
         /\ S.ok => \A e \in frame.events : e.sequence <= Len(S.ledger.op[e.operation].events)
         /\ Welcome => S.ok
<1> DEFINE bare == [frame EXCEPT !.events = {}, !.replies = {}]
           acked == Acknowledged(coord, bare)
           so == [ledger |-> acked, ok |-> TRUE]
           E == frame.events
           V == {h \in Handled : Between(acked, h.ledger)}
           Has(h, K) == /\ h.ok => \A e \in K : e.sequence <= Len(h.ledger.op[e.operation].events)
                        /\ Welcome => h.ok
           P == [K \in SUBSET E |-> {h \in V : Has(h, K)}]
           Next1(h, e) == Applied(h, EventRefused(h.ledger, e), WithEvent(h.ledger, e))
           stored == EventsHandled(so, E)
<1>1. /\ IsFiniteSet(E) /\ E \in SUBSET PendingEvents(worker)
      /\ \A e \in E : e.operation \in Operations /\ e.sequence \in Nat
      /\ \A w \in frame.replies : w.session \in Sessions /\ w.reply \in worker.replies[w.session]
                                  /\ w.reply \in ReplyKinds
      /\ bare.events = {} /\ bare.replies = {}
  BY FrameToCoordinator
<1>2. LedgerOK(acked) /\ SameHistory(coord, acked)
  BY <1>1, PlainReceiptsKeep
<1>3. Follows(acked) /\ Advances(coord, acked)
  BY <1>2, FollowsOn
<1>4. CoordinatorStores(frame) =
        [stored EXCEPT !.ledger.replies =
           [s \in Sessions |-> @[s] \cup {w.reply : w \in {v \in frame.replies : v.session = s}}]]
  BY DEF CoordinatorStores
<1> HIDE DEF bare, acked
<1>5. acked \in Ledgers /\ \A o \in Operations : Len(acked.op[o].events) \in Nat
  BY <1>2, StateOf DEF LedgerOK
<1>6. so \in V
  <2>1. Between(acked, acked)
    BY <1>2, <1>3, <1>5 DEF Between, Follows, Begins
  <2> QED BY <2>1, <1>5 DEF Handled
<1>7. ASSUME NEW h \in V, NEW e \in E
      PROVE  /\ Next1(h, e) \in V
             /\ \A K \in SUBSET E : InTurn(E, K, e) /\ Has(h, K) => Has(Next1(h, e), K \cup {e})
  <2>1. h \in Handled /\ Between(acked, h.ledger) /\ e \in PendingEvents(worker)
    BY <1>1
  <2>2. CASE h.ok /\ ~EventRefused(h.ledger, e)
    <3> DEFINE N == WithEvent(h.ledger, e)
    <3>1. /\ Between(acked, N) /\ e.sequence <= Len(N.op[e.operation].events)
          /\ \A o \in Operations : Len(h.ledger.op[o].events) <= Len(N.op[o].events)
      BY <2>1, <2>2, <1>5, EventBetween
    <3>2. Next1(h, e) = [ledger |-> N, ok |-> h.ok]
      BY <2>1, <2>2 DEF Applied, Handled
    <3> HIDE DEF N
    <3>3. N \in Ledgers /\ h.ledger \in Ledgers BY <3>1, <2>1 DEF Between, LedgerOK
    <3>4. Next1(h, e) \in V BY <3>1, <3>2, <3>3, <2>1 DEF Handled
    <3>5. \A o \in Operations : Len(h.ledger.op[o].events) \in Nat /\ Len(N.op[o].events) \in Nat
      BY <3>3, StateOf
    <3>6. ASSUME NEW K \in SUBSET E, InTurn(E, K, e), Has(h, K), NEW d \in K \cup {e}
          PROVE  d.sequence <= Len(N.op[d.operation].events)
      <4>1. CASE d = e BY <4>1, <3>1
      <4>2. CASE d # e
        <5>1. d.sequence <= Len(h.ledger.op[d.operation].events) /\ d.operation \in Operations /\ d.sequence \in Nat
          BY <4>2, <3>6, <2>2, <1>1
        <5>2. /\ Len(h.ledger.op[d.operation].events) <= Len(N.op[d.operation].events)
              /\ Len(h.ledger.op[d.operation].events) \in Nat /\ Len(N.op[d.operation].events) \in Nat
          BY <5>1, <3>1, <3>5
        <5> DEFINE m == Len(h.ledger.op[d.operation].events)
                   n == Len(N.op[d.operation].events)
        <5>3. m <= n /\ m \in Nat /\ n \in Nat /\ d.sequence <= m /\ d.sequence \in Nat
          BY <5>1, <5>2
        <5> HIDE DEF E, m, n
        <5>4. d.sequence <= n BY <5>3
        <5> QED BY <5>4 DEF n
      <4> QED BY <4>1, <4>2
    <3> HIDE DEF Next1, V
    <3> QED BY <3>2, <3>4, <3>6
  <2>3. CASE ~(h.ok /\ ~EventRefused(h.ledger, e))
    <3>1. Next1(h, e) = [ledger |-> h.ledger, ok |-> FALSE]
      BY <2>1, <2>3 DEF Applied, Handled
    <3>2. Next1(h, e) \in V BY <3>1, <2>1 DEF Handled
    <3>3. ASSUME NEW K \in SUBSET E, InTurn(E, K, e), Has(h, K), Welcome PROVE FALSE
      <4> DEFINE o == e.operation
                 c == Len(acked.op[o].events)
                 n == Len(h.ledger.op[o].events)
      <4>1. o \in Operations /\ e.sequence \in Nat /\ Exists(worker, o)
        BY <1>1, <2>1, EventOfWorker
      <4>2. Exists(h.ledger, o)
        BY <4>1, <3>3, <1>2, <2>1 DEF Welcome, SameHistory, Between, Exists
      <4>3. worker.eventAcks[o] <= c /\ c <= n /\ c \in Nat /\ n \in Nat /\ worker.eventAcks[o] \in Nat
        <5>1. worker.eventAcks[o] <= c BY <4>1, <3>3, <1>2 DEF Welcome, SameHistory
        <5>2. c <= n BY <4>1, <2>1 DEF Between, Begins
        <5>3. c \in Nat /\ n \in Nat BY <4>1, <1>5, <2>1, StateOf DEF Handled
        <5>4. worker.eventAcks[o] \in Nat BY <4>1 DEF LedgerOK, Ledgers
        <5> QED BY <5>1, <5>2, <5>3, <5>4
      <4>4. e.sequence - 1 > worker.eventAcks[o] => e.sequence - 1 <= n
        <5> SUFFICES ASSUME e.sequence - 1 > worker.eventAcks[o] PROVE e.sequence - 1 <= n
          OBVIOUS
        <5>1. PICK d \in E : d.operation = o /\ d.sequence = e.sequence - 1
          BY EventBefore
        <5>2. d.sequence < e.sequence BY <5>1, <4>1
        <5>3. d \in K BY <5>2, <3>3 DEF InTurn
        <5>4. h.ok BY <3>3
        <5> QED BY <5>1, <5>3, <5>4, <3>3
      <4> HIDE DEF c, n
      <4>5. e.sequence <= n + 1
        BY <4>1, <4>3, <4>4
      <4>6. ~EventRefused(h.ledger, e)
        BY <2>1, <4>2, <4>5, EventAccepted DEF n
      <4>7. h.ok BY <3>3
      <4> QED BY <2>3, <4>6, <4>7
    <3> HIDE DEF Next1, V
    <3>4. \A K \in SUBSET E : InTurn(E, K, e) /\ Has(h, K) => ~Welcome BY <3>3
    <3> QED BY <3>1, <3>2, <3>4
  <2> QED BY <2>2, <2>3
<1>8. stored \in V \cap P[E]
  <2>1. so \in P[{}] BY <1>6
  <2>2. \A h \in V, e \in E : Next1(h, e) \in V BY <1>7
  <2>3. \A K \in SUBSET E, h \in V, e \in E :
          InTurn(E, K, e) /\ h \in P[K] => Next1(h, e) \in P[K \cup {e}]
    <3> SUFFICES ASSUME NEW K \in SUBSET E, NEW h \in V, NEW e \in E, InTurn(E, K, e), h \in P[K]
                 PROVE  Next1(h, e) \in P[K \cup {e}]
      OBVIOUS
    <3>1. K \cup {e} \in SUBSET E OBVIOUS
    <3> HIDE DEF Has, Next1, V
    <3>2. Has(h, K) OBVIOUS
    <3> QED BY <3>1, <3>2, <1>7
  <2>4. \A e \in E : e.sequence \in Nat BY <1>1
  <2> HIDE DEF P, V
  <2>5. \A h \in V, e \in E : Applied(h, EventRefused(h.ledger, e), WithEvent(h.ledger, e)) \in V
    BY <2>2
  <2>6. \A K \in SUBSET E, h \in V, e \in E :
          InTurn(E, K, e) /\ h \in P[K] => Applied(h, EventRefused(h.ledger, e), WithEvent(h.ledger, e)) \in P[K \cup {e}]
    BY <2>3
  <2> HIDE DEF Next1, so, E, stored
  <2>7. EventsHandled(so, E) \in V \cap P[E]
    BY <1>1, <1>6, <2>1, <2>4, <2>5, <2>6, EventsInTurn
  <2> QED BY <2>7 DEF stored
<1> HIDE DEF so, stored
<1>9. /\ stored \in Handled /\ Between(acked, stored.ledger)
      /\ stored.ok => \A e \in E : e.sequence <= Len(stored.ledger.op[e.operation].events)
      /\ Welcome => stored.ok
  BY <1>8
<1> DEFINE L == stored.ledger
           rep == [s \in Sessions |-> L.replies[s] \cup {w.reply : w \in {v \in frame.replies : v.session = s}}]
           M == [L EXCEPT !.replies = rep]
<1>10. CoordinatorStores(frame) = [ledger |-> M, ok |-> stored.ok]
  BY <1>4, <1>9 DEF Handled
<1>11. L \in Ledgers /\ LedgerOK(L) /\ L.replies = acked.replies /\ L.commands = acked.commands
  BY <1>9 DEF Handled, Between
<1>12. \A s \in Sessions : rep[s] \in SUBSET ReplyKinds /\ (rep[s] = L.replies[s] \/ rep[s] \subseteq L.replies[s] \cup worker.replies[s])
  <2>1. \A s \in Sessions : L.replies[s] \in SUBSET ReplyKinds BY <1>11 DEF Ledgers
  <2> HIDE DEF L
  <2> QED BY <1>1, <2>1
<1>13. rep \in [Sessions -> SUBSET ReplyKinds]
  BY <1>12
<1> HIDE DEF L, rep
<1>14. /\ M \in Ledgers /\ M.op = L.op /\ M.sess = L.sess /\ M.eventAcks = L.eventAcks /\ M.replies = rep
      /\ M.commands = L.commands
  BY <1>11, <1>13 DEF Ledgers
<1> HIDE DEF M
<1>15. LedgerOK(M)
  <2>1. \A o \in Operations : Terminal(M, o) <=> Terminal(L, o) BY <1>14, SameState
  <2> QED BY <2>1, <1>11, <1>14 DEF LedgerOK, RowOK
<1>16. Follows(M)
  <2>1. ASSUME NEW s \in Sessions, Settled(M, s) PROVE Settled(worker, s)
    <3>1. "closed" \in L.replies[s] => Settled(worker, s)
      BY <1>3, <1>11 DEF Follows, Settled
    <3> QED BY <2>1, <3>1, <1>12, <1>14 DEF Settled
  <2>2. \A o \in Operations : Begins(M.op[o].events, worker.op[o].events)
    BY <1>9, <1>14 DEF Between, L
  <2> QED BY <2>1, <2>2 DEF Follows
<1>17. Advances(coord, M)
  <2>1. ASSUME NEW o \in Operations
        PROVE  /\ Begins(coord.op[o].events, M.op[o].events)
               /\ Terminal(coord, o) => M.op[o].events = coord.op[o].events
               /\ Exists(coord, o) => Exists(M, o)
    <3>1. acked.op[o].events = coord.op[o].events /\ acked.op[o].session = coord.op[o].session
      BY <1>2 DEF SameHistory
    <3>2. Terminal(coord, o) => Terminal(acked, o) BY <3>1, SameState
    <3>3. M.op[o] = L.op[o] BY <1>14
    <3> QED BY <3>1, <3>2, <3>3, <1>9 DEF Between, Exists, L
  <2>2. Requested(coord) => Requested(M)
    <3>1. Requested(coord) => Requested(acked) BY <1>3 DEF Advances
    <3>2. \A o \in Operations : Exists(acked, o) => Exists(M, o)
      BY <1>9, <1>14 DEF Between, Exists, L
    <3>3. M.commands = acked.commands BY <1>11, <1>14
    <3> QED BY <3>1, <3>2, <3>3, <1>5, RequestedOn
  <2> QED BY <2>1, <2>2 DEF Advances
<1>18. stored.ok => \A e \in E : e.sequence <= Len(M.op[e.operation].events)
  BY <1>9, <1>14 DEF L
<1>19. Welcome => stored.ok
  BY <1>9
<1> QED BY <1>10, <1>15, <1>16, <1>17, <1>18, <1>19

-----------------------------------------------------------------------------
(* The inductive invariant.                                                 *)

\* Receipts the coordinator has not sent: it has what they confirm.
ReceiptsOK ==
  /\ \A e \in ackQueue.events :
       /\ e.operation \in Operations /\ e.sequence \in Nat
       /\ e.sequence <= Len(coord.op[e.operation].events)
  /\ \A w \in ackQueue.replies : w.reply \in ReplyKinds

\* The two ledgers: good, and the coordinator's between what the worker knows it has and
\* what the worker has; the coordinator has every operation it requested, and the worker no
\* other.
LedgersOK ==
  /\ LedgerOK(coord) /\ LedgerOK(worker) /\ SettledOK(worker)
  /\ Follows(coord) /\ Requested(coord)
  /\ \A o \in Operations : Exists(worker, o) => Exists(coord, o)
  /\ \A o \in Operations : worker.eventAcks[o] <= Len(coord.op[o].events)

\* The types of an execution.
Phases == Producing \cup {None, "following"}
Runs == [phase : Phases, session : Sessions \cup {None}]

\* The types of what the processes keep.
ProcessTypes ==
  /\ server \in Workers \cup {None}
  /\ run \in [Workers -> [Operations -> Runs]]
  /\ claim \in [Operations -> Workers \cup {None, "over"}]
  /\ borrow \in [Workers -> [Sessions -> {None, "opening", "ready", "failed"}]]
  /\ effects \in [Operations -> Nat]

\* An execution belongs to an operation the worker has, in a session it was told of, and a
\* borrowed workspace to a session.
Attached ==
  /\ \A p \in Workers, o \in Operations :
       run[p][o].phase # None =>
         Exists(worker, o) /\ run[p][o].session \in Sessions /\ worker.sess[run[p][o].session] # None
  /\ \A p \in Workers, s \in Sessions : borrow[p][s] # None => worker.sess[s] # None

\* One process at most goes through the phases of an operation, ever.
Exclusive ==
  /\ \A o \in Operations, p, q \in Workers :
       run[p][o].phase \in Producing /\ run[q][o].phase \in Producing => p = q
  /\ \A o \in Operations : claim[o] = None => effects[o] = 0 /\ \A p \in Workers : run[p][o].phase \notin Producing

\* The effect comes after the start and before the outcome "completed".
Counted(L, n, o) ==
  /\ n <= 1
  /\ n > 0 => L.op[o].events # <<>> /\ L.op[o].events[1] = "started"
  /\ \A i \in 1 .. Len(L.op[o].events) : L.op[o].events[i] = "completed" => n = 1

\* An effect belongs to the one execution that was started.
Effects ==
  /\ \A o \in Operations : Counted(worker, effects[o], o)
  /\ \A p \in Workers, o \in Operations :
       /\ run[p][o].phase \in Producing \ {"invoked"} => effects[o] = 0
       /\ run[p][o].phase = "invoked" => effects[o] = 1
       /\ run[p][o].phase = "invoking" =>
            worker.op[o].events # <<>> /\ worker.op[o].events[1] = "started"

\* What callers were told is what the coordinator's ledger keeps.
Told ==
  \A o \in Operations : \A k \in got[o] :
    k \in {"expired", "uncertain"} \/ (Terminal(coord, o) /\ k = State(coord, o))

\* All of it together.
RemoteInvariant ==
  /\ LedgersOK /\ ReceiptsOK /\ ProcessTypes /\ Attached /\ Exclusive /\ Effects /\ Told

\* The initial ledgers are empty and nothing runs.
LEMMA RemoteInitially == Init => RemoteInvariant
<1> SUFFICES ASSUME Init PROVE RemoteInvariant
  OBVIOUS
<1> DEFINE L == EmptyLedger
<1>1. L \in Ledgers
  <2>1. NoOperation \in Rows BY DEF NoOperation, Rows
  <2> QED BY <2>1 DEF EmptyLedger, Ledgers
<1>2. /\ \A o \in Operations : L.op[o] = NoOperation /\ L.eventAcks[o] = 0
      /\ \A s \in Sessions : L.sess[s] = None /\ L.replies[s] = {}
      /\ L.commands = <<>>
  BY DEF EmptyLedger
<1>3. NoOperation.session = None /\ NoOperation.events = <<>> /\ NoOperation.retired = FALSE /\ Len(<<>>) = 0
  BY DEF NoOperation
<1> HIDE DEF L
<1>4. LedgerOK(L) /\ SettledOK(L)
  <2>1. \A i : i \notin 1 .. 0 - 1 OBVIOUS
  <2>4. Legal(<<>>) BY DEF Legal
  <2>2. \A o \in Operations : RowOK(L, o) BY <1>2, <1>3, <2>1, <2>4 DEF RowOK
  <2>3. \A s \in Sessions : ~Settled(L, s) BY <1>2 DEF Settled
  <2> QED BY <1>1, <1>2, <2>2, <2>3 DEF LedgerOK, SettledOK
<1>5. coord = L /\ worker = L
  BY DEF Init, L
<1>6. LedgersOK
  <2>1. \A o \in Operations : Begins(L.op[o].events, L.op[o].events) /\ L.eventAcks[o] <= Len(L.op[o].events)
    BY <1>2, <1>3 DEF Begins
  <2>2. Requested(L) BY <1>2 DEF Requested
  <2> QED BY <1>4, <1>5, <2>1, <2>2 DEF LedgersOK, Follows
<1>7. ReceiptsOK
  BY DEF Init, ReceiptsOK, NoReceipts
<1>8. ProcessTypes
  <2>1. NotRunning \in Runs BY DEF NotRunning, Runs, Phases
  <2> QED BY <2>1 DEF Init, ProcessTypes
<1>9. \A p \in Workers, o \in Operations : run[p][o].phase = None /\ None \notin Producing
  BY DEF Init, NotRunning, None, Producing
<1>10. Attached /\ Exclusive
  BY <1>9 DEF Init, Attached, Exclusive
<1>11. Effects
  <2>1. \A i : i \notin 1 .. 0 OBVIOUS
  <2>2. \A o \in Operations : Counted(worker, effects[o], o) BY <1>2, <1>3, <1>5, <2>1 DEF Init, Counted
  <2>3. None # "invoked" /\ None # "invoking" BY DEF None
  <2> QED BY <2>2, <2>3, <1>9 DEF Effects
<1>12. Told
  BY DEF Init, Told
<1> QED BY <1>6, <1>7, <1>8, <1>10, <1>11, <1>12 DEF RemoteInvariant

\* A step of the coordinator: its ledger goes on, and not beyond the worker's.
LEMMA CoordinatorStep ==
  ASSUME RemoteInvariant, worker' = worker, LedgerOK(coord'), Follows(coord'), Advances(coord, coord'),
         ackQueue' \in {ackQueue, NoReceipts}, got' = got
  PROVE  LedgersOK' /\ ReceiptsOK' /\ Told'
<1>1. /\ LedgersOK /\ ReceiptsOK /\ Told
      /\ coord \in Ledgers /\ coord' \in Ledgers /\ worker \in Ledgers
  BY DEF RemoteInvariant, LedgersOK, LedgerOK
<1>2. \A o \in Operations : /\ Len(coord.op[o].events) \in Nat /\ Len(coord'.op[o].events) \in Nat
                            /\ worker.eventAcks[o] \in Nat
                            /\ Len(coord.op[o].events) <= Len(coord'.op[o].events)
  BY <1>1, StateOf DEF Advances, Begins, Ledgers
<1>3. LedgersOK'
  <2>1. \A o \in Operations : worker.eventAcks[o] <= Len(coord'.op[o].events)
    <3> TAKE o \in Operations
    <3>1. worker.eventAcks[o] <= Len(coord.op[o].events) BY <1>1 DEF LedgersOK
    <3> QED BY <3>1, <1>2
  <2>2. Requested(coord') /\ \A o \in Operations : Exists(worker, o) => Exists(coord', o)
    BY <1>1 DEF LedgersOK, Advances
  <2> QED BY <1>1, <2>1, <2>2 DEF LedgersOK, Follows
<1>4. ReceiptsOK'
  <2>1. CASE ackQueue' = ackQueue
    <3>1. ASSUME NEW e \in ackQueue.events
          PROVE  e.operation \in Operations /\ e.sequence \in Nat /\ e.sequence <= Len(coord'.op[e.operation].events)
      <4> DEFINE m == Len(coord.op[e.operation].events)
                 n == Len(coord'.op[e.operation].events)
      <4>1. e.operation \in Operations /\ e.sequence \in Nat /\ e.sequence <= m BY <1>1 DEF ReceiptsOK
      <4>2. m \in Nat /\ n \in Nat /\ m <= n BY <4>1, <1>2
      <4> HIDE DEF m, n
      <4>3. e.sequence <= n BY <4>1, <4>2
      <4> QED BY <4>1, <4>3 DEF n
    <3> QED BY <2>1, <3>1, <1>1 DEF ReceiptsOK
  <2>2. CASE ackQueue' = NoReceipts
    BY <2>2 DEF ReceiptsOK, NoReceipts
  <2> QED BY <2>1, <2>2
<1>5. Told'
  <2> SUFFICES ASSUME NEW o \in Operations, NEW k \in got[o], k \notin {"expired", "uncertain"}
               PROVE  Terminal(coord', o) /\ k = State(coord', o)
    BY DEF Told
  <2>1. Terminal(coord, o) /\ k = State(coord, o) BY <1>1 DEF Told
  <2>2. coord'.op[o].events = coord.op[o].events BY <2>1 DEF Advances
  <2> QED BY <2>1, <2>2, SameState
<1> QED BY <1>3, <1>4, <1>5

\* A step of the worker: its ledger grows, and it knows of no operation and of no confirmed
\* event that the coordinator has not.
LEMMA WorkerStep ==
  ASSUME RemoteInvariant, NEW but, Grows(worker, worker', but), coord' = coord,
         \A o \in Operations : worker'.eventAcks[o] <= Len(coord.op[o].events),
         \A o \in Operations : Exists(worker', o) => Exists(coord, o),
         ackQueue' \in {ackQueue, NoReceipts}, got' = got
  PROVE  LedgersOK' /\ ReceiptsOK' /\ Told'
<1>1. /\ LedgersOK /\ ReceiptsOK /\ Told
      /\ coord \in Ledgers /\ LedgerOK(worker') /\ SettledOK(worker') /\ worker \in Ledgers /\ worker' \in Ledgers
  BY DEF RemoteInvariant, LedgersOK, LedgerOK, Grows
<1>2. ASSUME NEW o \in Operations PROVE Begins(coord.op[o].events, worker'.op[o].events)
  <2>1. Len(coord.op[o].events) \in Nat /\ Len(worker.op[o].events) \in Nat /\ Len(worker'.op[o].events) \in Nat
    BY <1>1, StateOf
  <2>2. Begins(coord.op[o].events, worker.op[o].events) /\ Begins(worker.op[o].events, worker'.op[o].events)
    BY <1>1 DEF LedgersOK, Follows, Grows
  <2> QED BY <2>1, <2>2, BeginsOn
<1>3. LedgersOK'
  BY <1>1, <1>2 DEF LedgersOK, Follows, Grows
<1>4. ReceiptsOK'
  BY <1>1 DEF ReceiptsOK, NoReceipts
<1>5. Told'
  BY <1>1 DEF Told
<1> QED BY <1>3, <1>4, <1>5

\* The count of effects fits a history that grows by no outcome "completed".
LEMMA StaysCounted ==
  ASSUME NEW L, LedgerOK(L), NEW but, NEW M, Grows(L, M, but), NEW n \in Nat, NEW o \in Operations,
         Counted(L, n, o), o \in but => n = 1
  PROVE  Counted(M, n, o)
<1> DEFINE q == L.op[o].events
           r == M.op[o].events
<1>1. /\ Len(q) \in Nat /\ Len(r) \in Nat /\ Begins(q, r)
      /\ (q # <<>> => Len(q) > 0) /\ (r = <<>> => Len(r) = 0)
      /\ o \notin but => \A i \in 1 .. Len(r) : r[i] = "completed" => i <= Len(q)
      /\ n <= 1 /\ (n > 0 => q # <<>> /\ q[1] = "started")
      /\ \A i \in 1 .. Len(q) : q[i] = "completed" => n = 1
  <2>1. L \in Ledgers /\ M \in Ledgers BY DEF Grows, LedgerOK
  <2>2. r = <<>> => Len(r) = 0 OBVIOUS
  <2> QED BY <2>1, <2>2, StateOf DEF Grows, Counted
<1> HIDE DEF q, r
<1>2. n > 0 => r # <<>> /\ r[1] = "started"
  <2>1. n > 0 => 1 \in 1 .. Len(q) BY <1>1
  <2> QED BY <2>1, <1>1 DEF Begins
<1>3. ASSUME NEW i \in 1 .. Len(r), r[i] = "completed" PROVE n = 1
  <2>1. o \notin but => i \in 1 .. Len(q) BY <1>1, <1>3
  <2> QED BY <2>1, <1>1, <1>3 DEF Begins
<1> QED BY <1>1, <1>2, <1>3 DEF Counted, r

\* A step in which processes only end, borrow and give back, and nothing new is claimed.
LEMMA ProcessesEnd ==
  ASSUME RemoteInvariant, NEW but, Grows(worker, worker', but), \A o \in but : effects[o] = 1,
         server' \in Workers \cup {None}, effects' = effects,
         run' \in [Workers -> [Operations -> Runs]],
         \A p \in Workers, o \in Operations : run'[p][o] = run[p][o] \/ run'[p][o] = NotRunning,
         claim' \in [Operations -> Workers \cup {None, "over"}],
         \A o \in Operations : claim'[o] = None => claim[o] = None,
         borrow' \in [Workers -> [Sessions -> {None, "opening", "ready", "failed"}]],
         \A p \in Workers, s \in Sessions :
           borrow'[p][s] = None \/ borrow[p][s] # None \/ worker.sess[s] # None
  PROVE  ProcessTypes' /\ Attached' /\ Exclusive' /\ Effects'
<1>1. LedgerOK(worker) /\ ProcessTypes /\ Attached /\ Exclusive /\ Effects
  BY DEF RemoteInvariant, LedgersOK
<1>2. \A p \in Workers, o \in Operations :
        \/ run'[p][o] = run[p][o]
        \/ run'[p][o].phase = None /\ None \notin Producing
  BY DEF NotRunning, None, Producing
<1>3. \A o \in Operations : Exists(worker, o) => Exists(worker', o)
  BY DEF Grows
<1>4. \A s \in Sessions : worker.sess[s] # None => worker'.sess[s] # None
  BY DEF Grows
<1>5. ProcessTypes'
  BY <1>1 DEF ProcessTypes
<1>6. Attached'
  <2>1. ASSUME NEW p \in Workers, NEW o \in Operations, run'[p][o].phase # None
        PROVE  Exists(worker', o) /\ run'[p][o].session \in Sessions /\ worker'.sess[run'[p][o].session] # None
    BY <2>1, <1>1, <1>2, <1>3, <1>4 DEF Attached
  <2>2. \A p \in Workers, s \in Sessions : borrow'[p][s] # None => worker'.sess[s] # None
    BY <1>1, <1>4 DEF Attached
  <2> QED BY <2>1, <2>2 DEF Attached, Exists
<1>7. Exclusive'
  <2>1. \A p \in Workers, o \in Operations : run'[p][o].phase \in Producing => run[p][o].phase \in Producing
    BY <1>2
  <2>2. \A o \in Operations, p, q \in Workers :
          run'[p][o].phase \in Producing /\ run'[q][o].phase \in Producing => p = q
    BY <2>1, <1>1 DEF Exclusive
  <2>3. \A o \in Operations : claim'[o] = None =>
          effects[o] = 0 /\ \A p \in Workers : run'[p][o].phase \notin Producing
    BY <2>1, <1>1 DEF Exclusive
  <2> QED BY <2>2, <2>3 DEF Exclusive
<1>8. Effects'
  <2>1. \A o \in Operations : Counted(worker', effects[o], o)
    <3> TAKE o \in Operations
    <3>1. effects[o] \in Nat /\ Counted(worker, effects[o], o) BY <1>1 DEF ProcessTypes, Effects
    <3> QED BY <3>1, <1>1, StaysCounted
  <2>2. ASSUME NEW p \in Workers, NEW o \in Operations
        PROVE  /\ run'[p][o].phase \in Producing \ {"invoked"} => effects[o] = 0
               /\ run'[p][o].phase = "invoked" => effects[o] = 1
               /\ run'[p][o].phase = "invoking" => worker'.op[o].events # <<>> /\ worker'.op[o].events[1] = "started"
    <3>1. run'[p][o].phase \in Producing => run'[p][o] = run[p][o] BY <1>2
    <3>2. "invoked" \in Producing /\ "invoking" \in Producing BY DEF Producing
    <3>3. run[p][o].phase = "invoking" => worker.op[o].events # <<>> /\ worker.op[o].events[1] = "started"
      BY <1>1 DEF Effects
    <3>4. worker.op[o].events # <<>> => worker'.op[o].events # <<>> /\ worker'.op[o].events[1] = worker.op[o].events[1]
      <4> DEFINE q == worker.op[o].events
                 r == worker'.op[o].events
      <4>1. Len(q) \in Nat /\ (q # <<>> => Len(q) > 0) /\ Begins(q, r) /\ (r = <<>> => Len(r) = 0)
        <5>1. r = <<>> => Len(r) = 0 OBVIOUS
        <5> QED BY <5>1, <1>1, StateOf DEF Grows, LedgerOK
      <4> HIDE DEF q, r
      <4>2. q # <<>> => 1 \in 1 .. Len(q) BY <4>1
      <4>3. q # <<>> => r # <<>> /\ r[1] = q[1] BY <4>1, <4>2 DEF Begins
      <4> QED BY <4>3 DEF q, r
    <3> QED BY <3>1, <3>2, <3>3, <3>4, <1>1 DEF Effects
  <2> QED BY <2>1, <2>2 DEF Effects, Counted
<1> QED BY <1>5, <1>6, <1>7, <1>8

\* A step in which an execution goes on to another phase of its operation.
LEMMA ProcessGoesOn ==
  ASSUME RemoteInvariant, NEW p \in Workers, NEW o \in Operations, NEW to \in Producing,
         run[p][o].phase \in Producing, Phase(p, o, to),
         Grows(worker, worker', {}), server' = server, claim' = claim,
         borrow' \in [Workers -> [Sessions -> {None, "opening", "ready", "failed"}]],
         \A q \in Workers, s \in Sessions : borrow'[q][s] = None \/ borrow[q][s] # None \/ worker.sess[s] # None,
         to # "invoked" => effects' = effects /\ effects[o] = 0,
         to = "invoked" => run[p][o].phase = "invoking" /\ effects' = [effects EXCEPT ![o] = @ + 1],
         to = "invoking" => worker'.op[o].events # <<>> /\ worker'.op[o].events[1] = "started"
  PROVE  ProcessTypes' /\ Attached' /\ Exclusive' /\ Effects'
<1>1. LedgerOK(worker) /\ ProcessTypes /\ Attached /\ Exclusive /\ Effects
  BY DEF RemoteInvariant, LedgersOK
<1>2. /\ run' \in [Workers -> [Operations -> Runs]]
      /\ run'[p][o].phase = to /\ run'[p][o].session = run[p][o].session
      /\ \A q \in Workers, x \in Operations : q # p \/ x # o => run'[q][x] = run[q][x]
  <2>1. run' = [run EXCEPT ![p] = [run[p] EXCEPT ![o] = [run[p][o] EXCEPT !.phase = to]]] BY DEF Phase
  <2>2. run \in [Workers -> [Operations -> Runs]] /\ run[p] \in [Operations -> Runs] /\ run[p][o] \in Runs
    BY <1>1 DEF ProcessTypes
  <2> DEFINE r == [run[p][o] EXCEPT !.phase = to]
  <2>3. r \in Runs /\ r.phase = to /\ r.session = run[p][o].session
    BY <2>2 DEF Runs, Phases
  <2> HIDE DEF r
  <2>4. run' = [run EXCEPT ![p] = [run[p] EXCEPT ![o] = r]] BY <2>1 DEF r
  <2>5. run'[p] = [run[p] EXCEPT ![o] = r] /\ \A q \in Workers : q # p => run'[q] = run[q] BY <2>2, <2>4
  <2>6. run'[p][o] = r /\ \A x \in Operations : x # o => run'[p][x] = run[p][x] BY <2>2, <2>5
  <2>7. [run[p] EXCEPT ![o] = r] \in [Operations -> Runs] BY <2>2, <2>3
  <2>8. run' \in [Workers -> [Operations -> Runs]] BY <2>2, <2>4, <2>7
  <2> QED BY <2>3, <2>5, <2>6, <2>8
<1>3. /\ effects' \in [Operations -> Nat]
      /\ effects'[o] = IF to = "invoked" THEN 1 ELSE 0
      /\ \A x \in Operations : x # o => effects'[x] = effects[x]
      /\ effects[o] = 0
  <2>1. effects \in [Operations -> Nat] BY <1>1 DEF ProcessTypes
  <2>2. effects[o] = 0 BY <1>1 DEF Effects, Producing
  <2> QED BY <2>1, <2>2
<1>4. \A x \in Operations : Exists(worker, x) => Exists(worker', x)
  BY DEF Grows
<1>5. \A s \in Sessions : worker.sess[s] # None => worker'.sess[s] # None
  BY DEF Grows
<1>6. ProcessTypes'
  BY <1>1, <1>2, <1>3 DEF ProcessTypes
<1>7. \A q \in Workers, x \in Operations :
        /\ run'[q][x].session = run[q][x].session
        /\ run'[q][x].phase # None => run[q][x].phase # None
        /\ run'[q][x].phase \in Producing => run[q][x].phase \in Producing
  <2>1. None \notin Producing BY DEF None, Producing
  <2> QED BY <1>2, <2>1
<1>8. Attached'
  <2>1. ASSUME NEW q \in Workers, NEW x \in Operations, run'[q][x].phase # None
        PROVE  Exists(worker', x) /\ run'[q][x].session \in Sessions /\ worker'.sess[run'[q][x].session] # None
    BY <2>1, <1>1, <1>4, <1>5, <1>7 DEF Attached
  <2>2. \A q \in Workers, s \in Sessions : borrow'[q][s] # None => worker'.sess[s] # None
    BY <1>1, <1>5 DEF Attached
  <2> QED BY <2>1, <2>2 DEF Attached, Exists
<1>9. Exclusive'
  <2>1. \A x \in Operations, q, r \in Workers :
          run'[q][x].phase \in Producing /\ run'[r][x].phase \in Producing => q = r
    BY <1>1, <1>7 DEF Exclusive
  <2>2. claim[o] # None
    BY <1>1 DEF Exclusive
  <2>3. ASSUME NEW x \in Operations, claim'[x] = None
        PROVE  effects'[x] = 0 /\ \A q \in Workers : run'[q][x].phase \notin Producing
    <3>1. x # o /\ claim[x] = None BY <2>2, <2>3
    <3> QED BY <3>1, <1>1, <1>3, <1>7 DEF Exclusive
  <2> QED BY <2>1, <2>3 DEF Exclusive
<1>10. ASSUME NEW x \in Operations, worker.op[x].events # <<>>
       PROVE  worker'.op[x].events # <<>> /\ worker'.op[x].events[1] = worker.op[x].events[1]
  <2> DEFINE q == worker.op[x].events
             r == worker'.op[x].events
  <2>1. Len(q) \in Nat /\ Len(q) > 0 /\ Begins(q, r) /\ (r = <<>> => Len(r) = 0)
    <3>1. r = <<>> => Len(r) = 0 OBVIOUS
    <3> QED BY <3>1, <1>1, <1>10, StateOf DEF Grows, LedgerOK
  <2> HIDE DEF q, r
  <2>2. 1 \in 1 .. Len(q) BY <2>1
  <2>3. r # <<>> /\ r[1] = q[1] BY <2>1, <2>2 DEF Begins
  <2> QED BY <2>3 DEF q, r
<1>11. Effects'
  <2>1. ASSUME NEW x \in Operations PROVE Counted(worker', effects'[x], x)
    <3>1. effects[x] \in Nat /\ Counted(worker, effects[x], x) BY <1>1 DEF ProcessTypes, Effects
    <3>2. Counted(worker', effects[x], x) BY <3>1, <1>1, StaysCounted
    <3>3. CASE x = o /\ to = "invoked"
      <4>1. worker'.op[o].events # <<>> /\ worker'.op[o].events[1] = "started"
        BY <3>3, <1>1, <1>10 DEF Effects
      <4> QED BY <3>2, <3>3, <4>1, <1>3 DEF Counted
    <3>4. CASE ~(x = o /\ to = "invoked")
      BY <3>2, <3>4, <1>3
    <3> QED BY <3>3, <3>4
  <2>2. ASSUME NEW q \in Workers, NEW x \in Operations
        PROVE  /\ run'[q][x].phase \in Producing \ {"invoked"} => effects'[x] = 0
               /\ run'[q][x].phase = "invoked" => effects'[x] = 1
               /\ run'[q][x].phase = "invoking" => worker'.op[x].events # <<>> /\ worker'.op[x].events[1] = "started"
    <3>1. CASE x # o
      <4>1. run'[q][x] = run[q][x] /\ effects'[x] = effects[x] BY <3>1, <1>2, <1>3
      <4>2. /\ run[q][x].phase \in Producing \ {"invoked"} => effects[x] = 0
            /\ run[q][x].phase = "invoked" => effects[x] = 1
            /\ run[q][x].phase = "invoking" => worker.op[x].events # <<>> /\ worker.op[x].events[1] = "started"
        BY <1>1 DEF Effects
      <4> QED BY <4>1, <4>2, <1>10
    <3>2. CASE x = o
      <4>1. "invoked" \in Producing /\ "invoking" \in Producing BY DEF Producing
      <4>2. run'[q][o].phase \in Producing => q = p BY <1>1, <1>7 DEF Exclusive
      <4> QED BY <3>2, <4>1, <4>2, <1>2, <1>3
    <3> QED BY <3>1, <3>2
  <2> QED BY <2>1, <2>2 DEF Effects, Counted
<1> QED BY <1>6, <1>8, <1>9, <1>11

\* Steps that the processes take no part in.
LEMMA ProcessesStay ==
  ASSUME RemoteInvariant, Grows(worker, worker', {}), server' \in Workers \cup {None},
         UNCHANGED <<run, claim, borrow, effects>>
  PROVE  ProcessTypes' /\ Attached' /\ Exclusive' /\ Effects'
<1>1. ProcessTypes /\ Attached
  BY DEF RemoteInvariant
<1> QED BY <1>1, ProcessesEnd DEF ProcessTypes, Attached

\* A transaction of the coordinator alone.
LEMMA CoordinatorKeeps ==
  ASSUME RemoteInvariant, worker' = worker, LedgerOK(coord'), Follows(coord'), Advances(coord, coord'),
         ackQueue' \in {ackQueue, NoReceipts}, got' = got, server' \in Workers \cup {None},
         UNCHANGED <<run, claim, borrow, effects>>
  PROVE  RemoteInvariant'
<1>1. LedgersOK' /\ ReceiptsOK' /\ Told'
  BY CoordinatorStep
<1>2. Grows(worker, worker', {})
  BY StaysGrown DEF RemoteInvariant, LedgersOK
<1>3. ProcessTypes' /\ Attached' /\ Exclusive' /\ Effects'
  BY <1>2, ProcessesStay
<1> QED BY <1>1, <1>3 DEF RemoteInvariant

\* Steps after which both ledgers, and what callers were told, are as before.
LEMMA LedgersStay ==
  ASSUME RemoteInvariant, UNCHANGED <<coord, worker, got>>, ackQueue' \in {ackQueue, NoReceipts}
  PROVE  LedgersOK' /\ ReceiptsOK' /\ Told' /\ Grows(worker, worker', {})
<1>1. LedgersOK /\ ReceiptsOK /\ Told
  BY DEF RemoteInvariant
<1>2. LedgersOK'
  BY <1>1 DEF LedgersOK, Follows
<1>3. ReceiptsOK' /\ Told'
  BY <1>1 DEF ReceiptsOK, Told, NoReceipts
<1>4. Grows(worker, worker', {})
  BY <1>1, StaysGrown DEF LedgersOK
<1> QED BY <1>2, <1>3, <1>4

\* A command the coordinator saves.
LEMMA SaveKeeps ==
  ASSUME RemoteInvariant, NEW c \in Commands, Save(c)
  PROVE  LedgerOK(coord') /\ Follows(coord') /\ Advances(coord, coord')
<1>1. LedgerOK(coord) /\ Follows(coord) /\ ~CommandRefused(coord, c) /\ coord' = WithCommand(coord, c, TRUE)
  BY DEF RemoteInvariant, LedgersOK, Save
<1>2. /\ LedgerOK(coord') /\ Keeps(coord, coord') /\ coord'.replies = coord.replies
      /\ Requested(coord) => Requested(coord')
      /\ \A o \in Operations : coord'.op[o].events = coord.op[o].events
  BY <1>1, CommandKeeps
<1>3. \A o \in Operations : Len(coord.op[o].events) \in Nat
  BY <1>1, StateOf DEF LedgerOK
<1>4. \A s \in Sessions : Settled(coord', s) => Settled(worker, s)
  BY <1>1, <1>2 DEF Follows, Settled
<1>5. \A o \in Operations : Begins(coord'.op[o].events, worker.op[o].events)
  BY <1>1, <1>2 DEF Follows
<1>6. \A o \in Operations : Begins(coord.op[o].events, coord'.op[o].events)
  BY <1>2, <1>3 DEF Begins
<1>7. \A o \in Operations : Exists(coord, o) => Exists(coord', o)
  BY <1>2 DEF Keeps
<1>8. Follows(coord')
  BY <1>4, <1>5 DEF Follows
<1> QED BY <1>2, <1>6, <1>7, <1>8 DEF Advances

-----------------------------------------------------------------------------
(* Every action keeps the invariant.                                        *)

\* The coordinator's actions that save a command, store a chunk, revoke or stop.
LEMMA CallersKeep ==
  ASSUME RemoteInvariant,
         \/ \E s \in Sessions : OpenSession(s) \/ CloseSession(s)
         \/ \E o \in Operations, s \in Sessions : Invoke(o, s)
         \/ \E o \in Operations : Upload(o) \/ StopCall(o)
         \/ Revoke \/ SaveCloseIntent \/ StopTools \/ StartTools
  PROVE  RemoteInvariant'
<1>1. LedgerOK(coord) /\ Follows(coord) /\ ProcessTypes /\ server \in Workers \cup {None} /\ None \in Workers \cup {None}
  BY DEF RemoteInvariant, LedgersOK, ProcessTypes
<1>2. /\ \A s \in Sessions : Open(s) \in Commands /\ Close(s) \in Commands
      /\ \A o \in Operations : Cancel(o) \in Commands
      /\ \A o \in Operations, s \in Sessions : Dispatch(s, o) \in Commands
  BY DEF Open, Close, Cancel, Dispatch, Commands
<1>3. ASSUME UNCHANGED coord PROVE LedgerOK(coord') /\ Follows(coord') /\ Advances(coord, coord')
  <2>1. SameHistory(coord, coord) BY DEF SameHistory
  <2> QED BY <2>1, <1>1, <1>3, FollowsOn
<1>4. ASSUME NEW c \in Commands, Save(c) PROVE LedgerOK(coord') /\ Follows(coord') /\ Advances(coord, coord')
  BY <1>4, SaveKeeps
<1>5. CASE \E s \in Sessions : OpenSession(s) \/ CloseSession(s)
  <2>1. PICK s \in Sessions : OpenSession(s) \/ CloseSession(s) BY <1>5
  <2>2. \E c \in Commands : Save(c) BY <2>1, <1>2 DEF OpenSession, CloseSession
  <2>3. UNCHANGED <<worker, calling, delivery, working>> BY <2>1 DEF OpenSession, CloseSession
  <2> QED BY <2>2, <2>3, <1>1, <1>4, CoordinatorKeeps DEF calling, delivery, working
<1>6. CASE \E o \in Operations, s \in Sessions : Invoke(o, s)
  <2>1. PICK o \in Operations, s \in Sessions : Invoke(o, s) BY <1>6
  <2>2. UNCHANGED coord \/ \E c \in Commands : Save(c) BY <2>1, <1>2 DEF Invoke
  <2>3. UNCHANGED <<got, worker, delivery, working>> BY <2>1 DEF Invoke
  <2> QED BY <2>2, <2>3, <1>1, <1>3, <1>4, CoordinatorKeeps DEF delivery, working
<1>7. CASE \E o \in Operations : Upload(o)
  <2>1. PICK o \in Operations : Upload(o) BY <1>7
  <2>2. coord' = WithChunk(coord, o) /\ UNCHANGED <<got, worker, delivery, working>> BY <2>1 DEF Upload
  <2>3. LedgerOK(coord') /\ Follows(coord') /\ Advances(coord, coord')
    BY <2>2, <1>1, ChunkKeeps, FollowsOn
  <2> QED BY <2>2, <2>3, <1>1, CoordinatorKeeps DEF delivery, working
<1>8. CASE \E o \in Operations : StopCall(o)
  <2>1. PICK o \in Operations : StopCall(o) BY <1>8
  <2>2. UNCHANGED coord \/ \E c \in Commands : Save(c) BY <2>1, <1>2 DEF StopCall
  <2>3. UNCHANGED <<got, worker, delivery, working>> BY <2>1 DEF StopCall
  <2> QED BY <2>2, <2>3, <1>1, <1>3, <1>4, CoordinatorKeeps DEF delivery, working
<1>9. CASE Revoke
  <2>1. coord' = WithRevocation(coord) /\ UNCHANGED <<worker, calling, delivery, working>> BY <1>9 DEF Revoke
  <2>2. LedgerOK(coord') /\ Follows(coord') /\ Advances(coord, coord')
    BY <2>1, <1>1, RevocationKeeps, FollowsOn
  <2> QED BY <2>1, <2>2, <1>1, CoordinatorKeeps DEF calling, delivery, working
<1>10. CASE SaveCloseIntent
  <2>1. \E c \in Commands : Save(c) BY <1>10, <1>2 DEF SaveCloseIntent
  <2>2. UNCHANGED <<worker, calling, delivery, working>> BY <1>10 DEF SaveCloseIntent
  <2> QED BY <2>1, <2>2, <1>1, <1>4, CoordinatorKeeps DEF calling, delivery, working
<1>11. CASE StopTools
  <2>1. ackQueue' = NoReceipts /\ server' = None /\ UNCHANGED <<got, coord, worker, working>>
    BY <1>11 DEF StopTools
  <2> QED BY <2>1, <1>1, <1>3, CoordinatorKeeps DEF working
<1>12. CASE StartTools
  <2>1. UNCHANGED <<got, coord, worker, delivery, working>> BY <1>12 DEF StartTools
  <2> QED BY <2>1, <1>1, <1>3, CoordinatorKeeps DEF delivery, working
<1> QED BY <1>5, <1>6, <1>7, <1>8, <1>9, <1>10, <1>11, <1>12

\* A caller is told the outcome that is in the coordinator's ledger.
LEMMA ReturnKeeps ==
  ASSUME RemoteInvariant, NEW o \in Operations, Return(o)
  PROVE  RemoteInvariant'
<1>1. LedgersOK /\ ReceiptsOK /\ Told /\ UNCHANGED <<coord, worker, delivery, working>>
  BY DEF RemoteInvariant, Return
<1>2. Grows(worker, worker', {})
  BY <1>1, StaysGrown DEF LedgersOK
<1>3. ProcessTypes' /\ Attached' /\ Exclusive' /\ Effects'
  BY <1>1, <1>2, ProcessesStay DEF RemoteInvariant, ProcessTypes, delivery, working
<1>4. LedgersOK' /\ ReceiptsOK'
  BY <1>1 DEF LedgersOK, Follows, ReceiptsOK, delivery
<1>5. Told'
  <2> SUFFICES ASSUME NEW x \in Operations, NEW k \in got'[x], k \notin {"expired", "uncertain"}
               PROVE  Terminal(coord', x) /\ k = State(coord', x)
    BY DEF Told
  <2>1. CASE k \in got[x]
    BY <2>1, <1>1 DEF Told
  <2>2. CASE k \notin got[x]
    <3>1. got' = [got EXCEPT ![o] = @ \cup {IF ~Terminal(coord, o) THEN "uncertain"
                                       ELSE IF ResultAvailable(coord, o) THEN State(coord, o) ELSE "expired"}]
      BY DEF Return
    <3>2. x = o /\ o \in DOMAIN got BY <2>2, <3>1
    <3>3. k = IF ~Terminal(coord, o) THEN "uncertain"
              ELSE IF ResultAvailable(coord, o) THEN State(coord, o) ELSE "expired"
      BY <2>2, <3>1, <3>2
    <3>4. Terminal(coord, o) /\ k = State(coord, o) BY <3>3
    <3> QED BY <3>2, <3>4, <1>1
  <2> QED BY <2>1, <2>2
<1> QED BY <1>3, <1>4, <1>5 DEF RemoteInvariant

\* The commands at the head of a queue are commands.
LEMMA HeadOfQueue ==
  ASSUME NEW S, NEW q \in Seq(S)
  PROVE  First(q) \in Seq(S) /\ \A n \in 0 .. Len(First(q)) - 1 : SubSeq(First(q), 1, n) \in Seq(S)
<1> DEFINE m == IF Len(q) < FrameItems THEN Len(q) ELSE FrameItems
           f == First(q)
<1>1. FrameItems \in Nat /\ Len(q) \in Nat /\ m \in Nat /\ m <= Len(q)
  BY DeliveryAssumption
<1>2. f = SubSeq(q, 1, m)
  BY DEF First
<1> HIDE DEF f, m
<1>3. \A i \in 1 .. m : q[i] \in S
  BY <1>1, ElementIn
<1>4. f \in Seq(S) /\ Len(f) = m
  BY <1>1, <1>2, <1>3
<1>5. ASSUME NEW n \in 0 .. Len(f) - 1 PROVE SubSeq(f, 1, n) \in Seq(S)
  <2>1. n \in Nat /\ n <= Len(f) BY <1>1, <1>4
  <2>2. \A i \in 1 .. n : f[i] \in S BY <2>1, <1>4, ElementIn
  <2> QED BY <2>1, <2>2, <1>4
<1> QED BY <1>4, <1>5 DEF f

\* What the coordinator sends is what the worker's handler expects.
LEMMA FrameToWorker ==
  ASSUME RemoteInvariant, NEW B \in [Operations -> Nat], \A o \in Operations : B[o] = Len(coord.op[o].events),
         NEW frame \in FramesToWorker
  PROVE  /\ WorkerFrame(frame, B)
         /\ ~frame.revoked => \A n \in 0 .. Len(frame.commands) - 1 :
              WorkerFrame([frame EXCEPT !.commands = SubSeq(@, 1, n), !.chunks = {}], B)
<1>1. coord \in Ledgers /\ ReceiptsOK /\ Requested(coord)
  BY DEF RemoteInvariant, LedgersOK, LedgerOK
<1>2. CASE coord.revoked
  <2>1. frame = [revoked |-> TRUE] BY <1>2 DEF FramesToWorker
  <2> QED BY <2>1 DEF WorkerFrame
<1>3. CASE ~coord.revoked
  <2> DEFINE q == First(PendingCommands(coord))
  <2>1. PICK sent \in SomeOf(PendingChunks(coord)) :
          frame = [revoked |-> FALSE, receipts |-> ackQueue, commands |-> q, chunks |-> sent]
    BY <1>3 DEF FramesToWorker
  <2>2. q \in Seq(Requests) /\ \A n \in 0 .. Len(q) - 1 : SubSeq(q, 1, n) \in Seq(Requests)
    <3>1. ASSUME NEW i \in DOMAIN coord.commands PROVE coord.commands[i].command \in Requests
      <4>1. coord.commands[i].command \in Commands BY <1>1, CommandsOf
      <4> QED BY <4>1, <1>1 DEF Requests, Requested
    <3>2. PendingCommands(coord) \in Seq(Requests) BY <1>1, <3>1, PendingAreCommands
    <3> QED BY <3>2, HeadOfQueue
  <2>3. IsFiniteSet(sent) /\ IsFiniteSet({}) BY FS_EmptySet DEF SomeOf
  <2> HIDE DEF q
  <2>4. /\ \A e \in ackQueue.events :
             e.operation \in Operations /\ e.sequence \in Nat /\ e.sequence <= B[e.operation]
        /\ \A w \in ackQueue.replies : w.reply \in ReplyKinds
    BY <1>1 DEF ReceiptsOK
  <2>5. WorkerFrame(frame, B) BY <2>1, <2>2, <2>3, <2>4 DEF WorkerFrame
  <2>6. ASSUME NEW n \in 0 .. Len(frame.commands) - 1
        PROVE  WorkerFrame([frame EXCEPT !.commands = SubSeq(@, 1, n), !.chunks = {}], B)
    <3> DEFINE g == [frame EXCEPT !.commands = SubSeq(@, 1, n), !.chunks = {}]
    <3>1. g.revoked = frame.revoked /\ g.receipts = ackQueue /\ g.commands = SubSeq(q, 1, n) /\ g.chunks = {}
      BY <2>1
    <3>3. frame.revoked = FALSE BY <2>1
    <3> HIDE DEF g
    <3>2. SubSeq(q, 1, n) \in Seq(Requests) BY <2>1, <2>2
    <3>4. WorkerFrame(g, B) BY <3>1, <3>2, <3>3, <2>3, <2>4 DEF WorkerFrame
    <3> QED BY <3>4 DEF g
  <2> QED BY <2>5, <2>6
<1> QED BY <1>2, <1>3

\* A frame arrives at the worker, whole or in part.
LEMMA WorkerReceivesKeep == ASSUME RemoteInvariant, WorkerReceives PROVE RemoteInvariant'
<1> DEFINE B == [o \in Operations |-> Len(coord.op[o].events)]
<1>1. /\ LedgersOK /\ ProcessTypes /\ LedgerOK(worker) /\ SettledOK(worker) /\ coord \in Ledgers /\ worker \in Ledgers
      /\ server \in Workers \cup {None}
  BY DEF RemoteInvariant, LedgersOK, LedgerOK, ProcessTypes
<1>2. B \in [Operations -> Nat] /\ \A o \in Operations : B[o] = Len(coord.op[o].events)
  BY <1>1, StateOf
<1> HIDE DEF B
<1>3. \A o \in Operations : worker.eventAcks[o] <= B[o] /\ B[o] <= Len(worker.op[o].events)
  BY <1>1, <1>2 DEF LedgersOK, Follows, Begins
<1>4. AcceptsNew(server) \in BOOLEAN
  BY DEF AcceptsNew
<1>5. PICK frame \in FramesToWorker :
        \/ LET handled == WorkerHandles(frame, AcceptsNew(server)) IN
           /\ worker' = handled.ledger
           /\ IF handled.ok /\ ~frame.revoked THEN UNCHANGED server ELSE server' = None
           /\ UNCHANGED faults
        \/ /\ ~frame.revoked /\ Fault
           /\ \/ UNCHANGED worker
              \/ \E n \in 0 .. Len(frame.commands) - 1 :
                   worker' = WorkerHandles([frame EXCEPT !.commands = SubSeq(@, 1, n), !.chunks = {}],
                                           AcceptsNew(server)).ledger
           /\ server' = None
  BY DEF WorkerReceives
<1>6. /\ WorkerFrame(frame, B)
      /\ ~frame.revoked => \A n \in 0 .. Len(frame.commands) - 1 :
           WorkerFrame([frame EXCEPT !.commands = SubSeq(@, 1, n), !.chunks = {}], B)
  BY <1>2, FrameToWorker
<1>12. \A o \in Operations : Exists(worker, o) => Exists(coord, o)
  BY <1>1 DEF LedgersOK
<1>7. ASSUME NEW f, WorkerFrame(f, B), worker' = WorkerHandles(f, AcceptsNew(server)).ledger
      PROVE  /\ Grows(worker, worker', {})
             /\ \A o \in Operations : worker'.eventAcks[o] <= B[o] /\ (Exists(worker', o) => Exists(coord, o))
  BY <1>1, <1>2, <1>3, <1>4, <1>7, <1>12, WorkerHandlingGrows
<1>8. /\ Grows(worker, worker', {})
      /\ \A o \in Operations : worker'.eventAcks[o] <= B[o] /\ (Exists(worker', o) => Exists(coord, o))
  <2>1. CASE worker' = worker
    BY <2>1, <1>1, <1>3, <1>12, StaysGrown
  <2>2. CASE \E f : WorkerFrame(f, B) /\ worker' = WorkerHandles(f, AcceptsNew(server)).ledger
    BY <2>2, <1>7
  <2>3. worker' = worker \/ \E f : WorkerFrame(f, B) /\ worker' = WorkerHandles(f, AcceptsNew(server)).ledger
    BY <1>5, <1>6
  <2> QED BY <2>1, <2>2, <2>3
<1>9. /\ server' \in Workers \cup {None} /\ ackQueue' \in {ackQueue, NoReceipts}
      /\ UNCHANGED <<calling, coord, working>>
  BY <1>1, <1>5 DEF WorkerReceives
<1>10. LedgersOK' /\ ReceiptsOK' /\ Told'
  BY <1>2, <1>8, <1>9, WorkerStep DEF calling
<1>11. ProcessTypes' /\ Attached' /\ Exclusive' /\ Effects'
  BY <1>8, <1>9, ProcessesStay DEF working
<1> QED BY <1>10, <1>11 DEF RemoteInvariant

\* A frame arrives at the coordinator, and is confirmed or not.
LEMMA CoordinatorReceivesKeep == ASSUME RemoteInvariant, CoordinatorReceives PROVE RemoteInvariant'
<1>1. /\ LedgersOK /\ ReceiptsOK /\ ProcessTypes /\ LedgerOK(worker) /\ LedgerOK(coord) /\ Follows(coord)
      /\ server \in Workers \cup {None}
  BY DEF RemoteInvariant, LedgersOK, ProcessTypes
<1>2. PICK frame \in FramesToCoordinator :
        LET stored == CoordinatorStores(frame) IN
        \/ /\ stored.ok
           /\ coord' = Reclaimed(Acknowledged(stored.ledger, frame))
           /\ ackQueue' = frame
           /\ UNCHANGED <<server, faults>>
        \/ /\ (~stored.ok /\ UNCHANGED faults) \/ Fault
           /\ coord' = stored.ledger
           /\ server' = None
           /\ UNCHANGED ackQueue
  BY DEF CoordinatorReceives
<1> DEFINE S == CoordinatorStores(frame)
           N == S.ledger
<1>3. /\ LedgerOK(N) /\ Follows(N) /\ Advances(coord, N)
      /\ S.ok => \A e \in frame.events : e.sequence <= Len(N.op[e.operation].events)
  BY <1>1, StoringKeeps
<1>4. UNCHANGED <<calling, worker, working>>
  BY DEF CoordinatorReceives
<1>5. CASE coord' = N /\ server' = None /\ UNCHANGED ackQueue
  BY <1>3, <1>4, <1>5, CoordinatorKeeps DEF calling, working
<1>6. CASE /\ S.ok
           /\ coord' = Reclaimed(Acknowledged(N, frame)) /\ ackQueue' = frame /\ server' = server
  <2>1. /\ \A e \in frame.events : e.operation \in Operations /\ e.sequence \in Nat
        /\ \A w \in frame.replies : w.reply \in ReplyKinds
    BY <1>1, FrameToCoordinator
  <2>2. \A e \in frame.events : e.sequence <= Len(N.op[e.operation].events)
    BY <1>3, <1>6
  <2>3. coord' = Reclaimed(Acknowledged(N, frame))
    BY <1>6
  <2> HIDE DEF S, N
  <2> DEFINE A == Acknowledged(N, frame)
             B == [o \in Operations |-> Len(N.op[o].events)]
  <2>4. N \in Ledgers /\ \A o \in Operations : Len(N.op[o].events) \in Nat
    BY <1>3, StateOf DEF LedgerOK
  <2>5. B \in [Operations -> Nat] /\ \A o \in Operations : B[o] = Len(N.op[o].events)
    BY <2>4
  <2> HIDE DEF B
  <2>6. \A o \in Operations : N.eventAcks[o] <= B[o] /\ B[o] <= Len(N.op[o].events)
    BY <1>3, <2>4, <2>5 DEF LedgerOK, RowOK
  <2>7. \A e \in frame.events : e.operation \in Operations /\ e.sequence \in Nat /\ e.sequence <= B[e.operation]
    BY <2>1, <2>2, <2>5
  <2>8. LedgerOK(A) /\ SameHistory(N, A)
    BY <1>3, <2>1, <2>5, <2>6, <2>7, AcknowledgementKeeps
  <2> HIDE DEF A
  <2>9. LedgerOK(coord') /\ SameHistory(A, coord')
    BY <2>3, <2>8, ReclamationKeeps DEF A
  <2>10. Follows(A) /\ Follows(coord')
    BY <1>3, <2>8, <2>9, FollowsOn
  <2>11. \A o \in Operations : coord'.op[o].events = N.op[o].events /\ (Exists(N, o) => Exists(coord', o))
    BY <2>8, <2>9 DEF SameHistory, Exists
  <2>12. Advances(coord, coord')
    <3>1. Requested(N) => Requested(coord')
      <4>1. Requested(N) => Requested(A) BY <1>3, <2>8, FollowsOn DEF Advances
      <4>2. Requested(A) => Requested(coord') BY <2>8, <2>9, <2>10, FollowsOn DEF Advances
      <4> QED BY <4>1, <4>2
    <3> QED BY <1>3, <2>11, <3>1 DEF Advances
  <2>13. Grows(worker, worker', {})
    BY <1>1, <1>4, StaysGrown DEF LedgersOK
  <2>14. ProcessTypes' /\ Attached' /\ Exclusive' /\ Effects'
    BY <1>1, <1>4, <1>6, <2>13, ProcessesStay DEF working
  <2>15. ReceiptsOK'
    BY <1>6, <2>1, <2>2, <2>11 DEF ReceiptsOK
  <2>16. LedgersOK' /\ Told'
    <3>1. LedgersOK'
      <4>1. \A o \in Operations : worker.eventAcks[o] <= Len(coord'.op[o].events)
        <5> TAKE o \in Operations
        <5> DEFINE m == Len(coord.op[o].events)
                   n == Len(coord'.op[o].events)
        <5>1. worker.eventAcks[o] \in Nat /\ worker.eventAcks[o] <= m /\ m \in Nat /\ n \in Nat /\ m <= n
          BY <1>1, <2>9, <2>12, StateOf DEF LedgersOK, LedgerOK, Ledgers, Advances, Begins
        <5> HIDE DEF m, n
        <5>2. worker.eventAcks[o] <= n BY <5>1
        <5> QED BY <5>2 DEF n
      <4>2. Requested(coord') /\ \A o \in Operations : Exists(worker, o) => Exists(coord', o)
        BY <1>1, <2>12 DEF LedgersOK, Advances
      <4> QED BY <4>1, <4>2, <1>1, <1>4, <2>9, <2>10 DEF LedgersOK, Follows
    <3>2. Told'
      <4> SUFFICES ASSUME NEW o \in Operations, NEW k \in got[o], k \notin {"expired", "uncertain"}
                   PROVE  Terminal(coord', o) /\ k = State(coord', o)
        BY <1>4 DEF Told, calling
      <4>1. Terminal(coord, o) /\ k = State(coord, o) BY DEF RemoteInvariant, Told
      <4>2. coord'.op[o].events = coord.op[o].events BY <4>1, <2>12 DEF Advances
      <4> QED BY <4>1, <4>2, SameState
    <3> QED BY <3>1, <3>2
  <2> QED BY <2>14, <2>15, <2>16 DEF RemoteInvariant
<1> QED BY <1>2, <1>5, <1>6

\* Steps that change neither ledger: processes connect, begin to borrow, give back, close,
\* crash, come back, are maintained or suspected.
LEMMA ProcessesKeep ==
  ASSUME RemoteInvariant, UNCHANGED <<coord, worker, got>>, ackQueue' \in {ackQueue, NoReceipts},
         server' \in Workers \cup {None}, effects' = effects,
         run' \in [Workers -> [Operations -> Runs]],
         \A p \in Workers, o \in Operations : run'[p][o] = run[p][o] \/ run'[p][o] = NotRunning,
         claim' \in [Operations -> Workers \cup {None, "over"}],
         \A o \in Operations : claim'[o] = None => claim[o] = None,
         borrow' \in [Workers -> [Sessions -> {None, "opening", "ready", "failed"}]],
         \A p \in Workers, s \in Sessions :
           borrow'[p][s] = None \/ borrow[p][s] # None \/ worker.sess[s] # None
  PROVE  RemoteInvariant'
<1>1. LedgersOK' /\ ReceiptsOK' /\ Told' /\ Grows(worker, worker', {})
  BY LedgersStay
<1>2. ProcessTypes' /\ Attached' /\ Exclusive' /\ Effects'
  BY <1>1, ProcessesEnd
<1> QED BY <1>1, <1>2 DEF RemoteInvariant

\* The processes' own steps without an execution.
LEMMA SupervisorsKeep ==
  ASSUME RemoteInvariant, NEW p \in Workers,
         \/ Connect(p) \/ Disconnect \/ BeginMaintenance(p) \/ EnterMaintenance(p) \/ EndMaintenance(p)
         \/ BeginClose(p) \/ EndClose(p) \/ Crash(p) \/ Restart(p)
         \/ \E s \in Sessions : OpenBorrow(p, s) \/ CloseBorrow(p, s)
         \/ \E o \in Operations : SuspectProducer(o)
  PROVE  RemoteInvariant'
<1>1. /\ ProcessTypes /\ Attached
      /\ server \in Workers \cup {None} /\ None \in Workers \cup {None}
      /\ run \in [Workers -> [Operations -> Runs]] /\ claim \in [Operations -> Workers \cup {None, "over"}]
      /\ borrow \in [Workers -> [Sessions -> {None, "opening", "ready", "failed"}]]
      /\ \A q \in Workers : run[q] \in [Operations -> Runs] /\ borrow[q] \in [Sessions -> {None, "opening", "ready", "failed"}]
      /\ NotRunning \in Runs
  BY DEF RemoteInvariant, ProcessTypes, NotRunning, Runs, Phases
<1>2. \A q \in Workers, s \in Sessions : borrow[q][s] = None \/ borrow[q][s] # None
  OBVIOUS
<1>3. CASE Connect(p)
  BY <1>1, <1>3, ProcessesKeep DEF Connect, calling, working
<1>4. CASE Disconnect
  BY <1>1, <1>4, ProcessesKeep DEF Disconnect, calling, working
<1>5. CASE BeginMaintenance(p) \/ EnterMaintenance(p) \/ EndMaintenance(p) \/ Restart(p)
  BY <1>1, <1>5, ProcessesKeep
  DEF BeginMaintenance, EnterMaintenance, EndMaintenance, Restart, WorkerUnchanged, calling, delivery
<1>6. CASE BeginClose(p)
  <2>1. run' = [run EXCEPT ![p] = [o \in Operations |-> IF run[p][o].phase = "following" THEN NotRunning ELSE run[p][o]]]
    BY <1>6 DEF BeginClose
  <2>2. /\ run' \in [Workers -> [Operations -> Runs]]
        /\ \A q \in Workers, o \in Operations : run'[q][o] = run[q][o] \/ run'[q][o] = NotRunning
    BY <1>1, <2>1
  <2>3. /\ UNCHANGED <<ackQueue, calling, coord, worker, claim, borrow, effects>>
        /\ server' \in Workers \cup {None}
    BY <1>1, <1>6 DEF BeginClose
  <2> QED BY <1>1, <2>2, <2>3, ProcessesKeep DEF calling
<1>7. CASE EndClose(p)
  <2>1. borrow' = [borrow EXCEPT ![p] = [s \in Sessions |-> None]] /\ WorkerUnchanged
        /\ UNCHANGED <<worker, run, claim, effects, maintain>>
    BY <1>7 DEF EndClose
  <2>2. /\ borrow' \in [Workers -> [Sessions -> {None, "opening", "ready", "failed"}]]
        /\ \A q \in Workers, s \in Sessions : borrow'[q][s] = None \/ borrow[q][s] # None
    BY <1>1, <2>1
  <2> QED BY <1>1, <2>1, <2>2, ProcessesKeep DEF WorkerUnchanged, calling, delivery
<1>8. CASE Crash(p)
  <2>1. /\ borrow' = [borrow EXCEPT ![p] = [s \in Sessions |-> None]]
        /\ run' = [run EXCEPT ![p] = [o \in Operations |-> NotRunning]]
        /\ UNCHANGED <<ackQueue, calling, coord, worker, claim, effects>>
        /\ server' \in Workers \cup {None}
    BY <1>1, <1>8 DEF Crash
  <2>2. /\ borrow' \in [Workers -> [Sessions -> {None, "opening", "ready", "failed"}]]
        /\ \A q \in Workers, s \in Sessions : borrow'[q][s] = None \/ borrow[q][s] # None
    BY <1>1, <2>1
  <2>3. /\ run' \in [Workers -> [Operations -> Runs]]
        /\ \A q \in Workers, o \in Operations : run'[q][o] = run[q][o] \/ run'[q][o] = NotRunning
    BY <1>1, <2>1
  <2> QED BY <1>1, <2>1, <2>2, <2>3, ProcessesKeep DEF calling
<1>9. CASE \E s \in Sessions : OpenBorrow(p, s) \/ CloseBorrow(p, s)
  <2>1. PICK s \in Sessions : OpenBorrow(p, s) \/ CloseBorrow(p, s) BY <1>9
  <2>2. WorkerUnchanged /\ UNCHANGED <<worker, up, run, claim, effects, maintain>>
    BY <2>1 DEF OpenBorrow, CloseBorrow
  <2>3. PICK to \in {None, "opening"} :
          /\ borrow' = [borrow EXCEPT ![p] = [borrow[p] EXCEPT ![s] = to]]
          /\ to = None \/ worker.sess[s] # None
    <3>1. "open" # None BY DEF None
    <3> QED BY <2>1, <3>1 DEF OpenBorrow, CloseBorrow
  <2>4. [borrow[p] EXCEPT ![s] = to] \in [Sessions -> {None, "opening", "ready", "failed"}]
    BY <1>1, <2>3
  <2>5. /\ borrow' \in [Workers -> [Sessions -> {None, "opening", "ready", "failed"}]]
        /\ \A q \in Workers, t \in Sessions :
             borrow'[q][t] = None \/ borrow[q][t] # None \/ worker.sess[t] # None
    BY <1>1, <2>3, <2>4
  <2> QED BY <1>1, <2>2, <2>5, ProcessesKeep DEF WorkerUnchanged, calling, delivery
<1>10. CASE \E o \in Operations : SuspectProducer(o)
  <2>1. PICK o \in Operations : SuspectProducer(o) BY <1>10
  <2>2. claim' = [claim EXCEPT ![o] = "over"] /\ "over" # None
        /\ UNCHANGED <<calling, coord, worker, delivery, up, run, borrow, effects, maintain>>
    BY <2>1 DEF SuspectProducer, None
  <2>3. claim' \in [Operations -> Workers \cup {None, "over"}]
        /\ \A x \in Operations : claim'[x] = None => claim[x] = None
    BY <1>1, <2>2
  <2> QED BY <1>1, <2>2, <2>3, ProcessesKeep DEF calling, delivery
<1> QED BY <1>3, <1>4, <1>5, <1>6, <1>7, <1>8, <1>9, <1>10

\* What a worker's own transaction leaves of the ledgers' agreement.
LEMMA OwnTransaction ==
  ASSUME RemoteInvariant, NEW but, Grows(worker, worker', but), worker'.eventAcks = worker.eventAcks,
         SameRows(worker, worker'), WorkerUnchanged
  PROVE  LedgersOK' /\ ReceiptsOK' /\ Told' /\ server' \in Workers \cup {None}
<1>1. /\ \A o \in Operations : worker.eventAcks[o] <= Len(coord.op[o].events)
      /\ server \in Workers \cup {None}
  BY DEF RemoteInvariant, LedgersOK, ProcessTypes
<1>2. coord' = coord /\ got' = got /\ ackQueue' = ackQueue /\ server' = server
  BY DEF WorkerUnchanged, calling, delivery
<1>3. \A o \in Operations : Exists(worker', o) => Exists(coord, o)
  BY DEF RemoteInvariant, LedgersOK, SameRows
<1> QED BY <1>1, <1>2, <1>3, WorkerStep

\* An execution ends with an outcome; "completed" is the outcome of a tool that was invoked.
LEMMA EndKeeps ==
  ASSUME RemoteInvariant, NEW p \in Workers, NEW o \in Operations, NEW kind \in TerminalEvents,
         worker' = Finished(worker, o, kind), Done(p, o), run[p][o].phase # None,
         kind = "completed" => effects[o] = 1,
         claim' = claim \/ claim' = [claim EXCEPT ![o] = IF @ = p THEN "over" ELSE @],
         WorkerUnchanged, UNCHANGED <<borrow, effects>>
  PROVE  RemoteInvariant'
<1>1. /\ LedgerOK(worker) /\ SettledOK(worker) /\ Exists(worker, o) /\ Attached
      /\ run \in [Workers -> [Operations -> Runs]] /\ claim \in [Operations -> Workers \cup {None, "over"}]
      /\ borrow \in [Workers -> [Sessions -> {None, "opening", "ready", "failed"}]]
      /\ NotRunning \in Runs
  BY DEF RemoteInvariant, LedgersOK, Attached, ProcessTypes, NotRunning, Runs, Phases
<1>2. /\ Grows(worker, worker', But(o, kind)) /\ worker'.eventAcks = worker.eventAcks
      /\ SameRows(worker, worker')
  <2>1. kind = "completed" => worker.op[o].events # <<>>
    BY DEF RemoteInvariant, Effects, Counted
  <2> QED BY <1>1, <2>1, FinishedGrows
<1>3. LedgersOK' /\ ReceiptsOK' /\ Told' /\ server' \in Workers \cup {None}
  BY <1>2, OwnTransaction
<1>4. \A x \in But(o, kind) : effects[x] = 1
  BY DEF But
<1>5. /\ run' \in [Workers -> [Operations -> Runs]]
      /\ \A q \in Workers, x \in Operations : run'[q][x] = run[q][x] \/ run'[q][x] = NotRunning
  <2>1. run' = [run EXCEPT ![p] = [run[p] EXCEPT ![o] = NotRunning]] BY DEF Done
  <2>2. [run[p] EXCEPT ![o] = NotRunning] \in [Operations -> Runs] BY <1>1
  <2> QED BY <1>1, <2>1, <2>2
<1>6. /\ claim' \in [Operations -> Workers \cup {None, "over"}]
      /\ \A x \in Operations : claim'[x] = None => claim[x] = None
  <2>1. "over" # None BY DEF None
  <2> QED BY <1>1, <2>1
<1>7. ProcessTypes' /\ Attached' /\ Exclusive' /\ Effects'
  BY <1>1, <1>2, <1>3, <1>4, <1>5, <1>6, ProcessesEnd
<1> QED BY <1>3, <1>7 DEF RemoteInvariant

\* An execution goes on to another phase, or records its start.
LEMMA GoesOnKeeps ==
  ASSUME RemoteInvariant, NEW p \in Workers, NEW o \in Operations, NEW to \in Producing,
         run[p][o].phase \in Producing, Phase(p, o, to), WorkerUnchanged, claim' = claim,
         Grows(worker, worker', {}), worker'.eventAcks = worker.eventAcks, SameRows(worker, worker'),
         borrow' = borrow \/ (run[p][o].phase = "checking" /\
           borrow' = [borrow EXCEPT ![p] = [borrow[p] EXCEPT ![run[p][o].session] = "opening"]]),
         to # "invoked" => effects' = effects /\ run[p][o].phase # "invoked",
         to = "invoked" => run[p][o].phase = "invoking" /\ effects' = [effects EXCEPT ![o] = @ + 1],
         to = "invoking" => worker'.op[o].events # <<>> /\ worker'.op[o].events[1] = "started"
  PROVE  RemoteInvariant'
<1>1. /\ run[p][o].phase # None /\ None \notin Producing
      /\ Attached /\ Effects
      /\ borrow \in [Workers -> [Sessions -> {None, "opening", "ready", "failed"}]]
  BY DEF RemoteInvariant, ProcessTypes, None, Producing
<1>2. run[p][o].session \in Sessions /\ worker.sess[run[p][o].session] # None
  BY <1>1 DEF Attached
<1>3. LedgersOK' /\ ReceiptsOK' /\ Told' /\ server' = server
  BY OwnTransaction DEF WorkerUnchanged, delivery
<1>4. /\ borrow' \in [Workers -> [Sessions -> {None, "opening", "ready", "failed"}]]
      /\ \A q \in Workers, s \in Sessions : borrow'[q][s] = None \/ borrow[q][s] # None \/ worker.sess[s] # None
  <2>1. CASE borrow' = borrow
    BY <2>1, <1>1
  <2>2. CASE borrow' = [borrow EXCEPT ![p] = [borrow[p] EXCEPT ![run[p][o].session] = "opening"]]
    <3> DEFINE b == [borrow[p] EXCEPT ![run[p][o].session] = "opening"]
    <3>1. /\ b \in [Sessions -> {None, "opening", "ready", "failed"}]
          /\ \A s \in Sessions : s # run[p][o].session => b[s] = borrow[p][s]
      BY <1>1, <1>2
    <3> HIDE DEF b
    <3>2. borrow' = [borrow EXCEPT ![p] = b] BY <2>2 DEF b
    <3> QED BY <1>1, <1>2, <3>1, <3>2
  <2> QED BY <2>1, <2>2
<1>5. to # "invoked" => effects[o] = 0
  BY <1>1 DEF Effects
<1>6. ProcessTypes' /\ Attached' /\ Exclusive' /\ Effects'
  BY <1>3, <1>4, <1>5, ProcessGoesOn
<1> QED BY <1>3, <1>6 DEF RemoteInvariant

\* Replies to a session, and progress events of a tool.
LEMMA RepliesKeep ==
  ASSUME RemoteInvariant, NEW p \in Workers,
         \/ \E s \in Sessions : Prepared(p, s) \/ SettleSession(p, s)
         \/ \E o \in Operations : Output(p, o)
  PROVE  RemoteInvariant'
<1>1. /\ LedgerOK(worker) /\ SettledOK(worker) /\ Attached /\ worker \in Ledgers
      /\ run \in [Workers -> [Operations -> Runs]] /\ claim \in [Operations -> Workers \cup {None, "over"}]
      /\ borrow \in [Workers -> [Sessions -> {None, "opening", "ready", "failed"}]]
  BY DEF RemoteInvariant, LedgersOK, LedgerOK, ProcessTypes
<1>2. ASSUME Grows(worker, worker', {}), worker'.eventAcks = worker.eventAcks, SameRows(worker, worker'),
             WorkerUnchanged,
             UNCHANGED <<run, claim, effects>>,
             borrow' \in [Workers -> [Sessions -> {None, "opening", "ready", "failed"}]],
             \A q \in Workers, s \in Sessions : borrow'[q][s] = None \/ borrow[q][s] # None \/ worker.sess[s] # None
      PROVE  RemoteInvariant'
  <2>1. LedgersOK' /\ ReceiptsOK' /\ Told' /\ server' \in Workers \cup {None}
    BY <1>2, OwnTransaction
  <2>2. ProcessTypes' /\ Attached' /\ Exclusive' /\ Effects'
    BY <1>1, <1>2, <2>1, ProcessesEnd
  <2> QED BY <2>1, <2>2 DEF RemoteInvariant
<1>3. CASE \E s \in Sessions : Prepared(p, s)
  <2>1. PICK s \in Sessions : Prepared(p, s) BY <1>3
  <2>2. borrow[p][s] # None /\ worker.sess[s] # None
    <3>1. borrow[p][s] = "opening" BY <2>1 DEF Prepared
    <3>2. "opening" # None BY DEF None
    <3> QED BY <3>1, <3>2, <1>1 DEF Attached
  <2>3. worker' = worker \/ \E kind \in {"ready", "error"} : worker' = WithReply(worker, s, kind)
    BY <2>1 DEF Prepared
  <2>4. Grows(worker, worker', {}) /\ worker'.eventAcks = worker.eventAcks /\ SameRows(worker, worker')
    <3>1. CASE worker' = worker BY <3>1, <1>1, StaysGrown DEF SameRows
    <3>2. ASSUME NEW kind \in {"ready", "error"}, worker' = WithReply(worker, s, kind)
          PROVE  Grows(worker, worker', {}) /\ worker'.eventAcks = worker.eventAcks /\ SameRows(worker, worker')
      <4>1. kind \in ReplyKinds /\ kind # "closed" BY DEF ReplyKinds
      <4> QED BY <4>1, <3>2, <2>2, <1>1, ReplyGrows
    <3> QED BY <3>1, <3>2, <2>3
  <2>5. PICK to \in {"ready", "failed"} : borrow' = [borrow EXCEPT ![p] = [borrow[p] EXCEPT ![s] = to]]
    BY <2>1 DEF Prepared
  <2>6. /\ borrow' \in [Workers -> [Sessions -> {None, "opening", "ready", "failed"}]]
        /\ \A q \in Workers, t \in Sessions : borrow'[q][t] = None \/ borrow[q][t] # None \/ worker.sess[t] # None
    <3>1. [borrow[p] EXCEPT ![s] = to] \in [Sessions -> {None, "opening", "ready", "failed"}] BY <1>1
    <3> QED BY <3>1, <1>1, <2>2, <2>5
  <2>7. WorkerUnchanged /\ UNCHANGED <<run, claim, effects>> BY <2>1 DEF Prepared
  <2> QED BY <1>2, <2>4, <2>6, <2>7
<1>4. CASE \E s \in Sessions : SettleSession(p, s)
  <2>1. PICK s \in Sessions : SettleSession(p, s) BY <1>4
  <2>2. /\ worker' = WithReply(worker, s, "closed") /\ WorkerUnchanged /\ UNCHANGED working
        /\ worker.sess[s] = "closed" /\ \A o \in Operations : worker.op[o].session = s => Terminal(worker, o)
    BY <2>1 DEF SettleSession, MaySettle
  <2>3. "closed" \in ReplyKinds /\ worker.sess[s] # None BY <2>2 DEF ReplyKinds, None
  <2>4. Grows(worker, worker', {}) /\ worker'.eventAcks = worker.eventAcks /\ SameRows(worker, worker')
    BY <2>2, <2>3, <1>1, ReplyGrows
  <2> QED BY <1>1, <1>2, <2>2, <2>4 DEF working, Attached
<1>5. CASE \E o \in Operations : Output(p, o)
  <2>1. PICK o \in Operations : Output(p, o) BY <1>5
  <2>2. /\ worker' = Recorded(worker, o, "output") /\ WorkerUnchanged /\ UNCHANGED working
        /\ run[p][o].phase = "invoked" /\ MayFollow(worker, o, "output")
    BY <2>1 DEF Output
  <2>3. Exists(worker, o)
    <3>1. "invoked" # None BY DEF None
    <3> QED BY <3>1, <2>2, <1>1 DEF Attached
  <2>4. ~Terminal(worker, o)
    <3>1. State(worker, o) = "pending" \/ State(worker, o) = "started" BY <2>2 DEF MayFollow
    <3> QED BY <3>1 DEF Terminal, TerminalEvents
  <2>5. "output" \in Kinds /\ But(o, "output") = {} BY DEF Kinds, But
  <2>8. worker.op[o].events # <<>> /\ "output" # "started"
    <3>1. effects[o] = 1 /\ Counted(worker, effects[o], o) BY <2>2 DEF RemoteInvariant, Effects
    <3> QED BY <3>1 DEF Counted
  <2>6. /\ Grows(worker, worker', But(o, "output")) /\ worker'.eventAcks = worker.eventAcks
        /\ SameRows(worker, worker')
    BY <2>2, <2>3, <2>4, <2>5, <2>8, <1>1, RecordedGrows
  <2>7. Grows(worker, worker', {})
    BY <2>5, <2>6
  <2> QED BY <1>1, <1>2, <2>2, <2>6, <2>7 DEF working, Attached
<1> QED BY <1>3, <1>4, <1>5

\* A process takes an operation up, as its one producer or to follow it.
LEMMA ScheduleKeeps ==
  ASSUME RemoteInvariant, NEW p \in Workers, NEW o \in Operations, Schedule(p, o)
  PROVE  RemoteInvariant'
<1>1. /\ LedgerOK(worker) /\ ProcessTypes /\ Attached /\ Exclusive /\ Effects /\ worker \in Ledgers
      /\ run \in [Workers -> [Operations -> Runs]] /\ claim \in [Operations -> Workers \cup {None, "over"}]
  BY DEF RemoteInvariant, LedgersOK, LedgerOK, ProcessTypes
<1>2. /\ WorkerUnchanged /\ UNCHANGED <<worker, up, borrow, effects, maintain>>
      /\ Exists(worker, o)
      /\ claim' = [claim EXCEPT ![o] = IF claim[o] = None THEN p ELSE claim[o]]
  BY DEF Schedule, Claims
<1>3. LedgersOK' /\ ReceiptsOK' /\ Told'
  BY <1>2, LedgersStay DEF WorkerUnchanged, calling, delivery
<1> DEFINE phase == IF claim[o] = None THEN "checking" ELSE "following"
           s == worker.op[o].session
<1>4. s \in Sessions /\ worker.sess[s] # None
  <2>1. RowOK(worker, o) /\ s # None /\ s \in Sessions \cup {None}
    BY <1>1, <1>2 DEF LedgerOK, Exists, Ledgers, Rows
  <2> QED BY <2>1 DEF RowOK
<1>5. phase \in Phases /\ phase # "invoking" /\ phase # "invoked" /\ (phase \in Producing => claim[o] = None)
  BY DEF Phases, Producing
<1> HIDE DEF s
<1>6. /\ run' \in [Workers -> [Operations -> Runs]]
      /\ run'[p][o] = [phase |-> phase, session |-> s]
      /\ \A q \in Workers, x \in Operations : q # p \/ x # o => run'[q][x] = run[q][x]
  <2> DEFINE r == [phase |-> phase, session |-> s]
  <2>1. run' = [run EXCEPT ![p] = [run[p] EXCEPT ![o] = r]] BY DEF Schedule, Claims, s
  <2>2. r \in Runs BY <1>4, <1>5 DEF Runs
  <2> HIDE DEF r
  <2>3. run[p] \in [Operations -> Runs] BY <1>1
  <2>4. [run[p] EXCEPT ![o] = r] \in [Operations -> Runs] BY <2>2, <2>3
  <2>5. run'[p] = [run[p] EXCEPT ![o] = r] /\ \A q \in Workers : q # p => run'[q] = run[q] BY <1>1, <2>1
  <2>6. run' \in [Workers -> [Operations -> Runs]] BY <1>1, <2>1, <2>4
  <2>7. run'[p][o] = r /\ \A x \in Operations : x # o => run'[p][x] = run[p][x] BY <2>3, <2>5
  <2> QED BY <2>5, <2>6, <2>7 DEF r
<1>7. run'[p][o].phase = phase /\ run'[p][o].session = s
  BY <1>6
<1> HIDE DEF phase
<1>8. ProcessTypes'
  BY <1>1, <1>2, <1>6 DEF ProcessTypes, WorkerUnchanged, delivery
<1>9. Attached'
  <2>1. ASSUME NEW q \in Workers, NEW x \in Operations, run'[q][x].phase # None
        PROVE  Exists(worker, x) /\ run'[q][x].session \in Sessions /\ worker.sess[run'[q][x].session] # None
    BY <2>1, <1>1, <1>2, <1>4, <1>6, <1>7 DEF Attached
  <2> QED BY <2>1, <1>1, <1>2 DEF Attached, Exists
<1>10. Exclusive'
  <2>1. ASSUME NEW x \in Operations, NEW q \in Workers, NEW r \in Workers,
               run'[q][x].phase \in Producing, run'[r][x].phase \in Producing
        PROVE  q = r
    <3>1. CASE x = o /\ (q = p \/ r = p)
      <4>1. claim[o] = None BY <3>1, <2>1, <1>5, <1>7
      <4>2. \A t \in Workers : run[t][o].phase \notin Producing BY <4>1, <1>1 DEF Exclusive
      <4> QED BY <4>2, <3>1, <2>1, <1>6
    <3>2. CASE ~(x = o /\ (q = p \/ r = p))
      <4>1. run'[q][x] = run[q][x] /\ run'[r][x] = run[r][x] BY <3>2, <1>6
      <4> QED BY <4>1, <2>1, <1>1 DEF Exclusive
    <3> QED BY <3>1, <3>2
  <2>2. ASSUME NEW x \in Operations, claim'[x] = None
        PROVE  effects[x] = 0 /\ \A q \in Workers : run'[q][x].phase \notin Producing
    <3>1. x # o /\ claim[x] = None
      <4>1. p # None BY DeliveryAssumption
      <4> QED BY <4>1, <1>1, <1>2, <2>2
    <3> QED BY <3>1, <1>1, <1>6 DEF Exclusive
  <2> QED BY <2>1, <2>2, <1>2 DEF Exclusive
<1>11. Effects'
  <2>1. ASSUME NEW q \in Workers, NEW x \in Operations
        PROVE  /\ run'[q][x].phase \in Producing \ {"invoked"} => effects[x] = 0
               /\ run'[q][x].phase = "invoked" => effects[x] = 1
               /\ run'[q][x].phase = "invoking" => worker.op[x].events # <<>> /\ worker.op[x].events[1] = "started"
    <3>1. CASE x = o /\ q = p
      <4>1. phase \in Producing => effects[o] = 0 BY <1>1, <1>5 DEF Exclusive
      <4> QED BY <3>1, <4>1, <1>5, <1>7
    <3>2. CASE ~(x = o /\ q = p)
      <4>1. run'[q][x] = run[q][x] BY <3>2, <1>6
      <4> QED BY <4>1, <1>1 DEF Effects
    <3> QED BY <3>1, <3>2
  <2>2. \A x \in Operations : Counted(worker, effects[x], x)
    BY <1>1 DEF Effects
  <2> QED BY <2>1, <2>2, <1>2 DEF Effects, Counted
<1> QED BY <1>3, <1>8, <1>9, <1>10, <1>11 DEF RemoteInvariant

\* The phases of an execution.
LEMMA ExecutionKeeps ==
  ASSUME RemoteInvariant, NEW p \in Workers, NEW o \in Operations, Execution(p, o)
  PROVE  RemoteInvariant'
<1>1. /\ LedgerOK(worker) /\ SettledOK(worker) /\ Attached /\ Effects /\ worker \in Ledgers
  BY DEF RemoteInvariant, LedgersOK, LedgerOK
<1>2. /\ {"checking", "borrowing", "starting", "invoking", "invoked"} \subseteq Producing
      /\ \A x \in Producing : x # None
      /\ None # "following"
      /\ {"completed", "failed", "cancelled", "uncertain"} \subseteq TerminalEvents
  BY DEF Producing, None, TerminalEvents
<1>3. Grows(worker, worker, {}) /\ SameRows(worker, worker)
  BY <1>1, StaysGrown DEF SameRows
<1>4. ASSUME NEW kind \in TerminalEvents, End(p, o, kind), run[p][o].phase # None,
             kind = "completed" => effects[o] = 1, WorkerUnchanged, UNCHANGED <<borrow, effects>>
      PROVE  RemoteInvariant'
  BY <1>4, EndKeeps DEF End
<1>5. CASE FollowEnds(p, o)
  <2>1. /\ worker' = Finished(worker, o, "uncertain") /\ Done(p, o) /\ WorkerUnchanged
        /\ UNCHANGED <<up, claim, borrow, effects, maintain>> /\ run[p][o].phase = "following"
    BY <1>5 DEF FollowEnds
  <2>2. "uncertain" \in TerminalEvents /\ "uncertain" # "completed" BY <1>2
  <2> QED BY <2>1, <2>2, <1>2, EndKeeps
<1>6. CASE Check(p, o)
  <2>1. run[p][o].phase = "checking" /\ WorkerUnchanged /\ UNCHANGED <<up, effects, maintain>>
    BY <1>6 DEF Check
  <2>2. CASE \E kind \in {"cancelled", "uncertain"} : End(p, o, kind) /\ UNCHANGED borrow
    BY <2>1, <2>2, <1>2, <1>4
  <2>3. CASE /\ Phase(p, o, "borrowing") /\ UNCHANGED <<worker, claim>>
             /\ borrow' = IF borrow[p][run[p][o].session] = None
                          THEN [borrow EXCEPT ![p][run[p][o].session] = "opening"] ELSE borrow
    <3>1. "borrowing" \in Producing /\ "checking" \in Producing BY <1>2
    <3> QED BY <2>1, <2>3, <3>1, <1>3, GoesOnKeeps
  <2> QED BY <1>6, <2>2, <2>3 DEF Check
<1>7. CASE Borrowed(p, o)
  <2>1. run[p][o].phase = "borrowing" /\ WorkerUnchanged /\ UNCHANGED <<up, borrow, effects, maintain>>
    BY <1>7 DEF Borrowed
  <2>2. CASE \E kind \in {"failed", "cancelled"} : End(p, o, kind)
    BY <2>1, <2>2, <1>2, <1>4
  <2>3. CASE Phase(p, o, "starting") /\ UNCHANGED <<worker, claim>>
    <3>1. "starting" \in Producing /\ "borrowing" \in Producing BY <1>2
    <3> QED BY <2>1, <2>3, <3>1, <1>3, GoesOnKeeps
  <2> QED BY <1>7, <2>2, <2>3 DEF Borrowed
<1>8. CASE Start(p, o)
  <2>1. run[p][o].phase = "starting" /\ WorkerUnchanged /\ UNCHANGED <<up, borrow, effects, maintain>>
    BY <1>8 DEF Start
  <2>2. CASE End(p, o, "failed")
    BY <2>1, <2>2, <1>2, <1>4
  <2>3. CASE MayFollow(worker, o, "started") /\ StartRecorded(p, o) /\ Phase(p, o, "invoking") /\ UNCHANGED claim
    <3>1. State(worker, o) = "pending" BY <2>3 DEF MayFollow
    <3>2. worker.op[o].events = <<>> /\ ~Terminal(worker, o)
      BY <3>1, <1>1, StateOf DEF Terminal, TerminalEvents
    <3>3. Exists(worker, o) BY <2>1, <1>1, <1>2 DEF Attached
    <3>4. "started" \in Kinds /\ "started" \in Opening /\ But(o, "started") = {} BY DEF Kinds, Opening, But
    <3>5. worker' = Recorded(worker, o, "started") BY <2>3 DEF StartRecorded
    <3>6. /\ Grows(worker, worker', But(o, "started")) /\ worker'.eventAcks = worker.eventAcks
          /\ SameRows(worker, worker')
          /\ worker'.op[o].events = Append(worker.op[o].events, "started")
      BY <3>2, <3>3, <3>4, <3>5, <1>1, RecordedGrows
    <3>7. worker'.op[o].events = <<"started">> BY <3>2, <3>6
    <3>8. worker'.op[o].events # <<>> /\ worker'.op[o].events[1] = "started" BY <3>7
    <3>9. Grows(worker, worker', {}) BY <3>4, <3>6
    <3>10. "starting" \in Producing /\ "invoking" \in Producing BY <1>2
    <3> QED BY <2>1, <2>3, <3>6, <3>8, <3>9, <3>10, GoesOnKeeps
  <2> QED BY <1>8, <2>2, <2>3 DEF Start
<1>9. CASE InvokeTool(p, o)
  <2>1. /\ run[p][o].phase = "invoking" /\ effects' = [effects EXCEPT ![o] = @ + 1] /\ Phase(p, o, "invoked")
        /\ WorkerUnchanged /\ UNCHANGED <<worker, up, claim, borrow, maintain>>
    BY <1>9 DEF InvokeTool
  <2>2. "invoking" \in Producing /\ "invoked" \in Producing BY <1>2
  <2> QED BY <2>1, <2>2, <1>3, GoesOnKeeps
<1>10. CASE ToolEnds(p, o)
  <2>1. PICK kind \in {"completed", "failed"} : End(p, o, kind) BY <1>10 DEF ToolEnds
  <2>2. run[p][o].phase = "invoked" /\ WorkerUnchanged /\ UNCHANGED <<up, borrow, effects, maintain>>
    BY <1>10 DEF ToolEnds
  <2>3. effects[o] = 1 BY <2>2, <1>1 DEF Effects
  <2> QED BY <2>1, <2>2, <2>3, <1>2, <1>4
<1>11. CASE StopExecution(p, o)
  <2>1. run[p][o].phase \in Producing /\ End(p, o, "cancelled") /\ WorkerUnchanged
        /\ UNCHANGED <<up, borrow, effects, maintain>>
    BY <1>11 DEF StopExecution
  <2> QED BY <2>1, <1>2, <1>4
<1> QED BY <1>5, <1>6, <1>7, <1>8, <1>9, <1>10, <1>11 DEF Execution

\* Every step keeps the invariant.
LEMMA RemoteStep == RemoteInvariant /\ [Next]_vars => RemoteInvariant'
<1> SUFFICES ASSUME RemoteInvariant, [Next]_vars PROVE RemoteInvariant'
  OBVIOUS
<1>1. CASE \/ \E s \in Sessions : OpenSession(s) \/ CloseSession(s)
           \/ \E o \in Operations, s \in Sessions : Invoke(o, s)
           \/ \E o \in Operations : Upload(o) \/ StopCall(o)
           \/ Revoke \/ SaveCloseIntent \/ StopTools \/ StartTools
  BY <1>1, CallersKeep
<1>2. CASE \E o \in Operations : Return(o)
  BY <1>2, ReturnKeeps
<1>3. CASE WorkerReceives
  BY <1>3, WorkerReceivesKeep
<1>4. CASE CoordinatorReceives
  BY <1>4, CoordinatorReceivesKeep
<1>5. CASE \E p \in Workers :
             \/ Connect(p) \/ Disconnect \/ BeginMaintenance(p) \/ EnterMaintenance(p) \/ EndMaintenance(p)
             \/ BeginClose(p) \/ EndClose(p) \/ Crash(p) \/ Restart(p)
             \/ \E s \in Sessions : OpenBorrow(p, s) \/ CloseBorrow(p, s)
             \/ \E o \in Operations : SuspectProducer(o)
  BY <1>5, SupervisorsKeep
<1>6. CASE \E p \in Workers : \/ \E s \in Sessions : Prepared(p, s) \/ SettleSession(p, s)
                              \/ \E o \in Operations : Output(p, o)
  BY <1>6, RepliesKeep
<1>7. CASE \E p \in Workers, o \in Operations : Schedule(p, o)
  BY <1>7, ScheduleKeeps
<1>8. CASE \E p \in Workers, o \in Operations : Execution(p, o)
  BY <1>8, ExecutionKeeps
<1>9. CASE Disconnect
  <2>1. server \in Workers BY <1>9 DEF Disconnect, RemoteInvariant, ProcessTypes
  <2> QED BY <1>9, <2>1, SupervisorsKeep
<1>10. CASE \E o \in Operations : SuspectProducer(o)
  <2>1. \E p : p \in Workers BY <1>10 DEF SuspectProducer
  <2> QED BY <1>10, <2>1, SupervisorsKeep
<1>11. CASE UNCHANGED vars
  <2>1. UNCHANGED <<coord, worker, calling, delivery, working, faults>> BY <1>11 DEF vars
  <2>2. LedgersOK' /\ ReceiptsOK' /\ Told' /\ Grows(worker, worker', {})
    BY <2>1, LedgersStay DEF calling, delivery
  <2>3. ProcessTypes' /\ Attached' /\ Exclusive' /\ Effects'
    BY <2>1, <2>2, ProcessesStay DEF delivery, working, RemoteInvariant, ProcessTypes
  <2> QED BY <2>2, <2>3 DEF RemoteInvariant
<1> HIDE DEF RemoteInvariant
<1>12. CASE Next
  BY <1>12, <1>1, <1>2, <1>3, <1>4, <1>5, <1>6, <1>7, <1>8, <1>9, <1>10 DEF Next
<1> QED BY <1>11, <1>12

\* In every reachable state: both ledgers are good, the coordinator's is between what the
\* worker knows it has and what the worker has, one process at most runs an operation, its
\* effect is counted by its history, and callers were told what the ledger keeps.
THEOREM RemoteInductive == Spec => []RemoteInvariant
<1>1. Init => RemoteInvariant
  BY RemoteInitially
<1>2. RemoteInvariant /\ [Next]_vars => RemoteInvariant'
  BY RemoteStep
<1> QED BY <1>1, <1>2, PTL DEF Spec

-----------------------------------------------------------------------------
(* What the runs check, for every value of the constants.                   *)

\* The coordinator's outcome is the worker's, at the same place of the history.
LEMMA OutcomesAgree ==
  ASSUME RemoteInvariant, NEW o \in Operations, Terminal(coord, o)
  PROVE  /\ Terminal(worker, o) /\ State(worker, o) = State(coord, o)
         /\ Len(worker.op[o].events) = Len(coord.op[o].events)
<1> DEFINE q == coord.op[o].events
           r == worker.op[o].events
<1>1. /\ coord \in Ledgers /\ worker \in Ledgers /\ Begins(q, r)
      /\ \A i \in 1 .. Len(r) - 1 : r[i] \notin TerminalEvents
  BY DEF RemoteInvariant, LedgersOK, LedgerOK, RowOK, Follows
<1>2. /\ Len(q) \in Nat /\ Len(r) \in Nat /\ Len(q) > 0 /\ q[Len(q)] \in TerminalEvents
      /\ State(coord, o) = q[Len(q)] /\ (r = <<>> => Len(r) = 0)
  <2>1. r = <<>> => Len(r) = 0 OBVIOUS
  <2> QED BY <2>1, <1>1, StateOf
<1>3. Terminal(worker, o) <=> r # <<>> /\ r[Len(r)] \in TerminalEvents
  BY <1>1, StateOf
<1>4. Terminal(worker, o) => State(worker, o) = r[Len(r)]
  BY <1>1, StateOf
<1> HIDE DEF q, r
<1>5. Len(q) \in 1 .. Len(q) /\ r[Len(q)] = q[Len(q)] /\ Len(q) <= Len(r)
  BY <1>1, <1>2 DEF Begins
<1>6. Len(q) = Len(r)
  <2>1. ~(Len(q) \in 1 .. Len(r) - 1) BY <1>1, <1>2, <1>5
  <2> QED BY <2>1, <1>2, <1>5
<1>7. r # <<>>
  BY <1>2, <1>6
<1> QED BY <1>2, <1>3, <1>4, <1>5, <1>6, <1>7 DEF q, r

\* A tool is invoked at most once, never without a recorded start, and callers are told the
\* outcome of exactly that: through crashes, repeated calls and frames, moves between
\* sessions and processes that were given up while they still ran (worker.py _execute, _run).
THEOREM EffectIsExactAlways == Spec => []EffectIsExact
<1>1. RemoteInvariant => EffectIsExact
  <2> SUFFICES ASSUME RemoteInvariant PROVE EffectIsExact
    OBVIOUS
  <2>1. \A o \in Operations : Counted(worker, effects[o], o) /\ effects[o] \in Nat
    BY DEF RemoteInvariant, Effects, ProcessTypes
  <2>2. EffectOnce
    BY <2>1 DEF EffectOnce, Counted
  <2>3. worker \in Ledgers /\ \A o \in Operations : Len(worker.op[o].events) \in Nat
                           /\ (worker.op[o].events # <<>> => Len(worker.op[o].events) > 0)
    BY StateOf DEF RemoteInvariant, LedgersOK, LedgerOK
  <2>4. NoEffectWithoutStart
    BY <2>1, <2>3 DEF NoEffectWithoutStart, Counted
  <2>5. ASSUME NEW o \in Operations, "completed" \in got[o]
        PROVE  State(worker, o) = "completed" /\ effects[o] = 1
    <3>1. Terminal(coord, o) /\ "completed" = State(coord, o)
      BY <2>5 DEF RemoteInvariant, Told
    <3>2. Terminal(worker, o) /\ State(worker, o) = "completed"
      BY <3>1, OutcomesAgree
    <3>3. worker.op[o].events # <<>> /\ worker.op[o].events[Len(worker.op[o].events)] = "completed"
      BY <2>3, <3>2, StateOf
    <3>4. Len(worker.op[o].events) \in 1 .. Len(worker.op[o].events)
      BY <2>3, <3>3
    <3> QED BY <2>1, <3>2, <3>3, <3>4 DEF Counted
  <2>6. ASSUME NEW o \in Operations PROVE Cardinality(got[o] \ {"expired", "uncertain"}) <= 1
    <3> DEFINE G == got[o] \ {"expired", "uncertain"}
    <3>1. \A k \in G : k = State(coord, o)
      BY DEF RemoteInvariant, Told
    <3>2. G \in SUBSET {State(coord, o)}
      BY <3>1
    <3> HIDE DEF G
    <3>3. IsFiniteSet({State(coord, o)}) /\ Cardinality({State(coord, o)}) = 1
      BY FS_Singleton
    <3>4. Cardinality(G) <= 1
      BY <3>2, <3>3, FS_Subset
    <3> QED BY <3>4 DEF G
  <2>7. CallersAreTold
    BY <2>5, <2>6 DEF CallersAreTold
  <2> QED BY <2>2, <2>4, <2>7 DEF EffectIsExact
<1> QED BY <1>1, RemoteInductive, PTL

\* A history that begins another is its prefix.
LEMMA PrefixOf ==
  ASSUME NEW S, NEW q \in Seq(S), NEW r \in Seq(S), Begins(q, r)
  PROVE  IsPrefix(q, r)
<1>1. Len(q) \in Nat /\ Len(r) \in Nat /\ Len(q) <= Len(r)
  BY DEF Begins
<1>2. SubSeq(r, 1, Len(q)) = [i \in 1 .. Len(q) |-> r[i]]
  BY <1>1
<1>3. q = [i \in 1 .. Len(q) |-> q[i]]
  OBVIOUS
<1>4. \A i \in 1 .. Len(q) : q[i] = r[i]
  BY DEF Begins
<1>5. SubSeq(r, 1, Len(q)) = q
  BY <1>2, <1>3, <1>4
<1> QED BY <1>1, <1>5 DEF IsPrefix

\* The two ledgers tell one story: the coordinator's history of an operation is a beginning
\* of the worker's, a session it sees settled is settled there, and what either compacted is
\* over and known to the other (_store.py receive, acknowledge and reclaim).
THEOREM LedgersAgreeAlways == Spec => []LedgersAgree
<1>1. RemoteInvariant => LedgersAgree
  <2> SUFFICES ASSUME RemoteInvariant PROVE LedgersAgree
    OBVIOUS
  <2>1. /\ LedgerOK(coord) /\ LedgerOK(worker) /\ SettledOK(worker) /\ Follows(coord) /\ ProcessTypes
        /\ coord \in Ledgers /\ worker \in Ledgers
        /\ \A o \in Operations : worker.eventAcks[o] <= Len(coord.op[o].events)
    BY DEF RemoteInvariant, LedgersOK, LedgerOK
  <2>2. ASSUME NEW L, LedgerOK(L)
        PROVE  /\ L.sess \in [Sessions -> {None, "open", "closed"}]
               /\ L.replies \in [Sessions -> SUBSET {"ready", "error", "closed"}]
               /\ \A o \in Operations :
                    /\ L.op[o].session \in Sessions \cup {None}
                    /\ Range(L.op[o].events) \subseteq TerminalEvents \cup {"started", "output"}
                    /\ L.eventAcks[o] \in 0 .. Len(L.op[o].events)
                    /\ L.chunks[o] \in {None, "stored", "confirmed"}
    <3>1. L \in Ledgers BY <2>2 DEF LedgerOK
    <3>2. ASSUME NEW o \in Operations
          PROVE  /\ L.op[o].session \in Sessions \cup {None}
                 /\ Range(L.op[o].events) \subseteq TerminalEvents \cup {"started", "output"}
                 /\ L.eventAcks[o] \in 0 .. Len(L.op[o].events)
                 /\ L.chunks[o] \in {None, "stored", "confirmed"}
      <4>1. L.op[o].session \in Sessions \cup {None} /\ L.chunks[o] \in {None, "stored", "confirmed"}
            /\ L.eventAcks[o] \in Nat /\ L.op[o].events \in Seq(Kinds)
        BY <3>1 DEF Ledgers, Rows
      <4>2. Len(L.op[o].events) \in Nat /\ L.eventAcks[o] <= Len(L.op[o].events)
        BY <2>2, <3>1, StateOf DEF LedgerOK, RowOK
      <4>3. \A i \in DOMAIN L.op[o].events : L.op[o].events[i] \in Kinds
        <5> DEFINE q == L.op[o].events
        <5>1. q \in Seq(Kinds) BY <4>1
        <5> HIDE DEF q
        <5>2. \A i \in DOMAIN q : q[i] \in Kinds BY <5>1
        <5> QED BY <5>2 DEF q
      <4>4. Range(L.op[o].events) \subseteq Kinds BY <4>3 DEF Range
      <4> QED BY <4>1, <4>2, <4>4 DEF Kinds
    <3> QED BY <3>1, <3>2 DEF Ledgers, ReplyKinds
  <2>3. RemoteTypeOK
    BY <2>1, <2>2 DEF RemoteTypeOK, ProcessTypes, Runs, Phases
  <2>4. HistoriesAgree
    <3> SUFFICES ASSUME NEW o \in Operations PROVE IsPrefix(coord.op[o].events, worker.op[o].events)
      BY DEF HistoriesAgree
    <3>1. coord.op[o].events \in Seq(Kinds) /\ worker.op[o].events \in Seq(Kinds)
      BY <2>1, StateOf
    <3> QED BY <3>1, <2>1, PrefixOf DEF Follows
  <2>5. SettledIsFinal
    BY <2>1 DEF SettledIsFinal, Follows, SettledOK
  <2>6. RetiredIsKnown
    <3> SUFFICES ASSUME NEW o \in Operations
                 PROVE  /\ worker.op[o].retired => coord.op[o].events = worker.op[o].events /\ Terminal(coord, o)
                        /\ coord.op[o].retired => Terminal(coord, o)
      BY DEF RetiredIsKnown
    <3>1. coord.op[o].retired => Terminal(coord, o) BY <2>1 DEF LedgerOK, RowOK
    <3>2. ASSUME worker.op[o].retired PROVE coord.op[o].events = worker.op[o].events /\ Terminal(coord, o)
      <4> DEFINE q == coord.op[o].events
                 r == worker.op[o].events
      <4>1. Terminal(worker, o) /\ worker.eventAcks[o] = Len(r) BY <3>2, <2>1 DEF LedgerOK, RowOK
      <4>2. /\ q \in Seq(Kinds) /\ r \in Seq(Kinds) /\ Len(q) \in Nat /\ Len(r) \in Nat
            /\ Begins(q, r) /\ Len(r) <= Len(q)
        BY <2>1, <4>1, StateOf DEF Follows
      <4> HIDE DEF q, r
      <4>3. Len(q) = Len(r) /\ \A i \in 1 .. Len(q) : q[i] = r[i] BY <4>2 DEF Begins
      <4>4. q = r BY <4>2, <4>3
      <4>5. Terminal(coord, o) BY <4>1, <4>4, SameState DEF q, r
      <4> QED BY <4>4, <4>5 DEF q, r
    <3> QED BY <3>1, <3>2
  <2> QED BY <2>3, <2>4, <2>5, <2>6 DEF LedgersAgree
<1> QED BY <1>1, RemoteInductive, PTL

\* The coordinator refuses no frame of the worker: of every operation it already has what
\* precedes the frame's events, in whatever portions, after whatever broken connections the
\* events come (_store.py _receive_event and _append_event_row).
THEOREM EventsAlwaysAccepted == Spec => []EventsAccepted
<1>1. RemoteInvariant => EventsAccepted
  <2> SUFFICES ASSUME RemoteInvariant, NEW frame \in FramesToCoordinator PROVE CoordinatorStores(frame).ok
    BY DEF EventsAccepted
  <2>1. LedgerOK(coord) /\ LedgerOK(worker) /\ Follows(coord) /\ Welcome
    BY DEF RemoteInvariant, LedgersOK, Welcome
  <2> QED BY <2>1, StoringKeeps
<1> QED BY <1>1, RemoteInductive, PTL

-----------------------------------------------------------------------------
(* Maintenance.                                                             *)

\* Nothing of the ledger waits for a process: every operation is over, every session that
\* is open has its answer.
Calm(L) ==
  /\ \A o \in Operations : Exists(L, o) => Terminal(L, o)
  /\ \A s \in Sessions : L.sess[s] = "open" => L.replies[s] # {}

\* Nothing of the process is under way.
AtRest(p) == (\A o \in Operations : run[p][o] = NotRunning) /\ \A s \in Sessions : borrow[p][s] # "opening"

\* The two together are what maintenance waits for.
LEMMA IdleIs ==
  ASSUME NEW p \in Workers
  PROVE  Idle(p) <=> Calm(worker) /\ AtRest(p)
BY DEF Idle, Calm, AtRest, Running

\* A transaction that touches no history leaves a calm ledger calm.
LEMMA StaysCalm ==
  ASSUME NEW L \in Ledgers, NEW M, SameHistory(L, M), Calm(L)
  PROVE  Calm(M)
<1>1. ASSUME NEW o \in Operations, Exists(M, o) PROVE Terminal(M, o)
  <2>1. M.op[o].events = L.op[o].events /\ Exists(L, o) BY <1>1 DEF SameHistory, Exists
  <2> QED BY <2>1, SameState DEF Calm
<1>2. ASSUME NEW s \in Sessions, M.sess[s] = "open" PROVE M.replies[s] # {}
  <2>1. L.sess[s] = "open" BY <1>2 DEF SameHistory, Ledgers, None
  <2> QED BY <2>1 DEF SameHistory, Calm
<1> QED BY <1>1, <1>2 DEF Calm

\* So does a reply.
LEMMA ReplyCalm ==
  ASSUME NEW L \in Ledgers, NEW s \in Sessions, NEW kind \in ReplyKinds, Calm(L)
  PROVE  Calm(WithReply(L, s, kind))
<1> DEFINE M == WithReply(L, s, kind)
<1>1. M.op = L.op /\ M.sess = L.sess /\ \A t \in Sessions : L.replies[t] \subseteq M.replies[t]
  BY DEF WithReply, Ledgers
<1> HIDE DEF M
<1>2. \A o \in Operations : Exists(M, o) => Terminal(M, o)
  BY <1>1, SameState DEF Exists, Calm
<1>3. Calm(M)
  BY <1>1, <1>2 DEF Calm
<1> QED BY <1>3 DEF M

\* A worker in maintenance answers what is new with its refusal, and so stays calm.
LEMMA RefusalCalm ==
  ASSUME NEW L, LedgerOK(L), Calm(L), NEW c \in Commands, ~CommandRefused(L, c), NEW accept \in BOOLEAN, ~accept
  PROVE  Calm(WithCommand(L, c, accept))
<1> DEFINE M == WithCommand(L, c, accept)
<1>1. L \in Ledgers /\ L.sess \in [Sessions -> {None, "open", "closed"}] /\ L.replies \in [Sessions -> SUBSET ReplyKinds]
  BY DEF LedgerOK, Ledgers
<1>2. c.type \in {"open", "close"} => c.session \in Sessions
  BY DEF Commands
<1>3. /\ M.op = [o \in Operations |-> Row(L, c, o, accept)]
      /\ M.sess = (CASE c.type = "open" /\ L.sess[c.session] = None -> [L.sess EXCEPT ![c.session] = "open"]
                     [] c.type = "close" -> [L.sess EXCEPT ![c.session] = "closed"]
                     [] OTHER -> L.sess)
      /\ M.replies = (IF RefusalRecorded(L, c, accept) THEN [L.replies EXCEPT ![c.session] = {"error"}] ELSE L.replies)
  BY <1>1 DEF WithCommand, Ledgers
<1> HIDE DEF M
<1>4. ASSUME NEW o \in Operations, Exists(M, o) PROVE Terminal(M, o)
  <2>1. M.op[o] = Row(L, c, o, accept) BY <1>3
  <2>4. /\ L.op[o].session # None => M.op[o].events = L.op[o].events
        /\ ~(c.type = "dispatch" /\ c.operation = o) => (M.op[o].session = None <=> L.op[o].session = None)
    BY <2>1, RowAfter
  <2>2. CASE L.op[o].session # None
    <3>1. M.op[o].events = L.op[o].events BY <2>2, <2>4
    <3> QED BY <2>2, <3>1, SameState DEF Calm, Exists
  <2>3. CASE L.op[o].session = None
    <3>1. c.type = "dispatch" /\ c.operation = o
      BY <2>3, <2>4, <1>4 DEF Exists
    <3>2. M.op[o] = [NoOperation EXCEPT !.session = c.session, !.events = <<"failed">>]
      BY <2>1, <2>3, <3>1 DEF Row
    <3>3. M.op[o].events = <<"failed">> BY <3>2 DEF NoOperation
    <3>4. Last(<<"failed">>) = "failed" /\ <<"failed">> # <<>> BY DEF Last
    <3> QED BY <3>3, <3>4 DEF Terminal, State, TerminalEvents
  <2> QED BY <2>2, <2>3
<1>5. ASSUME NEW s \in Sessions, M.sess[s] = "open" PROVE M.replies[s] # {}
  <2>1. CASE c.type = "open" /\ L.sess[c.session] = None
    <3>1. M.replies = [L.replies EXCEPT ![c.session] = {"error"}] /\ M.sess = [L.sess EXCEPT ![c.session] = "open"]
      BY <2>1, <1>3 DEF RefusalRecorded
    <3> QED BY <3>1, <2>1, <1>1, <1>2, <1>5 DEF Calm
  <2>2. CASE ~(c.type = "open" /\ L.sess[c.session] = None)
    <3>1. M.replies = L.replies BY <2>2, <1>3 DEF RefusalRecorded
    <3>2. L.sess[s] = "open"
      <4>1. M.sess = L.sess \/ (c.type = "close" /\ M.sess = [L.sess EXCEPT ![c.session] = "closed"])
        BY <2>2, <1>3
      <4> QED BY <4>1, <1>1, <1>2, <1>5
    <3> QED BY <3>1, <3>2 DEF Calm
  <2> QED BY <2>1, <2>2
<1>6. Calm(M)
  BY <1>4, <1>5 DEF Calm
<1> QED BY <1>6 DEF M

\* Whatever frame arrives at a worker in maintenance, its ledger stays calm.
LEMMA FrameCalm ==
  ASSUME LedgerOK(worker), NEW B \in [Operations -> Nat],
         \A o \in Operations : worker.eventAcks[o] <= B[o] /\ B[o] <= Len(worker.op[o].events),
         NEW frame, WorkerFrame(frame, B), Calm(worker)
  PROVE  Calm(WorkerHandles(frame, FALSE).ledger)
<1> DEFINE Good(N) == LedgerOK(N) /\ Calm(N)
           V == {h \in Handled : Good(h.ledger)}
           acked == IF frame.receipts = NoReceipts THEN worker
                    ELSE Reclaimed(Acknowledged(worker, frame.receipts))
<1>1. CASE frame.revoked
  <2>1. WorkerHandles(frame, FALSE).ledger = WithRevocation(worker)
    BY <1>1 DEF WorkerHandles
  <2> QED BY <2>1, RevocationKeeps, StaysCalm DEF LedgerOK
<1>2. CASE ~frame.revoked
  <2>1. Good(acked)
    <3>1. CASE frame.receipts = NoReceipts
      BY <3>1
    <3>2. CASE frame.receipts # NoReceipts
      <4> DEFINE A == Acknowledged(worker, frame.receipts)
      <4> HIDE DEF A
      <4>1. LedgerOK(A) /\ SameHistory(worker, A)
        BY <1>2, AcknowledgementKeeps DEF A, WorkerFrame
      <4>2. LedgerOK(Reclaimed(A)) /\ SameHistory(A, Reclaimed(A))
        BY <4>1, ReclamationKeeps
      <4>3. Calm(A) BY <4>1, StaysCalm DEF LedgerOK
      <4>4. Calm(Reclaimed(A)) BY <4>1, <4>2, <4>3, StaysCalm DEF LedgerOK
      <4> QED BY <3>2, <4>2, <4>4 DEF A
    <3> QED BY <3>1, <3>2
  <2> HIDE DEF acked
  <2>2. ASSUME NEW N, Good(N), NEW ok \in BOOLEAN PROVE [ledger |-> N, ok |-> ok] \in V
    <3>1. N \in Ledgers BY <2>2 DEF LedgerOK
    <3> QED BY <2>2, <3>1 DEF Handled
  <2>3. \A h \in V : h \in Handled /\ LedgerOK(h.ledger) /\ Calm(h.ledger)
    OBVIOUS
  <2>4. [ledger |-> acked, ok |-> TRUE] \in V
    BY <2>1, <2>2
  <2>5. [ledger |-> acked, ok |-> TRUE].ledger = acked OBVIOUS
  <2> HIDE DEF V
  <2>6. \A h \in V, c \in Requests :
          Applied(h, CommandRefused(h.ledger, c), WithCommand(h.ledger, c, FALSE)) \in V
    <3> TAKE h \in V, c \in Requests
    <3>1. h \in Handled /\ LedgerOK(h.ledger) /\ Calm(h.ledger)
      BY <2>3
    <3>2. ASSUME ~CommandRefused(h.ledger, c) PROVE Good(WithCommand(h.ledger, c, FALSE))
      <4>1. c \in Commands /\ FALSE \in BOOLEAN BY DEF Requests
      <4>2. LedgerOK(WithCommand(h.ledger, c, FALSE)) BY <3>1, <3>2, <4>1, CommandKeeps
      <4>3. Calm(WithCommand(h.ledger, c, FALSE)) BY <3>1, <3>2, <4>1, RefusalCalm
      <4> QED BY <4>2, <4>3
    <3>3. Good(h.ledger) BY <3>1
    <3> HIDE DEF Good
    <3> QED BY <3>1, <3>2, <3>3, <2>2, AppliedIn
  <2>7. \A h \in V, o \in frame.chunks : Applied(h, ChunkRefused(h.ledger, o), WithChunk(h.ledger, o)) \in V
    <3> TAKE h \in V, o \in frame.chunks
    <3>1. h \in Handled /\ LedgerOK(h.ledger) /\ Calm(h.ledger)
      BY <2>3
    <3> DEFINE N == WithChunk(h.ledger, o)
    <3>2. LedgerOK(N) /\ SameHistory(h.ledger, N)
      BY <3>1, ChunkKeeps
    <3> HIDE DEF N
    <3>3. Good(N) BY <3>1, <3>2, StaysCalm DEF LedgerOK
    <3>4. Good(h.ledger) BY <3>1
    <3> HIDE DEF Good
    <3> QED BY <3>1, <3>3, <3>4, <2>2, AppliedIn DEF N
  <2> DEFINE commanded == CommandsHandled([ledger |-> acked, ok |-> TRUE], frame.commands, FALSE)
  <2>8. commanded \in V
    BY <1>2, <2>4, <2>6, CommandsInTurn DEF WorkerFrame
  <2> HIDE DEF commanded
  <2>9. ChunksHandled(commanded, frame.chunks) \in V
    BY <1>2, <2>7, <2>8, ChunksInTurn DEF WorkerFrame
  <2>10. WorkerHandles(frame, FALSE) = ChunksHandled(commanded, frame.chunks)
    BY <1>2 DEF WorkerHandles, commanded, acked
  <2> QED BY <2>3, <2>9, <2>10
<1> QED BY <1>1, <1>2

\* The phases of the maintenance contexts.
Maintained == maintain \in [Workers -> {None, "draining", "body"}]

\* A maintenance body runs in the one process that takes frames, if any does.
MaintainedAlone == \A p \in Workers : maintain[p] = "body" => server \in {p, None}

\* What has to hold in a maintenance body.
Quiet == \A p \in Workers : maintain[p] = "body" => Calm(worker) /\ AtRest(p)

\* Two records of a process that are as before leave it at rest.
LEMMA RestsOn ==
  ASSUME NEW p \in Workers, AtRest(p), run'[p] = run[p],
         \A s \in Sessions : borrow'[p][s] = "opening" => borrow[p][s] = "opening"
  PROVE  AtRest(p)'
BY DEF AtRest

\* A frame the worker takes, with its own process in the body, leaves the ledger calm.
LEMMA ReceivesCalm ==
  ASSUME RemoteInvariant, WorkerReceives, NEW p \in Workers, maintain[p] = "body", server \in {p, None},
         Calm(worker)
  PROVE  Calm(worker')
<1> DEFINE B == [o \in Operations |-> Len(coord.op[o].events)]
<1>1. /\ LedgersOK /\ LedgerOK(worker) /\ coord \in Ledgers /\ worker \in Ledgers
  BY DEF RemoteInvariant, LedgersOK, LedgerOK
<1>2. B \in [Operations -> Nat] /\ \A o \in Operations : B[o] = Len(coord.op[o].events)
  BY <1>1, StateOf
<1> HIDE DEF B
<1>3. \A o \in Operations : worker.eventAcks[o] <= B[o] /\ B[o] <= Len(worker.op[o].events)
  BY <1>1, <1>2 DEF LedgersOK, Follows, Begins
<1>4. AcceptsNew(server) = FALSE
  BY DEF WorkerReceives, AcceptsNew, None
<1>5. PICK frame \in FramesToWorker :
        \/ worker' = WorkerHandles(frame, AcceptsNew(server)).ledger
        \/ /\ ~frame.revoked
           /\ \/ worker' = worker
              \/ \E n \in 0 .. Len(frame.commands) - 1 :
                   worker' = WorkerHandles([frame EXCEPT !.commands = SubSeq(@, 1, n), !.chunks = {}],
                                           AcceptsNew(server)).ledger
  BY DEF WorkerReceives
<1>6. /\ WorkerFrame(frame, B)
      /\ ~frame.revoked => \A n \in 0 .. Len(frame.commands) - 1 :
           WorkerFrame([frame EXCEPT !.commands = SubSeq(@, 1, n), !.chunks = {}], B)
  BY <1>2, FrameToWorker
<1>7. ASSUME NEW f, WorkerFrame(f, B), worker' = WorkerHandles(f, AcceptsNew(server)).ledger
      PROVE  Calm(worker')
  BY <1>1, <1>2, <1>3, <1>4, <1>7, FrameCalm
<1> QED BY <1>5, <1>6, <1>7

\* An execution of another process finds its operation over: it ends, or goes on with its
\* tool, and records nothing.
LEMMA ExecutionQuiet ==
  ASSUME RemoteInvariant, NEW p \in Workers, Calm(worker), AtRest(p),
         NEW q \in Workers, NEW o \in Operations, Execution(q, o)
  PROVE  worker' = worker /\ AtRest(p)' /\ maintain' = maintain
<1>1. /\ Attached /\ run \in [Workers -> [Operations -> Runs]]
      /\ borrow \in [Workers -> [Sessions -> {None, "opening", "ready", "failed"}]]
  BY DEF RemoteInvariant, ProcessTypes
<1>2. run[q][o].phase \in Producing \cup {"following"}
  BY DEF Execution, FollowEnds, Check, Borrowed, Start, InvokeTool, ToolEnds, StopExecution, Producing
<1>3. run[q][o].phase # None
  BY <1>2 DEF Producing, None
<1>4. q # p
  BY <1>3 DEF AtRest, NotRunning
<1>5. Exists(worker, o) /\ Terminal(worker, o)
  BY <1>1, <1>3 DEF Attached, Calm
<1>6. \A kind : Finished(worker, o, kind) = worker
  BY <1>5 DEF Finished
<1>7. ~MayFollow(worker, o, "started")
  <2>1. State(worker, o) # "pending" /\ State(worker, o) # "started"
    BY <1>5 DEF Terminal, TerminalEvents
  <2> QED BY <2>1 DEF MayFollow
<1>8. worker' = worker /\ maintain' = maintain
  <2>1. CASE FollowEnds(q, o)
    BY <2>1, <1>6 DEF FollowEnds
  <2>2. CASE Check(q, o)
    BY <2>2, <1>6 DEF Check, End
  <2>3. CASE Borrowed(q, o)
    BY <2>3, <1>6 DEF Borrowed, End
  <2>4. CASE Start(q, o)
    BY <2>4, <1>6, <1>7 DEF Start, End
  <2>5. CASE InvokeTool(q, o)
    BY <2>5 DEF InvokeTool
  <2>6. CASE ToolEnds(q, o) \/ StopExecution(q, o)
    BY <2>6, <1>6 DEF ToolEnds, StopExecution, End
  <2> QED BY <2>1, <2>2, <2>3, <2>4, <2>5, <2>6 DEF Execution
<1>9. \E x : run' = [run EXCEPT ![q] = x]
  <2>1. Done(q, o) \/ \E to : Phase(q, o, to)
    BY <1>7 DEF Execution, FollowEnds, Check, Borrowed, Start, InvokeTool, ToolEnds, StopExecution, End
  <2> QED BY <2>1 DEF Done, Phase
<1>10. borrow' = borrow \/ \E x : borrow' = [borrow EXCEPT ![q] = x]
  BY DEF Execution, FollowEnds, Check, Borrowed, Start, InvokeTool, ToolEnds, StopExecution
<1>11. run'[p] = run[p] /\ borrow'[p] = borrow[p]
  BY <1>1, <1>4, <1>9, <1>10
<1> QED BY <1>8, <1>11, RestsOn

\* Steps of the processes that are no executions.
LEMMA SupervisorsQuiet ==
  ASSUME RemoteInvariant, NEW p \in Workers, maintain[p] = "body", Maintained, Calm(worker), AtRest(p),
         NEW q \in Workers, maintain'[p] = "body",
         \/ BeginMaintenance(q) \/ EnterMaintenance(q) \/ EndMaintenance(q)
         \/ BeginClose(q) \/ EndClose(q) \/ Crash(q) \/ Restart(q)
         \/ \E s \in Sessions : OpenBorrow(q, s) \/ Prepared(q, s) \/ CloseBorrow(q, s) \/ SettleSession(q, s)
         \/ \E o \in Operations : SuspectProducer(o) \/ Schedule(q, o) \/ Output(q, o)
  PROVE  Calm(worker') /\ AtRest(p)'
<1>1. /\ Attached /\ run \in [Workers -> [Operations -> Runs]] /\ worker \in Ledgers
      /\ borrow \in [Workers -> [Sessions -> {None, "opening", "ready", "failed"}]]
  BY DEF RemoteInvariant, ProcessTypes, LedgersOK, LedgerOK
<1>2. "opening" # None /\ "body" # None /\ "invoked" # None
  BY DEF None
<1>3. CASE BeginMaintenance(q) \/ EnterMaintenance(q) \/ EndMaintenance(q) \/ Restart(q)
           \/ \E o \in Operations : SuspectProducer(o)
  <2>1. worker' = worker /\ run' = run /\ borrow' = borrow
    BY <1>3 DEF BeginMaintenance, EnterMaintenance, EndMaintenance, Restart, SuspectProducer
  <2> QED BY <2>1, RestsOn
<1>4. CASE BeginClose(q) \/ Crash(q)
  <2>1. maintain' = [maintain EXCEPT ![q] = None] /\ worker' = worker
    BY <1>4 DEF BeginClose, Crash
  <2>2. q # p BY <2>1, <1>2 DEF Maintained
  <2>3. (\E x : run' = [run EXCEPT ![q] = x]) /\ (borrow' = borrow \/ \E x : borrow' = [borrow EXCEPT ![q] = x])
    BY <1>4 DEF BeginClose, Crash
  <2>4. run'[p] = run[p] /\ borrow'[p] = borrow[p] BY <1>1, <2>2, <2>3
  <2> QED BY <2>1, <2>4, RestsOn
<1>5. CASE EndClose(q)
  <2>1. worker' = worker /\ run' = run /\ borrow' = [borrow EXCEPT ![q] = [s \in Sessions |-> None]]
    BY <1>5 DEF EndClose
  <2>2. \A s \in Sessions : borrow'[p][s] = "opening" => borrow[p][s] = "opening"
    BY <2>1, <1>1, <1>2
  <2> QED BY <2>1, <2>2, RestsOn
<1>6. CASE \E s \in Sessions : OpenBorrow(q, s)
  BY <1>6 DEF OpenBorrow, Calm
<1>7. CASE \E s \in Sessions : Prepared(q, s)
  <2>1. PICK s \in Sessions : Prepared(q, s) BY <1>7
  <2>2. q # p BY <2>1 DEF Prepared, AtRest
  <2>3. run' = run /\ \E to : borrow' = [borrow EXCEPT ![q] = to]
    BY <2>1 DEF Prepared
  <2>4. run'[p] = run[p] /\ borrow'[p] = borrow[p] BY <1>1, <2>2, <2>3
  <2>5. worker' = worker \/ \E kind \in {"ready", "error"} : worker' = WithReply(worker, s, kind)
    BY <2>1 DEF Prepared
  <2>6. Calm(worker')
    <3>1. {"ready", "error"} \subseteq ReplyKinds BY DEF ReplyKinds
    <3> QED BY <2>5, <3>1, <1>1, ReplyCalm
  <2> QED BY <2>4, <2>6, RestsOn
<1>8. CASE \E s \in Sessions : CloseBorrow(q, s)
  <2>1. PICK s \in Sessions : CloseBorrow(q, s) BY <1>8
  <2>2. worker' = worker /\ run' = run /\ borrow' = [borrow EXCEPT ![q] = [borrow[q] EXCEPT ![s] = None]]
    BY <2>1 DEF CloseBorrow
  <2>3. \A t \in Sessions : borrow'[p][t] = "opening" => borrow[p][t] = "opening"
    BY <2>2, <1>1, <1>2
  <2> QED BY <2>2, <2>3, RestsOn
<1>9. CASE \E s \in Sessions : SettleSession(q, s)
  <2>1. PICK s \in Sessions : SettleSession(q, s) BY <1>9
  <2>2. worker' = WithReply(worker, s, "closed") /\ run' = run /\ borrow' = borrow
    BY <2>1 DEF SettleSession, working
  <2>3. Calm(worker') BY <2>2, <1>1, ReplyCalm DEF ReplyKinds
  <2> QED BY <2>2, <2>3, RestsOn
<1>10. CASE \E o \in Operations : Schedule(q, o)
  BY <1>10 DEF Schedule, Calm
<1>11. CASE \E o \in Operations : Output(q, o)
  <2>1. PICK o \in Operations : Output(q, o) BY <1>11
  <2>2. Exists(worker, o) /\ Terminal(worker, o)
    BY <2>1, <1>1, <1>2 DEF Output, Attached, Calm
  <2>3. State(worker, o) # "pending" /\ State(worker, o) # "started"
    BY <2>2 DEF Terminal, TerminalEvents
  <2> QED BY <2>1, <2>3 DEF Output, MayFollow
<1> QED BY <1>3, <1>4, <1>5, <1>6, <1>7, <1>8, <1>9, <1>10, <1>11

\* What begins, enters or ends a maintenance context.
MaintenanceStep ==
  \E q \in Workers : BeginMaintenance(q) \/ EnterMaintenance(q) \/ EndMaintenance(q) \/ BeginClose(q) \/ Crash(q)

\* Nothing else does.
LEMMA MaintenanceStays ==
  ASSUME [Next]_vars
  PROVE  maintain' = maintain \/ MaintenanceStep
<1>1. CASE \/ \E s \in Sessions : OpenSession(s) \/ CloseSession(s)
           \/ \E o \in Operations, s \in Sessions : Invoke(o, s)
           \/ \E o \in Operations : Upload(o) \/ Return(o) \/ StopCall(o) \/ SuspectProducer(o)
           \/ Revoke \/ StopTools \/ SaveCloseIntent \/ StartTools
  BY <1>1 DEF working, OpenSession, CloseSession, Invoke, Upload, Return, StopCall, SuspectProducer,
    Revoke, StopTools, SaveCloseIntent, StartTools
<1>2. CASE (\E p \in Workers : Connect(p)) \/ Disconnect \/ WorkerReceives \/ CoordinatorReceives
  BY <1>2 DEF working, Connect, Disconnect, WorkerReceives, CoordinatorReceives
<1>3. CASE \E p \in Workers, s \in Sessions :
             OpenBorrow(p, s) \/ Prepared(p, s) \/ CloseBorrow(p, s) \/ SettleSession(p, s)
  BY <1>3 DEF working, OpenBorrow, Prepared, CloseBorrow, SettleSession
<1>4. CASE \E p \in Workers, o \in Operations : Schedule(p, o) \/ Execution(p, o) \/ Output(p, o)
  BY <1>4 DEF working, Schedule, Execution, FollowEnds, Check, Borrowed, Start, InvokeTool, ToolEnds, StopExecution, Output
<1>5. CASE \E p \in Workers : EndClose(p) \/ Restart(p)
  BY <1>5 DEF EndClose, Restart
<1>6. CASE UNCHANGED vars
  BY <1>6 DEF vars, working
<1> QED BY <1>1, <1>2, <1>3, <1>4, <1>5, <1>6 DEF Next, MaintenanceStep

\* The maintenance contexts keep their type.
LEMMA MaintainedStep ==
  ASSUME Maintained, [Next]_vars
  PROVE  Maintained'
<1>1. CASE MaintenanceStep
  <2>1. \E p \in Workers, to \in {None, "draining", "body"} : maintain' = [maintain EXCEPT ![p] = to]
    BY <1>1 DEF MaintenanceStep, BeginMaintenance, EnterMaintenance, EndMaintenance, BeginClose, Crash
  <2> QED BY <2>1 DEF Maintained
<1>2. CASE maintain' = maintain
  BY <1>2 DEF Maintained
<1> QED BY <1>1, <1>2, MaintenanceStays

\* A step of the system, when the processes in the body are alone.
LEMMA QuietStep == RemoteInvariant /\ Maintained /\ Quiet /\ MaintainedAlone /\ [Next]_vars => Maintained' /\ Quiet'
<1> SUFFICES ASSUME RemoteInvariant, Maintained, Quiet, MaintainedAlone, [Next]_vars,
                    NEW p \in Workers, maintain'[p] = "body"
             PROVE  Calm(worker') /\ AtRest(p)'
  BY MaintainedStep DEF Quiet
<1>1. ASSUME maintain[p] # "body" PROVE Calm(worker') /\ AtRest(p)'
  <2>1. \E q \in Workers : BeginMaintenance(q) \/ EnterMaintenance(q) \/ EndMaintenance(q) \/ BeginClose(q) \/ Crash(q)
    BY <1>1, MaintenanceStays DEF MaintenanceStep
  <2>2. "body" # None /\ "body" # "draining" BY DEF None
  <2>3. EnterMaintenance(p)
    BY <2>1, <2>2, <1>1 DEF BeginMaintenance, EnterMaintenance, EndMaintenance, BeginClose, Crash, Maintained
  <2>4. Idle(p) /\ worker' = worker /\ run' = run /\ borrow' = borrow
    BY <2>3 DEF EnterMaintenance
  <2>5. Calm(worker) /\ AtRest(p) BY <2>4, IdleIs
  <2> QED BY <2>4, <2>5, RestsOn
<1>2. ASSUME maintain[p] = "body" PROVE Calm(worker') /\ AtRest(p)'
  <2>1. Calm(worker) /\ AtRest(p) /\ server \in {p, None} BY <1>2 DEF Quiet, MaintainedAlone
  <2>2. CASE WorkerReceives
    <3>1. run' = run /\ borrow' = borrow BY <2>2 DEF WorkerReceives, working
    <3> QED BY <3>1, <2>1, <2>2, <1>2, ReceivesCalm, RestsOn
  <2>3. CASE \E q \in Workers, o \in Operations : Execution(q, o)
    BY <2>1, <2>3, ExecutionQuiet
  <2>4. CASE \E q \in Workers :
               \/ BeginMaintenance(q) \/ EnterMaintenance(q) \/ EndMaintenance(q)
               \/ BeginClose(q) \/ EndClose(q) \/ Crash(q) \/ Restart(q)
               \/ \E s \in Sessions : OpenBorrow(q, s) \/ Prepared(q, s) \/ CloseBorrow(q, s) \/ SettleSession(q, s)
               \/ \E o \in Operations : SuspectProducer(o) \/ Schedule(q, o) \/ Output(q, o)
    BY <2>1, <2>4, <1>2, SupervisorsQuiet
  <2>5. CASE \/ \E s \in Sessions : OpenSession(s) \/ CloseSession(s)
             \/ \E o \in Operations, s \in Sessions : Invoke(o, s)
             \/ \E o \in Operations : Upload(o) \/ Return(o) \/ StopCall(o)
             \/ Revoke \/ StopTools \/ SaveCloseIntent \/ StartTools
             \/ \E q \in Workers : Connect(q)
             \/ Disconnect \/ CoordinatorReceives \/ UNCHANGED vars
    <3>1. worker' = worker /\ run' = run /\ borrow' = borrow
      BY <2>5 DEF vars, working, calling, delivery, OpenSession, CloseSession, Invoke, Upload, Return, StopCall,
        Revoke, StopTools, SaveCloseIntent, StartTools, Connect, Disconnect, CoordinatorReceives
    <3> QED BY <3>1, <2>1, RestsOn
  <2>6. CASE \E o \in Operations : SuspectProducer(o)
    BY <2>1, <2>6, <1>2, SupervisorsQuiet
  <2> QED BY <2>2, <2>3, <2>4, <2>5, <2>6 DEF Next
<1> QED BY <1>1, <1>2

\* In the body of a maintenance context the process executes and prepares nothing, however
\* the request stream, the other processes and failures interleave with it, as long as the
\* frames that arrive while it is there are its own: MaintenanceIsQuiet.  (Another process on
\* the ledger that accepts work would have it scheduled by all of them.)
THEOREM MaintenanceStaysQuiet == Spec /\ []MaintainedAlone => []MaintenanceIsQuiet
<1>1. Init => Maintained /\ Quiet
  BY DEF Init, Maintained, Quiet, None
<1>2. RemoteInvariant /\ Maintained /\ Quiet /\ MaintainedAlone /\ [Next]_vars => Maintained' /\ Quiet'
  BY QuietStep
<1>3. Quiet => MaintenanceIsQuiet
  BY DEF Quiet, AtRest, MaintenanceIsQuiet, Running
<1>4. Spec => []RemoteInvariant
  BY RemoteInductive
<1> QED BY <1>1, <1>2, <1>3, <1>4, PTL DEF Spec

\* One process alone needs no such hypothesis.
THEOREM SingleProcessIsQuiet ==
  ASSUME \A p, q \in Workers : p = q
  PROVE  Spec => []MaintenanceIsQuiet
<1>1. RemoteInvariant => MaintainedAlone
  BY DEF RemoteInvariant, ProcessTypes, MaintainedAlone
<1> QED BY <1>1, RemoteInductive, MaintenanceStaysQuiet, PTL

-----------------------------------------------------------------------------
(* What the list of commands says of a ledger.                              *)

\* The first k commands of a list, and all that a ledger was given.
Before(C, k) == {C[i].command : i \in 1 .. k}
Issued(L) == Before(L.commands, Len(L.commands))

\* A session's state and an operation's being there, read off a set of commands.
SessionBy(K, s) == IF Close(s) \in K THEN "closed" ELSE IF Open(s) \in K THEN "open" ELSE None
RequestedBy(K, o) == \E s \in Sessions : Dispatch(s, o) \in K

\* What a ledger that was given the commands in K refuses.
RefusedBy(K, c) ==
  CASE c.type = "open" -> /\ SessionBy(K, c.session) = None
                          /\ Cardinality({s \in Sessions : SessionBy(K, s) = "open"}) >= MaxSessions
    [] c.type = "close" -> SessionBy(K, c.session) = None
    [] c.type = "dispatch" -> \/ SessionBy(K, c.session) = None
                              \/ ~RequestedBy(K, c.operation) /\ SessionBy(K, c.session) = "closed"
    [] c.type = "cancel" -> ~RequestedBy(K, c.operation)

\* The ledger is what its commands say.
Reflects(L) ==
  /\ \A s \in Sessions : L.sess[s] = SessionBy(Issued(L), s)
  /\ \A o \in Operations : Exists(L, o) <=> RequestedBy(Issued(L), o)

\* No command of the list is there twice, and none was refused after those before it.
Lawful(C) ==
  \A k \in 1 .. Len(C) :
    ~RefusedBy(Before(C, k - 1), C[k].command) /\ \A i \in 1 .. Len(C) : C[i].command = C[k].command => i = k

\* A transaction that gives the ledger no command; it confirms those in R, and stores the
\* chunks of U.
Alike(L, M, R, U) ==
  /\ M \in Ledgers
  /\ M.sess = L.sess /\ M.revoked = L.revoked /\ Len(M.commands) = Len(L.commands)
  /\ \A o \in Operations : M.op[o].session = L.op[o].session /\ (M.chunks[o] = "stored" => L.chunks[o] = "stored" \/ o \in U)
  /\ \A i \in 1 .. Len(L.commands) :
       /\ M.commands[i].command = L.commands[i].command
       /\ M.commands[i].ack => L.commands[i].ack \/ L.commands[i].command \in R

\* The items of a ledger's list.
LEMMA ListOf ==
  ASSUME NEW L \in Ledgers
  PROVE  /\ Len(L.commands) \in Nat /\ DOMAIN L.commands = 1 .. Len(L.commands)
         /\ L.commands \in Seq([command : Commands, ack : BOOLEAN])
         /\ \A i \in 1 .. Len(L.commands) : L.commands[i].command \in Commands
<1>1. L.commands \in Seq([command : Commands, ack : BOOLEAN])
  BY DEF Ledgers
<1>2. Len(L.commands) \in Nat /\ DOMAIN L.commands = 1 .. Len(L.commands)
  BY <1>1
<1> QED BY <1>1, <1>2, CommandsOf

\* The commands of the four kinds.
LEMMA CommandIs ==
  ASSUME NEW c \in Commands
  PROVE  /\ c.type = "open" => c = Open(c.session) /\ c.session \in Sessions
         /\ c.type = "close" => c = Close(c.session) /\ c.session \in Sessions
         /\ c.type = "dispatch" => c = Dispatch(c.session, c.operation) /\ c.session \in Sessions /\ c.operation \in Operations
         /\ c.type = "cancel" => c = Cancel(c.operation) /\ c.operation \in Operations
         /\ c.type \in {"open", "close", "dispatch", "cancel"}
<1>1. CASE c \in [type : {"open", "close"}, session : Sessions, operation : {None}]
  BY <1>1 DEF Open, Close
<1>2. CASE c \in [type : {"dispatch"}, session : Sessions, operation : Operations]
  BY <1>2 DEF Dispatch
<1>3. CASE c \in [type : {"cancel"}, session : {None}, operation : Operations]
  BY <1>3 DEF Cancel
<1> QED BY <1>1, <1>2, <1>3 DEF Commands

\* A ledger that is what its commands say refuses what they say.
LEMMA RefusalReflected ==
  ASSUME NEW L \in Ledgers, Reflects(L), ~L.revoked, NEW c \in Commands
  PROVE  CommandRefused(L, c) <=> RefusedBy(Issued(L), c)
<1> DEFINE K == Issued(L)
<1>1. /\ \A s \in Sessions : L.sess[s] = SessionBy(K, s)
      /\ \A o \in Operations : Exists(L, o) <=> RequestedBy(K, o)
  BY DEF Reflects
<1>2. /\ c.type \in {"open", "close", "dispatch"} => c.session \in Sessions
      /\ c.type \in {"dispatch", "cancel"} => c.operation \in Operations
      /\ c.type \in {"open", "close", "dispatch", "cancel"}
  BY CommandIs
<1>3. {s \in Sessions : SessionBy(K, s) = "open"} = {s \in Sessions : L.sess[s] = "open"}
  BY <1>1
<1> HIDE DEF K
<1> DEFINE n == Cardinality({s \in Sessions : L.sess[s] = "open"})
<1>4. Cardinality({s \in Sessions : SessionBy(K, s) = "open"}) = n
  BY <1>3
<1> HIDE DEF n
<1>5. CASE c.type = "open"
  <2>1. CommandRefused(L, c) <=> (L.sess[c.session] = None /\ n >= MaxSessions)
    BY <1>5 DEF CommandRefused, n
  <2>2. RefusedBy(K, c) <=> (SessionBy(K, c.session) = None /\ n >= MaxSessions)
    BY <1>5, <1>4 DEF RefusedBy
  <2> QED BY <2>1, <2>2, <1>1, <1>2, <1>5 DEF K
<1>6. CASE c.type = "close"
  BY <1>1, <1>2, <1>6 DEF CommandRefused, RefusedBy, K
<1>7. CASE c.type = "dispatch"
  BY <1>1, <1>2, <1>7 DEF CommandRefused, RefusedBy, K
<1>8. CASE c.type = "cancel"
  BY <1>1, <1>2, <1>8 DEF CommandRefused, RefusedBy, K
<1> QED BY <1>2, <1>5, <1>6, <1>7, <1>8

\* What a ledger took once and what came after it make it take it again.
LEMMA TakenAgain ==
  ASSUME NEW C, Lawful(C), NEW m \in Nat, m <= Len(C), Len(C) \in Nat, NEW k \in 1 .. m, C[k].command \in Commands
  PROVE  ~RefusedBy(Before(C, m), C[k].command)
<1> DEFINE c == C[k].command
           J == Before(C, k - 1)
           K == Before(C, m)
<1>1. J \subseteq K /\ c \in K
  <2>1. \A i \in 1 .. k - 1 : i \in 1 .. m OBVIOUS
  <2> QED BY <2>1 DEF Before
<1>2. ~RefusedBy(J, c)
  <2>1. k \in 1 .. Len(C) OBVIOUS
  <2> QED BY <2>1 DEF Lawful
<1>3. c \in Commands
  OBVIOUS
<1> HIDE DEF c, J, K
<1>4. "closed" # None /\ "open" # None
  BY DEF None
<1>5. \A s : SessionBy(J, s) # None => SessionBy(K, s) # None
  BY <1>1, <1>4 DEF SessionBy
<1>6. \A o : RequestedBy(J, o) => RequestedBy(K, o)
  BY <1>1 DEF RequestedBy
<1>7. CASE c.type = "open"
  <2>1. c = Open(c.session) BY <1>3, <1>7, CommandIs
  <2>2. SessionBy(K, c.session) # None BY <2>1, <1>1, <1>4 DEF SessionBy
  <2> QED BY <2>2, <1>7 DEF RefusedBy, c, K
<1>8. CASE c.type = "close"
  <2>1. c = Close(c.session) BY <1>3, <1>8, CommandIs
  <2>2. SessionBy(K, c.session) # None BY <2>1, <1>1, <1>4 DEF SessionBy
  <2> QED BY <2>2, <1>8 DEF RefusedBy, c, K
<1>9. CASE c.type = "dispatch"
  <2>1. c = Dispatch(c.session, c.operation) /\ c.session \in Sessions BY <1>3, <1>9, CommandIs
  <2>2. RequestedBy(K, c.operation) BY <2>1, <1>1 DEF RequestedBy
  <2>3. SessionBy(K, c.session) # None BY <1>2, <1>5, <1>9 DEF RefusedBy
  <2> QED BY <2>2, <2>3, <1>9 DEF RefusedBy, c, K
<1>10. CASE c.type = "cancel"
  <2>1. RequestedBy(K, c.operation) BY <1>2, <1>6, <1>10 DEF RefusedBy
  <2> QED BY <2>1, <1>10 DEF RefusedBy, c, K
<1> QED BY <1>3, <1>7, <1>8, <1>9, <1>10, CommandIs

\* A ledger that takes a command is what its commands say, with that one.
LEMMA CommandReflected ==
  ASSUME NEW L, LedgerOK(L), Reflects(L), ~L.revoked, NEW c \in Commands, ~CommandRefused(L, c), NEW accept \in BOOLEAN
  PROVE  LET M == WithCommand(L, c, accept) IN
         /\ Reflects(M) /\ ~M.revoked /\ M.chunks = L.chunks
         /\ c \in Issued(L) => M.commands = L.commands
         /\ c \notin Issued(L) => M.commands = Append(L.commands, [command |-> c, ack |-> FALSE])
<1> DEFINE M == WithCommand(L, c, accept)
           K == Issued(L)
           n == Len(L.commands)
<1>1. L \in Ledgers /\ L.sess \in [Sessions -> {None, "open", "closed"}]
  BY DEF LedgerOK, Ledgers
<1>2. /\ M.op = [o \in Operations |-> Row(L, c, o, accept)]
      /\ M.sess = (CASE c.type = "open" /\ L.sess[c.session] = None -> [L.sess EXCEPT ![c.session] = "open"]
                     [] c.type = "close" -> [L.sess EXCEPT ![c.session] = "closed"]
                     [] OTHER -> L.sess)
      /\ M.commands = (IF \E i \in DOMAIN L.commands : L.commands[i].command = c THEN L.commands
                       ELSE Append(L.commands, [command |-> c, ack |-> FALSE]))
      /\ M.chunks = L.chunks /\ M.revoked = L.revoked
  BY <1>1 DEF WithCommand, Ledgers
<1>3. n \in Nat /\ DOMAIN L.commands = 1 .. n /\ L.commands \in Seq([command : Commands, ack : BOOLEAN])
  BY <1>1, ListOf
<1>4. \A o \in Operations : IF c.type = "dispatch" /\ c.operation = o THEN Exists(M, o) ELSE Exists(M, o) <=> Exists(L, o)
  BY <1>2, RowAfter DEF Exists
<1> HIDE DEF M, n
<1>5. c \in K <=> \E i \in DOMAIN L.commands : L.commands[i].command = c
  BY <1>3 DEF Issued, Before, n
<1>6. /\ c \in K => M.commands = L.commands
      /\ c \notin K => M.commands = Append(L.commands, [command |-> c, ack |-> FALSE])
  BY <1>2, <1>5
<1>7. Issued(M) = K \cup {c}
  <2>1. CASE c \in K
    BY <2>1, <1>6 DEF Issued
  <2>2. CASE c \notin K
    <3> DEFINE A == Append(L.commands, [command |-> c, ack |-> FALSE])
    <3>1. Len(A) = n + 1 /\ A[n + 1] = [command |-> c, ack |-> FALSE] /\ \A i \in 1 .. n : A[i] = L.commands[i]
      BY <1>3 DEF n
    <3> HIDE DEF A
    <3>2. M.commands = A BY <2>2, <1>6 DEF A
    <3>3. Issued(M) = {A[i].command : i \in 1 .. n + 1} BY <3>1, <3>2 DEF Issued, Before
    <3>4. K = {L.commands[i].command : i \in 1 .. n} BY DEF Issued, Before, n
    <3>5. 1 .. n + 1 = (1 .. n) \cup {n + 1} BY <1>3
    <3>6. {A[i].command : i \in 1 .. n + 1} = {A[i].command : i \in 1 .. n} \cup {A[n + 1].command}
      BY <3>5
    <3>7. {A[i].command : i \in 1 .. n} = {L.commands[i].command : i \in 1 .. n} BY <3>1
    <3>8. A[n + 1].command = c BY <3>1
    <3> QED BY <3>3, <3>4, <3>6, <3>7, <3>8
  <2> QED BY <2>1, <2>2
<1>8. /\ \A s \in Sessions : L.sess[s] = SessionBy(K, s)
      /\ \A o \in Operations : Exists(L, o) <=> RequestedBy(K, o)
  BY DEF Reflects
<1> HIDE DEF K
<1>9. /\ c.type = "open" => c = Open(c.session) /\ c.session \in Sessions
      /\ c.type = "close" => c = Close(c.session) /\ c.session \in Sessions
      /\ c.type = "dispatch" => c = Dispatch(c.session, c.operation) /\ c.session \in Sessions
  BY CommandIs
<1>10. ASSUME NEW s \in Sessions PROVE M.sess[s] = SessionBy(K \cup {c}, s)
  <2>1. /\ Open(s) \in K \cup {c} <=> Open(s) \in K \/ (c.type = "open" /\ c.session = s)
        /\ Close(s) \in K \cup {c} <=> Close(s) \in K \/ (c.type = "close" /\ c.session = s)
    BY <1>9 DEF Open, Close
  <2>2. L.sess[s] = SessionBy(K, s) /\ None # "open" /\ None # "closed" BY <1>8 DEF None
  <2>3. CASE c.type = "open" /\ L.sess[c.session] = None
    <3>1. M.sess = [L.sess EXCEPT ![c.session] = "open"] BY <2>3, <1>2
    <3> QED BY <3>1, <2>1, <2>2, <2>3, <1>1, <1>9 DEF SessionBy
  <2>4. CASE c.type = "close"
    <3>1. M.sess = [L.sess EXCEPT ![c.session] = "closed"] BY <2>4, <1>2
    <3> QED BY <3>1, <2>1, <2>2, <2>4, <1>1, <1>9 DEF SessionBy
  <2>5. CASE ~(c.type = "open" /\ L.sess[c.session] = None) /\ c.type # "close"
    <3>1. M.sess = L.sess BY <2>5, <1>2
    <3> QED BY <3>1, <2>1, <2>2, <2>5, <1>1, <1>9 DEF SessionBy
  <2> QED BY <2>3, <2>4, <2>5
<1>11. ASSUME NEW o \in Operations PROVE Exists(M, o) <=> RequestedBy(K \cup {c}, o)
  <2>1. RequestedBy(K \cup {c}, o) <=> RequestedBy(K, o) \/ (c.type = "dispatch" /\ c.operation = o)
    <3>1. \A s \in Sessions : Dispatch(s, o) = c <=> c.type = "dispatch" /\ c.operation = o /\ c.session = s
      BY <1>9 DEF Dispatch
    <3>2. RequestedBy(K \cup {c}, o) <=> \E s \in Sessions : Dispatch(s, o) \in K \/ Dispatch(s, o) = c
      BY DEF RequestedBy
    <3>3. c.type = "dispatch" => c.session \in Sessions BY <1>9
    <3> QED BY <3>1, <3>2, <3>3 DEF RequestedBy
  <2>2. Exists(L, o) <=> RequestedBy(K, o) BY <1>8
  <2>3. CASE c.type = "dispatch" /\ c.operation = o
    <3>1. Exists(M, o) BY <2>3, <1>4
    <3> QED BY <3>1, <2>1, <2>3
  <2>4. CASE ~(c.type = "dispatch" /\ c.operation = o)
    <3>1. Exists(M, o) <=> Exists(L, o) BY <2>4, <1>4
    <3> QED BY <3>1, <2>1, <2>2, <2>4
  <2> QED BY <2>3, <2>4
<1>12. Reflects(M)
  BY <1>7, <1>10, <1>11 DEF Reflects
<1> QED BY <1>2, <1>6, <1>12 DEF K, M

\* What gives the ledger no command leaves it what its commands say.
LEMMA AlikeReflects ==
  ASSUME NEW L \in Ledgers, NEW M, NEW R, NEW U, Alike(L, M, R, U)
  PROVE  Issued(M) = Issued(L) /\ (Reflects(L) => Reflects(M))
<1>1. Issued(M) = Issued(L)
  BY DEF Alike, Issued, Before
<1>2. \A o \in Operations : Exists(M, o) <=> Exists(L, o)
  BY DEF Alike, Exists
<1> QED BY <1>1, <1>2 DEF Reflects, Alike

-----------------------------------------------------------------------------
(* The coordinator's commands on their way to the worker.                   *)

\* idx lists the places of C, up to k, whose commands have no receipt, and v those commands.
Waiting(C, k, v, idx) ==
  /\ Len(idx) = Len(v)
  /\ \A h \in 1 .. Len(v) : /\ v[h] = C[idx[h]].command
                            /\ \A j \in 1 .. idx[h] - 1 : C[j].ack \/ \E g \in 1 .. h - 1 : idx[g] = j
  /\ \A j \in 1 .. k : C[j].ack \/ \E h \in 1 .. Len(v) : idx[h] = j

\* The commands that wait for their receipt, in the order of the list, are all of them.
LEMMA PendingInOrder ==
  ASSUME NEW L \in Ledgers
  PROVE  \E idx \in Seq(1 .. Len(L.commands)) :
           Waiting(L.commands, Len(L.commands), PendingCommands(L), idx)
<1> DEFINE C == L.commands
           n == Len(C)
           V == Seq(Commands)
           g == [k \in 1 .. n |-> [v \in V |-> IF C[k].ack THEN v ELSE Append(v, C[k].command)]]
           Rec(f) == f = [s \in SUBSET DOMAIN C |->
                            IF s = {} THEN <<>>
                            ELSE IF C[Max(s)].ack THEN f[s \ {Max(s)}]
                                 ELSE Append(f[s \ {Max(s)}], C[Max(s)].command)]
           iter == CHOOSE f : Rec(f)
<1>1. PendingCommands(L) = iter[DOMAIN C]
  BY DEF PendingCommands, FoldLeft, MapThenFoldSet
<1>2. /\ n \in Nat /\ DOMAIN C = 1 .. n
      /\ \A k \in 1 .. n : C[k].command \in Commands
  BY ListOf
<1>3. <<>> \in V
  OBVIOUS
<1>4. \A k \in 1 .. n, v \in V : g[k][v] = IF C[k].ack THEN v ELSE Append(v, C[k].command)
  OBVIOUS
<1>5. ASSUME NEW k \in 1 .. n, NEW v \in V PROVE g[k][v] \in V
  <2>1. C[k].command \in Commands BY <1>2
  <2>2. Append(v, C[k].command) \in V BY <2>1
  <2> HIDE DEF g
  <2> QED BY <1>4, <2>2
<1> HIDE DEF C, n, V, g
<1>6. \E f : Rec(f)
  <2>1. PICK f : FoldsInto(f, n, V, <<>>, g)
    BY <1>2, <1>3, <1>5, FoldExists
  <2>2. ASSUME NEW s \in SUBSET (1 .. n), s # {}
        PROVE  f[s] = IF C[Max(s)].ack THEN f[s \ {Max(s)}] ELSE Append(f[s \ {Max(s)}], C[Max(s)].command)
    <3>1. Max(s) \in 1 .. n BY <1>2, <2>2, MaxOfIndices
    <3>2. f[s \ {Max(s)}] \in V BY <2>1 DEF FoldsInto
    <3> QED BY <2>1, <2>2, <3>1, <3>2, <1>4 DEF FoldsInto
  <2>3. f = [s \in SUBSET (1 .. n) |->
               IF s = {} THEN <<>>
               ELSE IF C[Max(s)].ack THEN f[s \ {Max(s)}]
                    ELSE Append(f[s \ {Max(s)}], C[Max(s)].command)]
    BY <2>1, <2>2 DEF FoldsInto
  <2> QED BY <2>3, <1>2
<1>7. Rec(iter)
  BY <1>6
<1> HIDE DEF iter
<1>8. iter[{}] = <<>>
  BY <1>7, <1>2
<1>9. ASSUME NEW k \in 1 .. n
      PROVE  iter[1 .. k] = IF C[k].ack THEN iter[1 .. (k - 1)] ELSE Append(iter[1 .. (k - 1)], C[k].command)
  <2>1. Max(1 .. k) = k /\ (1 .. k) \ {k} = 1 .. (k - 1) /\ 1 .. k # {} /\ 1 .. k \in SUBSET (1 .. n)
    BY <1>2, MaxOfPrefix
  <2> QED BY <2>1, <1>7, <1>2
<1> DEFINE P == [k \in 0 .. n |-> {v \in V : \E idx \in Seq(1 .. k) : Waiting(C, k, v, idx)}]
<1>10. ASSUME NEW k \in 1 .. n, NEW v \in V, NEW idx \in Seq(1 .. (k - 1)), Waiting(C, k - 1, v, idx)
       PROVE  \E new \in Seq(1 .. k) : Waiting(C, k, g[k][v], new)
  <2>1. k - 1 \in Nat /\ k \in Nat /\ Len(v) \in Nat /\ Len(idx) \in Nat
    BY <1>2, <1>3 DEF V
  <2>2. idx \in Seq(1 .. k)
    <3>1. 1 .. (k - 1) \subseteq 1 .. k OBVIOUS
    <3> QED BY <3>1
  <2>3. \A h \in 1 .. Len(idx) : idx[h] \in 1 .. (k - 1)
    BY ElementIn
  <2>4. CASE C[k].ack
    <3>1. \A j \in 1 .. k : j = k \/ j \in 1 .. (k - 1) OBVIOUS
    <3>2. Waiting(C, k, v, idx) BY <2>4, <3>1, <1>10 DEF Waiting
    <3>3. g[k][v] = v BY <2>4, <1>4
    <3> QED BY <2>2, <3>2, <3>3
  <2>5. CASE ~C[k].ack
    <3> DEFINE w == Append(v, C[k].command)
               new == Append(idx, k)
               m == Len(v)
    <3>1. /\ Len(w) = m + 1 /\ w[m + 1] = C[k].command /\ \A h \in 1 .. m : w[h] = v[h]
      BY <2>1 DEF V
    <3>2. /\ new \in Seq(1 .. k) /\ Len(new) = m + 1 /\ new[m + 1] = k /\ \A h \in 1 .. m : new[h] = idx[h]
      <4>1. Len(idx) = m BY <1>10 DEF Waiting
      <4>2. k \in 1 .. k OBVIOUS
      <4> QED BY <4>1, <4>2, <2>2
    <3>3. g[k][v] = w BY <2>5, <1>4
    <3> HIDE DEF w, new
    <3>4. ASSUME NEW h \in 1 .. m + 1
          PROVE  w[h] = C[new[h]].command /\ \A j \in 1 .. new[h] - 1 : C[j].ack \/ \E x \in 1 .. h - 1 : new[x] = j
      <4>1. CASE h \in 1 .. m
        <5>1. v[h] = C[idx[h]].command /\ \A j \in 1 .. idx[h] - 1 : C[j].ack \/ \E x \in 1 .. h - 1 : idx[x] = j
          BY <4>1, <1>10 DEF Waiting
        <5>2. \A x \in 1 .. h - 1 : x \in 1 .. m BY <4>1, <2>1
        <5> QED BY <4>1, <5>1, <5>2, <3>1, <3>2
      <4>2. CASE h = m + 1
        <5>1. \A j \in 1 .. (k - 1) : C[j].ack \/ \E x \in 1 .. m : idx[x] = j
          BY <1>10 DEF Waiting
        <5>2. h - 1 = m BY <4>2, <2>1
        <5> QED BY <4>2, <5>1, <5>2, <3>1, <3>2
      <4> QED BY <4>1, <4>2, <2>1
    <3>5. ASSUME NEW j \in 1 .. k PROVE C[j].ack \/ \E h \in 1 .. m + 1 : new[h] = j
      <4>1. CASE j \in 1 .. (k - 1)
        <5>1. C[j].ack \/ \E x \in 1 .. m : idx[x] = j BY <4>1, <1>10 DEF Waiting
        <5>2. \A x \in 1 .. m : x \in 1 .. m + 1 BY <2>1
        <5> QED BY <5>1, <5>2, <3>2
      <4>2. CASE j = k
        <5>1. m + 1 \in 1 .. m + 1 BY <2>1
        <5> QED BY <4>2, <5>1, <3>2
      <4> QED BY <4>1, <4>2
    <3> HIDE DEF m
    <3>6. Waiting(C, k, w, new)
      BY <3>1, <3>2, <3>4, <3>5 DEF Waiting
    <3> QED BY <3>2, <3>3, <3>6
  <2> QED BY <2>4, <2>5
<1>11. iter[1 .. n] \in P[n]
  <2>1. <<>> \in P[0]
    <3>1. <<>> \in Seq(1 .. 0) /\ Len(<<>>) = 0 OBVIOUS
    <3>2. \A h : h \notin 1 .. 0 OBVIOUS
    <3>3. Waiting(C, 0, <<>>, <<>>) BY <3>1, <3>2 DEF Waiting
    <3>4. 0 \in 0 .. n BY <1>2
    <3> QED BY <3>1, <3>3, <3>4, <1>3
  <2>2. ASSUME NEW k \in 1 .. n, iter[1 .. (k - 1)] \in P[k - 1] PROVE iter[1 .. k] \in P[k]
    <3>1. k \in 0 .. n /\ k - 1 \in 0 .. n BY <1>2
    <3> DEFINE v == iter[1 .. (k - 1)]
    <3>2. v \in V /\ \E idx \in Seq(1 .. (k - 1)) : Waiting(C, k - 1, v, idx) BY <2>2, <3>1
    <3>3. iter[1 .. k] = g[k][v] BY <3>2, <1>4, <1>9
    <3> HIDE DEF v
    <3>4. g[k][v] \in V BY <3>2, <1>5
    <3>5. \E new \in Seq(1 .. k) : Waiting(C, k, g[k][v], new) BY <3>2, <1>10
    <3> QED BY <3>1, <3>3, <3>4, <3>5
  <2> HIDE DEF P
  <2> QED BY <1>2, <1>8, <2>1, <2>2, FoldStages
<1>12. n \in 0 .. n
  BY <1>2
<1>13. \E idx \in Seq(1 .. n) : Waiting(C, n, iter[1 .. n], idx)
  BY <1>11, <1>12
<1> QED BY <1>1, <1>2, <1>13 DEF C, n

\* The commands of a frame lead through stages, one command after the other.
LEMMA CommandsInStages ==
  ASSUME NEW S, NEW C0 \in Seq(S), NEW accept, NEW V, NEW so \in V, NEW P,
         \A h \in V, c \in S :
           Applied(h, CommandRefused(h.ledger, c), WithCommand(h.ledger, c, accept)) \in V,
         so \in P[0],
         \A k \in 1 .. Len(C0), h \in V : h \in P[k - 1] =>
           Applied(h, CommandRefused(h.ledger, C0[k]), WithCommand(h.ledger, C0[k], accept)) \in P[k]
  PROVE  CommandsHandled(so, C0, accept) \in V \cap P[Len(C0)]
<1> DEFINE C == C0
           n == Len(C)
           Op(v, k) == Applied(v, CommandRefused(v.ledger, C0[k]), WithCommand(v.ledger, C0[k], accept))
           g == [k \in 1 .. n |-> [v \in V |-> Op(v, k)]]
           Rec(f) == f = [s \in SUBSET DOMAIN C |-> IF s = {} THEN so ELSE Op(f[s \ {Max(s)}], Max(s))]
           iter == CHOOSE f : Rec(f)
<1>1. CommandsHandled(so, C0, accept) = iter[DOMAIN C]
  BY DEF CommandsHandled, FoldLeft, MapThenFoldSet
<1>2. n \in Nat /\ DOMAIN C = 1 .. n /\ \A k \in 1 .. n : C[k] \in S
  BY ElementIn
<1>3. \A k \in 1 .. n, h \in V : h \in P[k - 1] => Op(h, k) \in P[k]
  OBVIOUS
<1>4. \A k \in 1 .. n, v \in V : g[k][v] = Op(v, k) /\ Op(v, k) \in V
  BY <1>2
<1>12. n = Len(C0)
  OBVIOUS
<1> HIDE DEF C, n, Op, g
<1>5. \A k \in 1 .. n, v \in V : g[k][v] \in V
  BY <1>4
<1>6. \E f : Rec(f)
  <2>1. PICK f : FoldsInto(f, n, V, so, g)
    BY <1>2, <1>5, FoldExists
  <2>2. ASSUME NEW s \in SUBSET (1 .. n), s # {}
        PROVE  f[s] = Op(f[s \ {Max(s)}], Max(s))
    <3>1. Max(s) \in 1 .. n BY <1>2, <2>2, MaxOfIndices
    <3>2. f[s \ {Max(s)}] \in V BY <2>1 DEF FoldsInto
    <3> QED BY <2>1, <2>2, <3>1, <3>2, <1>4 DEF FoldsInto
  <2>3. f = [s \in SUBSET (1 .. n) |-> IF s = {} THEN so ELSE Op(f[s \ {Max(s)}], Max(s))]
    BY <2>1, <2>2 DEF FoldsInto
  <2> QED BY <2>3, <1>2
<1>7. Rec(iter)
  BY <1>6
<1> HIDE DEF iter
<1>8. iter[{}] = so
  BY <1>7, <1>2
<1>9. \A k \in 1 .. n : iter[1 .. k] = Op(iter[1 .. (k - 1)], k)
  <2> TAKE k \in 1 .. n
  <2>1. Max(1 .. k) = k /\ (1 .. k) \ {k} = 1 .. (k - 1) /\ 1 .. k # {} /\ 1 .. k \in SUBSET (1 .. n)
    BY <1>2, MaxOfPrefix
  <2> QED BY <2>1, <1>7, <1>2
<1> DEFINE Q == [k \in 0 .. n |-> V \cap P[k]]
<1>10. iter[1 .. n] \in Q[n]
  <2>1. so \in Q[0] BY <1>2
  <2>2. ASSUME NEW k \in 1 .. n, iter[1 .. (k - 1)] \in Q[k - 1] PROVE iter[1 .. k] \in Q[k]
    <3>1. k \in 0 .. n /\ k - 1 \in 0 .. n BY <1>2
    <3>2. iter[1 .. (k - 1)] \in V /\ iter[1 .. (k - 1)] \in P[k - 1] BY <2>2, <3>1
    <3> QED BY <3>1, <3>2, <1>3, <1>4, <1>9
  <2> HIDE DEF Q
  <2> QED BY <1>2, <1>8, <2>1, <2>2, FoldStages
<1>11. n \in 0 .. n /\ Q[n] = V \cap P[n]
  BY <1>2
<1> HIDE DEF Q
<1> QED BY <1>1, <1>2, <1>10, <1>11, <1>12

\* A good ledger that was given the first commands of C, i of them at least.
Given(C, L, i) ==
  /\ LedgerOK(L) /\ Reflects(L) /\ ~L.revoked
  /\ Len(L.commands) <= Len(C) /\ i <= Len(L.commands)
  /\ \A j \in 1 .. Len(L.commands) : L.commands[j].command = C[j].command

\* A list of commands.
Lists == {C \in Seq([command : Commands, ack : BOOLEAN]) : Lawful(C)}

\* What a list has.
LEMMA ListIs ==
  ASSUME NEW C \in Lists
  PROVE  /\ Lawful(C) /\ Len(C) \in Nat /\ DOMAIN C = 1 .. Len(C)
         /\ \A i \in 1 .. Len(C) : C[i].command \in Commands
<1> DEFINE I == [command : Commands, ack : BOOLEAN]
<1>1. C \in Seq(I) /\ Lawful(C)
  BY DEF Lists
<1>2. \A x \in I : x.command \in Commands
  OBVIOUS
<1> HIDE DEF I
<1>3. \A i \in 1 .. Len(C) : C[i] \in I
  BY <1>1, ElementIn
<1>4. Len(C) \in Nat /\ DOMAIN C = 1 .. Len(C)
  BY <1>1
<1> QED BY <1>1, <1>2, <1>3, <1>4

\* A command it has, or the next one, is not refused.
LEMMA NextIsTaken ==
  ASSUME NEW C \in Lists, NEW L, NEW m \in Nat, Given(C, L, m), NEW k \in 1 .. Len(C), k <= Len(L.commands) + 1,
         NEW accept \in BOOLEAN
  PROVE  LET M == WithCommand(L, C[k].command, accept) IN
         /\ ~CommandRefused(L, C[k].command) /\ Given(C, M, m) /\ k <= Len(M.commands)
         /\ Len(L.commands) <= Len(M.commands)
<1> DEFINE c == C[k].command
           M == WithCommand(L, c, accept)
           n == Len(L.commands)
<1>1. /\ Lawful(C) /\ Len(C) \in Nat /\ c \in Commands
      /\ \A i \in 1 .. Len(C) : C[i].command \in Commands
  BY ListIs
<1>2. /\ LedgerOK(L) /\ Reflects(L) /\ ~L.revoked /\ n <= Len(C) /\ m <= n
      /\ \A j \in 1 .. n : L.commands[j].command = C[j].command
  BY DEF Given
<1>3. L \in Ledgers /\ n \in Nat
  BY <1>2, ListOf DEF LedgerOK
<1>4. Issued(L) = Before(C, n)
  BY <1>2 DEF Issued, Before
<1> HIDE DEF M, n
<1>5. ~RefusedBy(Before(C, n), c)
  <2>1. CASE k \in 1 .. n
    BY <2>1, <1>1, <1>2, <1>3, TakenAgain
  <2>2. CASE k = n + 1
    <3>1. k - 1 = n BY <2>2, <1>3
    <3> QED BY <3>1, <1>1 DEF Lawful
  <2>3. k \in 1 .. n \/ k = n + 1 BY <1>3 DEF n
  <2> QED BY <2>1, <2>2, <2>3
<1>6. ~CommandRefused(L, c)
  BY <1>1, <1>2, <1>3, <1>4, <1>5, RefusalReflected
<1> HIDE DEF c
<1>7. /\ LedgerOK(M) /\ Reflects(M) /\ ~M.revoked
      /\ c \in Issued(L) => M.commands = L.commands
      /\ c \notin Issued(L) => M.commands = Append(L.commands, [command |-> c, ack |-> FALSE])
  BY <1>1, <1>2, <1>6, CommandReflected, CommandKeeps DEF M
<1>8. CASE k \in 1 .. n
  <2>1. c \in Issued(L) BY <1>4, <1>8 DEF Before, c
  <2>2. M.commands = L.commands BY <2>1, <1>7
  <2>3. k <= Len(M.commands) /\ Len(L.commands) <= Len(M.commands) BY <2>2, <1>3, <1>8 DEF n
  <2>4. Given(C, M, m) BY <2>2, <1>2, <1>7 DEF Given, n
  <2> QED BY <2>3, <2>4, <1>6 DEF M, c
<1>9. CASE k = n + 1
  <2>1. c \notin Issued(L)
    <3> SUFFICES ASSUME NEW i \in 1 .. n, C[i].command = c PROVE FALSE
      BY <1>4 DEF Before
    <3>1. i \in 1 .. Len(C) /\ k \in 1 .. Len(C) /\ i # k BY <1>1, <1>2, <1>3, <1>9
    <3> QED BY <3>1, <1>1 DEF Lawful, c
  <2> DEFINE A == Append(L.commands, [command |-> c, ack |-> FALSE])
  <2>2. Len(A) = n + 1 /\ A[n + 1] = [command |-> c, ack |-> FALSE] /\ \A i \in 1 .. n : A[i] = L.commands[i]
    <3>1. L.commands \in Seq([command : Commands, ack : BOOLEAN]) BY <1>3, ListOf
    <3> QED BY <3>1 DEF n
  <2>3. M.commands = A BY <2>1, <1>7
  <2> HIDE DEF A
  <2>4. Len(M.commands) = n + 1 /\ n + 1 <= Len(C) /\ m <= n + 1 /\ n <= n + 1 BY <2>2, <2>3, <1>1, <1>2, <1>3, <1>9
  <2>5. ASSUME NEW j \in 1 .. n + 1 PROVE M.commands[j].command = C[j].command
    <3>1. CASE j \in 1 .. n BY <3>1, <2>2, <2>3, <1>2
    <3>2. CASE j = n + 1
      <4>1. M.commands[j] = [command |-> c, ack |-> FALSE] BY <3>2, <2>2, <2>3
      <4>2. c = C[j].command BY <3>2, <1>9 DEF c
      <4> QED BY <4>1, <4>2
    <3> QED BY <3>1, <3>2, <1>3
  <2>6. Given(C, M, m) BY <2>4, <2>5, <1>7 DEF Given
  <2>7. k <= Len(M.commands) /\ Len(L.commands) <= Len(M.commands) BY <2>4, <1>3, <1>9 DEF n
  <2> QED BY <2>6, <2>7, <1>6 DEF M, c
<1>10. k \in 1 .. n \/ k = n + 1
  BY <1>3 DEF n
<1> QED BY <1>8, <1>9, <1>10

\* A command keeps a ledger good, whatever it is.
LEMMA CommandInTurn ==
  ASSUME NEW h \in Handled, LedgerOK(h.ledger), NEW c \in Commands, NEW accept \in BOOLEAN
  PROVE  Applied(h, CommandRefused(h.ledger, c), WithCommand(h.ledger, c, accept)) \in {x \in Handled : LedgerOK(x.ledger)}
<1> DEFINE V == {x \in Handled : LedgerOK(x.ledger)}
<1>1. ASSUME NEW N, LedgerOK(N), NEW ok \in BOOLEAN PROVE [ledger |-> N, ok |-> ok] \in V
  BY <1>1 DEF Handled, LedgerOK
<1>2. ~CommandRefused(h.ledger, c) => LedgerOK(WithCommand(h.ledger, c, accept))
  BY CommandKeeps
<1> HIDE DEF V
<1>3. Applied(h, CommandRefused(h.ledger, c), WithCommand(h.ledger, c, accept)) \in V
  BY <1>1, <1>2, AppliedIn
<1> QED BY <1>3 DEF V

\* A worker that has all that was confirmed takes the pending commands, in turn.
LEMMA PendingAreTaken ==
  ASSUME NEW K, LedgerOK(K), K.commands \in Lists, NEW L, NEW m \in Nat, Given(K.commands, L, m),
         \A i \in 1 .. Len(K.commands) : K.commands[i].ack => i <= m,
         NEW q, q = PendingCommands(K), NEW n \in 0 .. Len(q), NEW accept \in BOOLEAN
  PROVE  LET h == CommandsHandled([ledger |-> L, ok |-> TRUE], SubSeq(q, 1, n), accept) IN
         /\ h \in Handled /\ h.ok /\ Given(K.commands, h.ledger, m)
         /\ n = Len(q) => Len(h.ledger.commands) = Len(K.commands)
<1> DEFINE C == K.commands
           S == SubSeq(q, 1, n)
           V == {x \in Handled : LedgerOK(x.ledger)}
<1>1. K \in Ledgers /\ C \in Lists /\ Lawful(C) /\ Len(C) \in Nat /\ \A i \in 1 .. Len(C) : C[i].command \in Commands
  BY ListIs DEF LedgerOK
<1>2. q \in Seq(Commands)
  <2>1. \A i \in DOMAIN C : C[i].command \in Commands BY <1>1, ListIs
  <2> QED BY <2>1, <1>1, PendingAreCommands
<1>3. PICK idx \in Seq(1 .. Len(C)) : Waiting(C, Len(C), q, idx)
  BY <1>1, PendingInOrder
<1>4. /\ Len(idx) = Len(q) /\ Len(q) \in Nat
      /\ \A g \in 1 .. Len(q) : idx[g] \in 1 .. Len(C) /\ q[g] = C[idx[g]].command
      /\ \A g \in 1 .. Len(q) : \A j \in 1 .. idx[g] - 1 : C[j].ack \/ \E f \in 1 .. g - 1 : idx[f] = j
      /\ \A j \in 1 .. Len(C) : C[j].ack \/ \E g \in 1 .. Len(q) : idx[g] = j
  <2>1. Len(q) \in Nat BY <1>2
  <2>2. Len(idx) = Len(q) BY <1>3 DEF Waiting
  <2>3. \A g \in 1 .. Len(q) : idx[g] \in 1 .. Len(C) BY <2>2, ElementIn
  <2> QED BY <2>1, <2>2, <2>3, <1>3 DEF Waiting
<1>5. S \in Seq(Commands) /\ Len(S) = n /\ n \in Nat /\ \A k \in 1 .. n : S[k] = q[k] /\ k \in 1 .. Len(q)
  <2>1. \A k \in 1 .. n : k \in 1 .. Len(q) BY <1>4
  <2>2. \A k \in 1 .. n : q[k] \in Commands BY <2>1, <1>2, ElementIn
  <2> QED BY <2>1, <2>2, <1>2, <1>4
<1>6. L \in Ledgers /\ LedgerOK(L)
  BY DEF Given, LedgerOK
<1> HIDE DEF C, S
<1> DEFINE Reached(h, k) == /\ h.ok /\ Given(C, h.ledger, m)
                            /\ \A g \in 1 .. k : idx[g] <= Len(h.ledger.commands)
           P == [k \in 0 .. n |-> {h \in V : Reached(h, k)}]
           so == [ledger |-> L, ok |-> TRUE]
<1>7. so \in V /\ so \in P[0]
  <2>1. so \in V BY <1>6 DEF Handled
  <2>2. Given(C, so.ledger, m) BY DEF C
  <2>3. 0 \in 0 .. n /\ \A g : g \notin 1 .. 0 BY <1>5
  <2> HIDE DEF V
  <2> QED BY <2>1, <2>2, <2>3
<1>8. \A h \in V, c \in Commands :
        Applied(h, CommandRefused(h.ledger, c), WithCommand(h.ledger, c, accept)) \in V
  BY CommandInTurn
<1>9. ASSUME NEW k \in 1 .. n, NEW h \in V, h \in P[k - 1]
      PROVE  Applied(h, CommandRefused(h.ledger, S[k]), WithCommand(h.ledger, S[k], accept)) \in P[k]
  <2> DEFINE N == WithCommand(h.ledger, S[k], accept)
             j == idx[k]
             l == Len(h.ledger.commands)
  <2>1. k - 1 \in 0 .. n /\ k \in 0 .. n /\ k \in 1 .. Len(q) BY <1>5
  <2>2. Reached(h, k - 1) /\ h \in Handled /\ LedgerOK(h.ledger) BY <1>9, <2>1
  <2>3. h.ledger \in Ledgers /\ l \in Nat /\ m <= l BY <2>2, ListOf DEF LedgerOK, Given
  <2>4. j \in 1 .. Len(C) /\ S[k] = C[j].command BY <2>1, <1>4, <1>5
  <2>5. j <= l + 1
    <3>1. CASE j = 1 BY <3>1, <2>3
    <3>2. CASE j # 1
      <4>1. j - 1 \in 1 .. j - 1 /\ j - 1 \in 1 .. Len(C) BY <3>2, <2>4
      <4>2. C[j - 1].ack \/ \E f \in 1 .. k - 1 : idx[f] = j - 1 BY <4>1, <2>1, <1>4
      <4>3. C[j - 1].ack => j - 1 <= m BY <4>1 DEF C
      <4>4. \A f \in 1 .. k - 1 : idx[f] <= l BY <2>2
      <4>5. j - 1 <= l BY <4>2, <4>3, <4>4, <2>3, <2>4
      <4> QED BY <4>5, <2>3, <2>4
    <3> QED BY <3>1, <3>2
  <2> HIDE DEF N, j, l
  <2>6. /\ ~CommandRefused(h.ledger, S[k]) /\ Given(C, N, m) /\ j <= Len(N.commands) /\ l <= Len(N.commands)
    BY <2>2, <2>4, <2>5, <1>1, NextIsTaken DEF N, l
  <2>7. Applied(h, CommandRefused(h.ledger, S[k]), N) = [ledger |-> N, ok |-> TRUE]
    BY <2>2, <2>6 DEF Applied, Handled
  <2>8. [ledger |-> N, ok |-> TRUE] \in V
    BY <2>6 DEF Handled, Given, LedgerOK
  <2>9. N \in Ledgers /\ Len(N.commands) \in Nat BY <2>6, ListOf DEF Given, LedgerOK
  <2>10. ASSUME NEW g \in 1 .. k PROVE idx[g] <= Len(N.commands)
    <3>1. CASE g = k BY <3>1, <2>6 DEF j
    <3>2. CASE g \in 1 .. k - 1
      <4>1. idx[g] <= l BY <3>2, <2>2 DEF l
      <4>2. idx[g] \in 1 .. Len(C) BY <2>1, <1>4
      <4> QED BY <4>1, <4>2, <2>3, <2>6, <2>9
    <3> QED BY <3>1, <3>2
  <2>11. Reached([ledger |-> N, ok |-> TRUE], k) BY <2>6, <2>10
  <2> HIDE DEF V, Reached
  <2> QED BY <2>1, <2>7, <2>8, <2>11 DEF N
<1> DEFINE h == CommandsHandled(so, S, accept)
<1>10. h \in V \cap P[n]
  <2> HIDE DEF V, P, so
  <2>1. \A k \in 1 .. Len(S), x \in V : x \in P[k - 1] =>
          Applied(x, CommandRefused(x.ledger, S[k]), WithCommand(x.ledger, S[k], accept)) \in P[k]
    BY <1>5, <1>9
  <2>2. CommandsHandled(so, S, accept) \in V \cap P[Len(S)]
    BY <1>5, <1>7, <1>8, <2>1, CommandsInStages
  <2> QED BY <2>2, <1>5
<1>11. n \in 0 .. n
  BY <1>5
<1> HIDE DEF h, so
<1>12. h \in Handled /\ Reached(h, n)
  BY <1>10, <1>11
<1>13. ASSUME n = Len(q) PROVE Len(h.ledger.commands) = Len(C)
  <2> DEFINE l == Len(h.ledger.commands)
  <2>1. l \in Nat /\ l <= Len(C) /\ m <= l BY <1>12, ListOf DEF Given, LedgerOK
  <2>2. CASE Len(C) = 0 BY <2>1, <2>2
  <2>3. CASE Len(C) # 0
    <3>1. Len(C) \in 1 .. Len(C) BY <2>3, <1>1 DEF C
    <3>2. C[Len(C)].ack \/ \E g \in 1 .. Len(q) : idx[g] = Len(C) BY <3>1, <1>4 DEF C
    <3>3. C[Len(C)].ack => Len(C) <= m BY <3>1 DEF C
    <3>4. \A g \in 1 .. Len(q) : idx[g] <= l BY <1>12, <1>13
    <3>5. Len(C) <= l BY <3>2, <3>3, <3>4, <2>1, <3>1
    <3> QED BY <3>1, <3>5, <2>1
  <2> QED BY <2>2, <2>3
<1> QED BY <1>12, <1>13 DEF h, so, S, C

-----------------------------------------------------------------------------
(* The transactions that give a ledger no command.                          *)

\* Two of them after one another.
LEMMA AlikeOn ==
  ASSUME NEW L, NEW M, NEW N, NEW R, NEW S, NEW U, NEW W, Alike(L, M, R, U), Alike(M, N, S, W)
  PROVE  Alike(L, N, R \cup S, U \cup W)
<1>1. /\ N \in Ledgers /\ N.sess = L.sess /\ N.revoked = L.revoked /\ Len(N.commands) = Len(L.commands)
      /\ Len(M.commands) = Len(L.commands)
  BY DEF Alike
<1>2. \A o \in Operations :
        N.op[o].session = L.op[o].session /\ (N.chunks[o] = "stored" => L.chunks[o] = "stored" \/ o \in U \cup W)
  BY DEF Alike
<1>3. \A i \in 1 .. Len(L.commands) :
        /\ N.commands[i].command = L.commands[i].command
        /\ N.commands[i].ack => L.commands[i].ack \/ L.commands[i].command \in R \cup S
  <2> TAKE i \in 1 .. Len(L.commands)
  <2>1. /\ M.commands[i].command = L.commands[i].command
        /\ M.commands[i].ack => L.commands[i].ack \/ L.commands[i].command \in R
    BY DEF Alike
  <2>2. /\ N.commands[i].command = M.commands[i].command
        /\ N.commands[i].ack => M.commands[i].ack \/ M.commands[i].command \in S
    BY <1>1 DEF Alike
  <2> QED BY <2>1, <2>2
<1> QED BY <1>1, <1>2, <1>3 DEF Alike

\* A ledger with other replies, events or receipts of events.
LEMMA AlikeWith ==
  ASSUME NEW L \in Ledgers, NEW M \in Ledgers, M.sess = L.sess, M.revoked = L.revoked,
         M.commands = L.commands, M.chunks = L.chunks,
         \A o \in Operations : M.op[o].session = L.op[o].session
  PROVE  Alike(L, M, {}, {})
BY DEF Alike

\* Receipts.
LEMMA AcknowledgedAlike ==
  ASSUME NEW L \in Ledgers, NEW r, Acknowledged(L, r) \in Ledgers
  PROVE  Alike(L, Acknowledged(L, r), r.commands, {})
<1> DEFINE M == Acknowledged(L, r)
           com == [i \in DOMAIN L.commands |-> IF L.commands[i].command \in r.commands
                                               THEN [L.commands[i] EXCEPT !.ack = TRUE] ELSE L.commands[i]]
           chu == [o \in Operations |-> IF o \in r.chunks THEN "confirmed" ELSE L.chunks[o]]
<1>1. /\ M.commands = com /\ M.chunks = chu /\ M.op = L.op /\ M.sess = L.sess /\ M.revoked = L.revoked
      /\ M \in Ledgers
  BY DEF Acknowledged, Ledgers
<1>2. /\ L.commands \in Seq([command : Commands, ack : BOOLEAN]) /\ Len(L.commands) \in Nat
      /\ DOMAIN L.commands = 1 .. Len(L.commands)
  BY ListOf
<1>3. ASSUME NEW i \in 1 .. Len(L.commands)
      PROVE  /\ com[i].command = L.commands[i].command
             /\ com[i].ack => L.commands[i].ack \/ L.commands[i].command \in r.commands
  <2>1. L.commands[i] \in [command : Commands, ack : BOOLEAN] BY <1>2, ElementIn
  <2>2. com[i] = IF L.commands[i].command \in r.commands
                 THEN [L.commands[i] EXCEPT !.ack = TRUE] ELSE L.commands[i]
    BY <1>2
  <2> HIDE DEF com
  <2> QED BY <2>1, <2>2
<1>4. Len(com) = Len(L.commands)
  <2>1. M.commands \in Seq([command : Commands, ack : BOOLEAN]) BY <1>1, ListOf
  <2>2. DOMAIN com = 1 .. Len(com) /\ Len(com) \in Nat
    <3>1. com \in Seq([command : Commands, ack : BOOLEAN]) BY <1>1, <2>1
    <3> HIDE DEF com
    <3> QED BY <3>1
  <2>3. DOMAIN com = 1 .. Len(L.commands) BY <1>2
  <2> HIDE DEF com
  <2>4. 1 .. Len(com) = 1 .. Len(L.commands) BY <2>2, <2>3
  <2> QED BY <2>2, <2>4, <1>2
<1>5. \A o \in Operations : chu[o] = "stored" => L.chunks[o] = "stored"
  OBVIOUS
<1> HIDE DEF com, chu, M
<1> QED BY <1>1, <1>3, <1>4, <1>5 DEF Alike, M

\* Compaction.
LEMMA ReclaimedAlike ==
  ASSUME NEW L \in Ledgers, Reclaimed(L) \in Ledgers
  PROVE  Alike(L, Reclaimed(L), {}, {})
<1> DEFINE M == Reclaimed(L)
           done == {s \in Sessions : Reclaimable(L, s)}
<1>1. /\ M \in Ledgers /\ M.sess = L.sess /\ M.revoked = L.revoked /\ M.commands = L.commands /\ M.chunks = L.chunks
      /\ M.op = [o \in Operations |-> [L.op[o] EXCEPT !.retired = @ \/ L.op[o].session \in done]]
  BY DEF Reclaimed, Ledgers
<1> HIDE DEF M, done
<1>2. \A o \in Operations : M.op[o].session = L.op[o].session
  <2> TAKE o \in Operations
  <2>1. L.op[o] \in Rows BY DEF Ledgers
  <2>2. M.op[o] = [L.op[o] EXCEPT !.retired = @ \/ L.op[o].session \in done] BY <1>1
  <2> QED BY <2>1, <2>2 DEF Rows
<1> QED BY <1>1, <1>2, AlikeWith DEF M

\* A chunk.
LEMMA ChunkAlike ==
  ASSUME NEW L, LedgerOK(L), NEW o
  PROVE  Alike(L, WithChunk(L, o), {}, {o})
<1> DEFINE M == WithChunk(L, o)
<1>1. L \in Ledgers /\ M \in Ledgers
  BY ChunkKeeps DEF LedgerOK
<1>2. /\ M.sess = L.sess /\ M.revoked = L.revoked /\ M.commands = L.commands /\ M.op = L.op
      /\ M.chunks = [L.chunks EXCEPT ![o] = IF @ = None THEN "stored" ELSE @]
  BY <1>1 DEF WithChunk, Ledgers
<1> HIDE DEF M
<1>3. \A p \in Operations : M.chunks[p] = "stored" => L.chunks[p] = "stored" \/ p \in {o}
  <2>1. L.chunks \in [Operations -> {None, "stored", "confirmed"}] BY <1>1 DEF Ledgers
  <2> QED BY <2>1, <1>2
<1> QED BY <1>1, <1>2, <1>3 DEF Alike, M

\* A reply.
LEMMA ReplyAlike ==
  ASSUME NEW L \in Ledgers, NEW s, NEW kind, WithReply(L, s, kind) \in Ledgers
  PROVE  Alike(L, WithReply(L, s, kind), {}, {})
<1> DEFINE M == WithReply(L, s, kind)
<1>1. /\ M.sess = L.sess /\ M.revoked = L.revoked /\ M.commands = L.commands /\ M.op = L.op /\ M.chunks = L.chunks
      /\ M \in Ledgers
  BY DEF WithReply, Ledgers
<1> HIDE DEF M
<1> QED BY <1>1, AlikeWith DEF M

\* An event.
LEMMA RecordedAlike ==
  ASSUME NEW L \in Ledgers, NEW o, NEW kind, Recorded(L, o, kind) \in Ledgers
  PROVE  Alike(L, Recorded(L, o, kind), {}, {})
<1> DEFINE M == Recorded(L, o, kind)
<1>1. /\ M.sess = L.sess /\ M.revoked = L.revoked /\ M.commands = L.commands /\ M.chunks = L.chunks
      /\ M.op = [L.op EXCEPT ![o] = [L.op[o] EXCEPT !.events = Append(@, kind)]]
      /\ M \in Ledgers
  BY DEF Recorded, Ledgers
<1> HIDE DEF M
<1>2. \A p \in Operations : M.op[p].session = L.op[p].session
  <2> TAKE p \in Operations
  <2>1. L.op \in [Operations -> Rows] BY DEF Ledgers
  <2>2. p # o => M.op[p] = L.op[p] BY <1>1, <2>1
  <2>3. p = o => M.op[p] = [L.op[o] EXCEPT !.events = Append(@, kind)] BY <1>1, <2>1
  <2>4. L.op[p] \in Rows BY <2>1
  <2> QED BY <2>2, <2>3, <2>4 DEF Rows
<1> QED BY <1>1, <1>2, AlikeWith DEF M

\* An event of the peer, known or not.
LEMMA EventAlike ==
  ASSUME NEW L \in Ledgers, NEW e, e.operation \in Operations, e.kind \in Kinds
  PROVE  WithEvent(L, e) \in Ledgers /\ Alike(L, WithEvent(L, e), {}, {})
<1> DEFINE o == e.operation
           M == WithEvent(L, e)
           q == IF EventKnown(L, e) THEN L.op[o].events ELSE Append(L.op[o].events, e.kind)
<1>1. L.op \in [Operations -> Rows] /\ L.op[o] \in Rows
  BY DEF Ledgers
<1>2. q \in Seq(Kinds)
  BY <1>1 DEF Rows
<1> HIDE DEF q
<1>3. M = [L EXCEPT !.op = [L.op EXCEPT ![o] = [L.op[o] EXCEPT !.events = q]]]
  BY DEF WithEvent, q
<1> DEFINE r == [L.op[o] EXCEPT !.events = q]
           ops == [L.op EXCEPT ![o] = r]
<1>4. r \in Rows /\ r.session = L.op[o].session
  <2> HIDE DEF o
  <2> QED BY <1>1, <1>2 DEF Rows
<1> HIDE DEF r, M
<1>5. ops \in [Operations -> Rows] /\ \A p \in Operations : ops[p].session = L.op[p].session
  BY <1>1, <1>4
<1> HIDE DEF ops
<1>6. M = [L EXCEPT !.op = ops]
  BY <1>3 DEF ops, r
<1>7. /\ M \in Ledgers /\ M.op = ops /\ M.sess = L.sess /\ M.revoked = L.revoked /\ M.commands = L.commands
      /\ M.chunks = L.chunks
  BY <1>5, <1>6 DEF Ledgers
<1> QED BY <1>5, <1>7, AlikeWith DEF M

\* Storing a frame gives the coordinator no command; the commands it has receipts of are
\* the worker's.
LEMMA StoringAlike ==
  ASSUME LedgerOK(coord), LedgerOK(worker), Follows(coord), NEW frame \in FramesToCoordinator
  PROVE  Alike(coord, CoordinatorStores(frame).ledger, frame.commands, {})
<1> DEFINE bare == [frame EXCEPT !.events = {}, !.replies = {}]
           acked == Acknowledged(coord, bare)
           so == [ledger |-> acked, ok |-> TRUE]
           E == frame.events
           V == {h \in Handled : Alike(acked, h.ledger, {}, {})}
           P == [K \in SUBSET E |-> V]
           stored == EventsHandled(so, E)
           L == stored.ledger
           rep == [s \in Sessions |-> L.replies[s] \cup {w.reply : w \in {v \in frame.replies : v.session = s}}]
           M == [L EXCEPT !.replies = rep]
<1>1. /\ IsFiniteSet(E) /\ E \in SUBSET PendingEvents(worker)
      /\ \A e \in E : e.operation \in Operations /\ e.sequence \in Nat
      /\ bare.events = {} /\ bare.replies = {} /\ bare.commands = frame.commands
  BY FrameToCoordinator
<1>2. LedgerOK(acked) /\ acked \in Ledgers /\ coord \in Ledgers
  BY <1>1, PlainReceiptsKeep DEF LedgerOK
<1>3. Alike(coord, acked, frame.commands, {})
  BY <1>1, <1>2, AcknowledgedAlike
<1> HIDE DEF bare, acked
<1>4. Alike(acked, acked, {}, {})
  BY <1>2, AlikeWith
<1>5. so \in V
  BY <1>2, <1>4 DEF Handled
<1>6. ASSUME NEW h \in V, NEW e \in E
      PROVE  Applied(h, EventRefused(h.ledger, e), WithEvent(h.ledger, e)) \in V
  <2> DEFINE N == WithEvent(h.ledger, e)
  <2>1. h \in Handled /\ Alike(acked, h.ledger, {}, {}) /\ h.ledger \in Ledgers BY DEF Handled
  <2>2. e.kind \in Kinds
    <3>1. e.sequence \in 1 .. Len(worker.op[e.operation].events) /\ e.kind = worker.op[e.operation].events[e.sequence]
      BY <1>1, EventOfWorker
    <3>2. worker.op[e.operation].events \in Seq(Kinds) BY <1>1, StateOf DEF LedgerOK
    <3> QED BY <3>1, <3>2, ElementIn
  <2>3. N \in Ledgers /\ Alike(h.ledger, N, {}, {}) BY <1>1, <2>1, <2>2, EventAlike
  <2> HIDE DEF N
  <2>4. Alike(acked, N, {} \cup {}, {} \cup {}) BY <2>1, <2>3, AlikeOn
  <2>5. Alike(acked, N, {}, {}) BY <2>4
  <2>6. \A ok \in BOOLEAN : [ledger |-> h.ledger, ok |-> ok] \in V BY <2>1 DEF Handled
  <2>7. \A ok \in BOOLEAN : [ledger |-> N, ok |-> ok] \in V BY <2>3, <2>5 DEF Handled
  <2> HIDE DEF V
  <2> QED BY <2>1, <2>6, <2>7, AppliedIn DEF N
<1>7. stored \in V
  <2>1. so \in P[{}] BY <1>5
  <2>2. \A K \in SUBSET E, h \in V, e \in E :
          InTurn(E, K, e) /\ h \in P[K] => Applied(h, EventRefused(h.ledger, e), WithEvent(h.ledger, e)) \in P[K \cup {e}]
    <3> SUFFICES ASSUME NEW K \in SUBSET E, NEW h \in V, NEW e \in E
                 PROVE  Applied(h, EventRefused(h.ledger, e), WithEvent(h.ledger, e)) \in P[K \cup {e}]
      OBVIOUS
    <3>1. K \cup {e} \in SUBSET E OBVIOUS
    <3> HIDE DEF V
    <3> QED BY <3>1, <1>6
  <2>3. \A e \in E : e.sequence \in Nat BY <1>1
  <2> HIDE DEF P, V, so, E, stored
  <2>4. EventsHandled(so, E) \in V \cap P[E]
    BY <1>1, <1>5, <1>6, <2>1, <2>2, <2>3, EventsInTurn
  <2> QED BY <2>4 DEF stored
<1>8. CoordinatorStores(frame) =
        [stored EXCEPT !.ledger.replies =
           [s \in Sessions |-> @[s] \cup {w.reply : w \in {v \in frame.replies : v.session = s}}]]
  BY DEF CoordinatorStores, stored, so, acked, bare
<1> HIDE DEF so, stored
<1>9. stored \in Handled /\ Alike(acked, L, {}, {}) /\ L \in Ledgers
  BY <1>7 DEF Handled
<1>10. CoordinatorStores(frame).ledger = M
  BY <1>8, <1>9 DEF Handled
<1>11. M \in Ledgers
  BY <1>10, StoringKeeps DEF LedgerOK
<1> HIDE DEF L, rep
<1>12. M.sess = L.sess /\ M.revoked = L.revoked /\ M.commands = L.commands /\ M.chunks = L.chunks /\ M.op = L.op
  BY <1>9 DEF Ledgers
<1> HIDE DEF M
<1>13. Alike(L, M, {}, {})
  BY <1>9, <1>11, <1>12, AlikeWith
<1>14. Alike(acked, M, {} \cup {}, {} \cup {})
  BY <1>9, <1>13, AlikeOn
<1>15. Alike(coord, M, frame.commands \cup ({} \cup {}), {} \cup ({} \cup {}))
  BY <1>3, <1>14, AlikeOn
<1>16. Alike(coord, M, frame.commands, {})
  BY <1>15
<1> QED BY <1>10, <1>16

\* The commands the worker confirms are of its list.
LEMMA ReceiptsOfCommands ==
  ASSUME worker \in Ledgers, NEW frame \in FramesToCoordinator
  PROVE  frame.commands \subseteq Issued(worker)
<1> DEFINE q == First(PendingCommands(worker))
           S == Issued(worker)
<1>1. frame.commands = Range(q)
  BY DEF FramesToCoordinator
<1>2. \A i \in DOMAIN worker.commands : worker.commands[i].command \in S
  <2>1. DOMAIN worker.commands = 1 .. Len(worker.commands) BY ListOf
  <2> QED BY <2>1 DEF Issued, Before
<1> HIDE DEF q, S
<1>3. PendingCommands(worker) \in Seq(S)
  BY <1>2, PendingAreCommands
<1>4. q \in Seq(S)
  BY <1>3, HeadOfQueue DEF q
<1>5. Range(q) \subseteq S
  <2> SUFFICES ASSUME NEW i \in DOMAIN q PROVE q[i] \in S
    BY DEF Range
  <2>1. i \in 1 .. Len(q) BY <1>4
  <2> QED BY <2>1, <1>4, ElementIn
<1> QED BY <1>1, <1>5 DEF S

-----------------------------------------------------------------------------
(* The two lists of commands agree.                                         *)

\* Until it is revoked the coordinator's list says what its ledger is, and the worker's list
\* is a beginning of it that what is confirmed does not run ahead of.
Agreed ==
  ~coord.revoked =>
    /\ ~worker.revoked /\ Reflects(coord) /\ Reflects(worker) /\ Lawful(coord.commands)
    /\ Len(worker.commands) <= Len(coord.commands)
    /\ \A i \in 1 .. Len(worker.commands) : worker.commands[i].command = coord.commands[i].command
    /\ \A i \in 1 .. Len(coord.commands) : coord.commands[i].ack => i <= Len(worker.commands)
    /\ \A o \in Operations : coord.chunks[o] = "stored" => Exists(coord, o)

\* Lists of the same commands.
LEMMA LawfulOf ==
  ASSUME NEW C, NEW D, Len(D) = Len(C), Len(C) \in Nat, \A i \in 1 .. Len(C) : D[i].command = C[i].command, Lawful(C)
  PROVE  Lawful(D)
<1> SUFFICES ASSUME NEW k \in 1 .. Len(C)
             PROVE  ~RefusedBy(Before(D, k - 1), D[k].command) /\ \A i \in 1 .. Len(C) : D[i].command = D[k].command => i = k
  BY DEF Lawful
<1>1. Before(D, k - 1) = Before(C, k - 1)
  <2>1. \A i \in 1 .. k - 1 : i \in 1 .. Len(C) OBVIOUS
  <2> QED BY <2>1 DEF Before
<1> QED BY <1>1 DEF Lawful

\* A list with one more command that was not refused.
LEMMA LawfulOn ==
  ASSUME NEW C \in Lists, NEW c \in Commands, ~RefusedBy(Before(C, Len(C)), c), c \notin Before(C, Len(C))
  PROVE  Lawful(Append(C, [command |-> c, ack |-> FALSE]))
<1> DEFINE A == Append(C, [command |-> c, ack |-> FALSE])
           n == Len(C)
<1>1. Lawful(C) /\ n \in Nat
  BY ListIs
<1>2. Len(A) = n + 1 /\ A[n + 1] = [command |-> c, ack |-> FALSE] /\ \A i \in 1 .. n : A[i] = C[i]
  BY DEF Lists
<1> HIDE DEF A, n
<1>3. ASSUME NEW k \in 1 .. n + 1 PROVE ~RefusedBy(Before(A, k - 1), A[k].command)
  <2>1. Before(A, k - 1) = Before(C, k - 1)
    <3>1. \A i \in 1 .. k - 1 : i \in 1 .. n BY <1>1
    <3> QED BY <3>1, <1>2 DEF Before
  <2>2. CASE k \in 1 .. n
    BY <2>1, <2>2, <1>1, <1>2 DEF Lawful, n
  <2>3. CASE k = n + 1
    <3>1. k - 1 = n /\ A[k].command = c BY <2>3, <1>1, <1>2
    <3> QED BY <3>1, <2>1 DEF n
  <2> QED BY <2>2, <2>3, <1>1
<1>4. ASSUME NEW i \in 1 .. n PROVE C[i].command # c
  BY DEF Before, n
<1>5. ASSUME NEW k \in 1 .. n + 1, NEW i \in 1 .. n + 1, A[i].command = A[k].command PROVE i = k
  <2>1. CASE i \in 1 .. n /\ k \in 1 .. n
    BY <2>1, <1>1, <1>2, <1>5 DEF Lawful, n
  <2>2. CASE i \in 1 .. n /\ k = n + 1
    <3>1. A[k].command = c /\ A[i].command = C[i].command BY <2>2, <1>2
    <3> QED BY <3>1, <2>2, <1>4, <1>5
  <2>3. CASE k \in 1 .. n /\ i = n + 1
    <3>1. A[i].command = c /\ A[k].command = C[k].command BY <2>3, <1>2
    <3> QED BY <3>1, <2>3, <1>4, <1>5
  <2>4. (i \in 1 .. n \/ i = n + 1) /\ (k \in 1 .. n \/ k = n + 1) BY <1>1
  <2> QED BY <2>1, <2>2, <2>3, <2>4
<1> QED BY <1>2, <1>3, <1>5 DEF Lawful, A

\* The coordinator's ledger after a transaction that gives it no command.
LEMMA CoordinatorAgrees ==
  ASSUME Agreed, coord \in Ledgers, worker \in Ledgers, worker' = worker, NEW R, NEW U, Alike(coord, coord', R, U),
         R \subseteq Issued(worker), \A o \in U : Exists(coord, o)
  PROVE  Agreed'
<1> SUFFICES ASSUME ~coord'.revoked
             PROVE  /\ Reflects(coord') /\ Lawful(coord'.commands)
                    /\ ~worker.revoked /\ Reflects(worker)
                    /\ Len(worker.commands) <= Len(coord'.commands)
                    /\ \A i \in 1 .. Len(worker.commands) : worker.commands[i].command = coord'.commands[i].command
                    /\ \A i \in 1 .. Len(coord'.commands) : coord'.commands[i].ack => i <= Len(worker.commands)
                    /\ \A o \in Operations : coord'.chunks[o] = "stored" => Exists(coord', o)
  BY DEF Agreed, Reflects, Issued, Exists
<1>1. /\ ~coord.revoked /\ coord'.revoked = coord.revoked /\ Len(coord'.commands) = Len(coord.commands)
      /\ \A i \in 1 .. Len(coord.commands) :
           /\ coord'.commands[i].command = coord.commands[i].command
           /\ coord'.commands[i].ack => coord.commands[i].ack \/ coord.commands[i].command \in R
      /\ \A o \in Operations : /\ Exists(coord', o) <=> Exists(coord, o)
                               /\ coord'.chunks[o] = "stored" => coord.chunks[o] = "stored" \/ o \in U
  BY DEF Alike, Exists
<1>2. /\ ~worker.revoked /\ Reflects(coord) /\ Reflects(worker) /\ Lawful(coord.commands)
      /\ Len(worker.commands) <= Len(coord.commands)
      /\ \A i \in 1 .. Len(worker.commands) : worker.commands[i].command = coord.commands[i].command
      /\ \A i \in 1 .. Len(coord.commands) : coord.commands[i].ack => i <= Len(worker.commands)
      /\ \A o \in Operations : coord.chunks[o] = "stored" => Exists(coord, o)
  BY <1>1 DEF Agreed
<1>3. Len(worker.commands) \in Nat /\ Len(coord.commands) \in Nat
  BY ListOf
<1>4. \A i \in 1 .. Len(worker.commands) : i \in 1 .. Len(coord.commands)
  BY <1>2, <1>3
<1>5. Reflects(coord')
  BY <1>2, AlikeReflects
<1>6. Lawful(coord'.commands)
  BY <1>1, <1>2, <1>3, LawfulOf
<1>7. ASSUME NEW i \in 1 .. Len(coord.commands), coord'.commands[i].ack PROVE i <= Len(worker.commands)
  <2>1. CASE coord.commands[i].ack BY <2>1, <1>2
  <2>2. CASE coord.commands[i].command \in R
    <3>1. PICK j \in 1 .. Len(worker.commands) : worker.commands[j].command = coord.commands[i].command
      BY <2>2 DEF Issued, Before
    <3>2. coord.commands[j].command = coord.commands[i].command /\ j \in 1 .. Len(coord.commands) BY <3>1, <1>2, <1>4
    <3>3. j = i BY <3>2, <1>2 DEF Lawful
    <3> QED BY <3>3, <1>3
  <2> QED BY <2>1, <2>2, <1>1, <1>7
<1> QED BY <1>1, <1>2, <1>4, <1>5, <1>6, <1>7

\* The worker's ledger after a transaction that gives it no command.
LEMMA WorkerAgrees ==
  ASSUME Agreed, coord' = coord, worker \in Ledgers, NEW R, NEW U, Alike(worker, worker', R, U)
  PROVE  Agreed'
<1> SUFFICES ASSUME ~coord.revoked
             PROVE  /\ Reflects(coord) /\ Lawful(coord.commands)
                    /\ ~worker'.revoked /\ Reflects(worker')
                    /\ Len(worker'.commands) <= Len(coord.commands)
                    /\ \A i \in 1 .. Len(worker'.commands) : worker'.commands[i].command = coord.commands[i].command
                    /\ \A i \in 1 .. Len(coord.commands) : coord.commands[i].ack => i <= Len(worker'.commands)
                    /\ \A o \in Operations : coord.chunks[o] = "stored" => Exists(coord, o)
  BY DEF Agreed, Reflects, Issued, Exists
<1>1. /\ worker'.revoked = worker.revoked /\ Len(worker'.commands) = Len(worker.commands)
      /\ \A i \in 1 .. Len(worker.commands) : worker'.commands[i].command = worker.commands[i].command
  BY DEF Alike
<1>2. Reflects(worker) => Reflects(worker')
  BY AlikeReflects
<1> QED BY <1>1, <1>2 DEF Agreed

\* A command that the coordinator saves.
LEMMA SaveAgrees ==
  ASSUME Agreed, LedgerOK(coord), worker \in Ledgers, worker' = worker, NEW c \in Commands, Save(c)
  PROVE  Agreed'
<1>1. coord' = WithCommand(coord, c, TRUE) /\ ~CommandRefused(coord, c) /\ coord \in Ledgers
  BY DEF Save, LedgerOK
<1>2. coord'.revoked = coord.revoked
  BY <1>1 DEF WithCommand, Ledgers
<1> SUFFICES ASSUME ~coord.revoked
             PROVE  /\ Reflects(coord') /\ Lawful(coord'.commands)
                    /\ ~worker.revoked /\ Reflects(worker)
                    /\ Len(worker.commands) <= Len(coord'.commands)
                    /\ \A i \in 1 .. Len(worker.commands) : worker.commands[i].command = coord'.commands[i].command
                    /\ \A i \in 1 .. Len(coord'.commands) : coord'.commands[i].ack => i <= Len(worker.commands)
                    /\ \A o \in Operations : coord'.chunks[o] = "stored" => Exists(coord', o)
  BY <1>2 DEF Agreed, Reflects, Issued, Exists
<1> DEFINE C == coord.commands
           n == Len(C)
           D == coord'.commands
<1>3. /\ ~worker.revoked /\ Reflects(coord) /\ Reflects(worker) /\ Lawful(C)
      /\ Len(worker.commands) <= n
      /\ \A i \in 1 .. Len(worker.commands) : worker.commands[i].command = C[i].command
      /\ \A i \in 1 .. n : C[i].ack => i <= Len(worker.commands)
      /\ \A o \in Operations : coord.chunks[o] = "stored" => Exists(coord, o)
  BY DEF Agreed
<1>4. /\ Reflects(coord') /\ coord'.chunks = coord.chunks
      /\ c \in Issued(coord) => D = C
      /\ c \notin Issued(coord) => D = Append(C, [command |-> c, ack |-> FALSE])
  BY <1>1, <1>3, CommandReflected
<1>5. \A o \in Operations : Exists(coord, o) => Exists(coord', o)
  BY <1>1, CommandKeeps DEF Keeps
<1>6. n \in Nat /\ Len(worker.commands) \in Nat /\ C \in Seq([command : Commands, ack : BOOLEAN])
  BY <1>1, ListOf
<1>7. ~RefusedBy(Issued(coord), c)
  BY <1>1, <1>3, RefusalReflected
<1> HIDE DEF C, D, n
<1>8. /\ Lawful(D) /\ Len(worker.commands) <= Len(D)
      /\ \A i \in 1 .. Len(worker.commands) : worker.commands[i].command = D[i].command
      /\ \A i \in 1 .. Len(D) : D[i].ack => i <= Len(worker.commands)
  <2>1. CASE c \in Issued(coord)
    <3>1. D = C BY <2>1, <1>4
    <3> QED BY <3>1, <1>3 DEF n
  <2>2. CASE c \notin Issued(coord)
    <3>1. D = Append(C, [command |-> c, ack |-> FALSE]) BY <2>2, <1>4
    <3>2. C \in Lists BY <1>3, <1>6 DEF Lists
    <3>3. Issued(coord) = Before(C, Len(C)) BY DEF Issued, C
    <3>4. Lawful(D) BY <3>1, <3>2, <3>3, <2>2, <1>7, LawfulOn
    <3>5. Len(D) = n + 1 /\ D[n + 1] = [command |-> c, ack |-> FALSE] /\ \A i \in 1 .. n : D[i] = C[i]
      BY <3>1, <1>6 DEF n
    <3>6. \A i \in 1 .. Len(worker.commands) : i \in 1 .. n BY <1>3, <1>6
    <3>7. ASSUME NEW i \in 1 .. n + 1, D[i].ack PROVE i <= Len(worker.commands)
      <4>1. CASE i \in 1 .. n BY <4>1, <3>5, <3>7, <1>3
      <4>2. CASE i = n + 1
        <5>1. D[i].ack = FALSE BY <4>2, <3>5
        <5> QED BY <5>1, <3>7
      <4> QED BY <4>1, <4>2, <1>6
    <3>8. Len(worker.commands) <= Len(D) BY <3>5, <1>3, <1>6
    <3> QED BY <3>4, <3>5, <3>6, <3>7, <3>8, <1>3
  <2> QED BY <2>1, <2>2
<1> QED BY <1>3, <1>4, <1>5, <1>8 DEF D

\* A ledger that was given the first commands still was after a transaction that gives none.
LEMMA GivenOn ==
  ASSUME NEW C, NEW L, NEW m, Given(C, L, m), NEW M, LedgerOK(M), NEW R, NEW U, Alike(L, M, R, U)
  PROVE  Given(C, M, m) /\ Len(M.commands) = Len(L.commands)
<1>1. /\ LedgerOK(L) /\ Reflects(L) /\ ~L.revoked /\ Len(L.commands) <= Len(C) /\ m <= Len(L.commands)
      /\ \A j \in 1 .. Len(L.commands) : L.commands[j].command = C[j].command
  BY DEF Given
<1>2. /\ M.revoked = L.revoked /\ Len(M.commands) = Len(L.commands)
      /\ \A i \in 1 .. Len(L.commands) : M.commands[i].command = L.commands[i].command
  BY DEF Alike
<1>3. Reflects(M)
  BY <1>1, AlikeReflects DEF LedgerOK
<1> QED BY <1>1, <1>2, <1>3 DEF Given

\* The worker's ledger with the receipts of a frame is still a beginning of the list.
LEMMA ReceiptsGiven ==
  ASSUME RemoteInvariant, NEW C, Given(C, worker, Len(worker.commands))
  PROVE  LET acked == IF ackQueue = NoReceipts THEN worker ELSE Reclaimed(Acknowledged(worker, ackQueue)) IN
         Given(C, acked, Len(worker.commands))
<1> DEFINE B == [o \in Operations |-> Len(coord.op[o].events)]
           A == Acknowledged(worker, ackQueue)
<1>1. /\ LedgersOK /\ ReceiptsOK /\ LedgerOK(worker) /\ coord \in Ledgers /\ worker \in Ledgers
  BY DEF RemoteInvariant, LedgersOK, LedgerOK
<1>2. B \in [Operations -> Nat] /\ \A o \in Operations : B[o] = Len(coord.op[o].events)
  BY <1>1, StateOf
<1> HIDE DEF B, A
<1>3. \A o \in Operations : worker.eventAcks[o] <= B[o] /\ B[o] <= Len(worker.op[o].events)
  BY <1>1, <1>2 DEF LedgersOK, Follows, Begins
<1>4. /\ \A e \in ackQueue.events : e.operation \in Operations /\ e.sequence \in Nat /\ e.sequence <= B[e.operation]
      /\ \A w \in ackQueue.replies : w.reply \in ReplyKinds
  BY <1>1, <1>2 DEF ReceiptsOK
<1>5. LedgerOK(A) /\ A \in Ledgers
  BY <1>1, <1>2, <1>3, <1>4, AcknowledgementKeeps DEF A, LedgerOK
<1>6. Given(C, A, Len(worker.commands))
  BY <1>1, <1>5, AcknowledgedAlike, GivenOn DEF A
<1>7. LedgerOK(Reclaimed(A)) /\ Reclaimed(A) \in Ledgers
  BY <1>5, ReclamationKeeps DEF LedgerOK
<1>8. Given(C, Reclaimed(A), Len(worker.commands))
  BY <1>5, <1>6, <1>7, ReclaimedAlike, GivenOn
<1> QED BY <1>8 DEF A

\* The chunks of a frame: a refused one is of an operation that is compacted or not there.
LEMMA ChunksGiven ==
  ASSUME NEW C, NEW m, NEW so \in Handled, so.ok, Given(C, so.ledger, m), NEW A \in SUBSET Operations, IsFiniteSet(A)
  PROVE  LET h == ChunksHandled(so, A) IN
         /\ h \in Handled /\ Given(C, h.ledger, m) /\ h.ledger.op = so.ledger.op
         /\ Len(h.ledger.commands) = Len(so.ledger.commands)
         /\ h.ok \/ \E o \in A : h.ledger.op[o].retired \/ ~Exists(h.ledger, o)
<1> DEFINE M == so.ledger
           Late == \E o \in A : M.op[o].retired \/ ~Exists(M, o)
           Good(N, ok) == /\ Given(C, N, m) /\ N.op = M.op /\ Len(N.commands) = Len(M.commands)
                          /\ ok \/ Late
           V == {h \in Handled : Good(h.ledger, h.ok)}
<1>1. so \in V
  OBVIOUS
<1>2. ASSUME NEW N, NEW ok \in BOOLEAN, Good(N, ok) PROVE [ledger |-> N, ok |-> ok] \in V
  <2>1. N \in Ledgers BY <1>2 DEF Given, LedgerOK
  <2> HIDE DEF Good
  <2> QED BY <1>2, <2>1 DEF Handled
<1>3. ASSUME NEW h \in V, NEW o \in A
      PROVE  Applied(h, ChunkRefused(h.ledger, o), WithChunk(h.ledger, o)) \in V
  <2> DEFINE N == WithChunk(h.ledger, o)
             x == Applied(h, ChunkRefused(h.ledger, o), N)
  <2>1. h \in Handled /\ Good(h.ledger, h.ok) /\ LedgerOK(h.ledger) /\ h.ledger \in Ledgers BY DEF Handled, Given
  <2>2. LedgerOK(N) /\ Alike(h.ledger, N, {}, {o}) BY <2>1, ChunkKeeps, ChunkAlike
  <2>3. N.op = h.ledger.op BY <2>1 DEF WithChunk, Ledgers
  <2> HIDE DEF N, V, Late
  <2>4. CASE h.ok /\ ~ChunkRefused(h.ledger, o)
    <3>1. Given(C, N, m) /\ Len(N.commands) = Len(h.ledger.commands) BY <2>1, <2>2, GivenOn
    <3>2. Good(N, h.ok) BY <3>1, <2>1, <2>3
    <3>3. x = [ledger |-> N, ok |-> h.ok] BY <2>1, <2>4 DEF Applied, Handled
    <3>4. h.ok \in BOOLEAN BY <2>1 DEF Handled
    <3> HIDE DEF Good, x
    <3> QED BY <3>2, <3>3, <3>4, <1>2 DEF x, N
  <2>5. CASE ~h.ok
    <3>1. Late BY <2>1, <2>5
    <3>2. Good(h.ledger, FALSE) BY <3>1, <2>1
    <3>3. x = [ledger |-> h.ledger, ok |-> FALSE] BY <2>1, <2>5 DEF Applied, Handled
    <3> HIDE DEF Good, x
    <3> QED BY <3>2, <3>3, <1>2 DEF x, N
  <2>6. CASE ChunkRefused(h.ledger, o)
    <3>1. M.op[o].retired \/ ~Exists(M, o)
      <4>1. h.ledger.op = M.op BY <2>1
      <4> HIDE DEF M, Good
      <4> QED BY <4>1, <2>6 DEF ChunkRefused, Exists
    <3>2. Late BY <3>1 DEF Late
    <3>3. Good(h.ledger, FALSE) BY <3>2, <2>1
    <3>4. x = [ledger |-> h.ledger, ok |-> FALSE] BY <2>1, <2>6 DEF Applied, Handled
    <3> HIDE DEF Good, x
    <3> QED BY <3>3, <3>4, <1>2 DEF x, N
  <2> QED BY <2>4, <2>5, <2>6
<1> DEFINE h == ChunksHandled(so, A)
<1> HIDE DEF V
<1>4. h \in V
  BY <1>1, <1>3, ChunksInTurn
<1> HIDE DEF h
<1>5. h \in Handled /\ Good(h.ledger, h.ok)
  BY <1>4 DEF V
<1>6. h.ok \/ \E o \in A : h.ledger.op[o].retired \/ ~Exists(h.ledger, o)
  BY <1>5 DEF Exists
<1> QED BY <1>5, <1>6 DEF h

\* Without chunks there is nothing to refuse.
LEMMA NoChunks == ASSUME NEW so PROVE ChunksHandled(so, {}) = so
<1>1. IsFiniteSet({})
  BY FS_EmptySet
<1>2. so \in {so} /\ \A h \in {so}, o \in {} : Applied(h, ChunkRefused(h.ledger, o), WithChunk(h.ledger, o)) \in {so}
  OBVIOUS
<1>3. ChunksHandled(so, {}) \in {so}
  BY <1>1, <1>2, ChunksInTurn
<1> QED BY <1>3

\* A frame of the coordinator, or its first commands, at the worker.
LEMMA FrameGiven ==
  ASSUME RemoteInvariant, Agreed, ~coord.revoked, NEW n \in 0 .. Len(PendingCommands(coord)),
         NEW sent \in SUBSET Operations, IsFiniteSet(sent), NEW accept \in BOOLEAN
  PROVE  LET frame == [revoked |-> FALSE, receipts |-> ackQueue, commands |-> SubSeq(PendingCommands(coord), 1, n),
                       chunks |-> sent]
             h == WorkerHandles(frame, accept) IN
         /\ Given(coord.commands, h.ledger, Len(worker.commands))
         /\ n = Len(PendingCommands(coord)) => Len(h.ledger.commands) = Len(coord.commands)
         /\ h.ok \/ \E o \in sent : h.ledger.op[o].retired \/ ~Exists(h.ledger, o)
         /\ WorkerHandles([frame EXCEPT !.chunks = {}], accept).ok
<1> DEFINE q == PendingCommands(coord)
           frame == [revoked |-> FALSE, receipts |-> ackQueue, commands |-> SubSeq(q, 1, n), chunks |-> sent]
           acked == IF ackQueue = NoReceipts THEN worker ELSE Reclaimed(Acknowledged(worker, ackQueue))
           c == CommandsHandled([ledger |-> acked, ok |-> TRUE], SubSeq(q, 1, n), accept)
           h == ChunksHandled(c, sent)
           m == Len(worker.commands)
           C == coord.commands
<1>1. /\ LedgerOK(coord) /\ LedgerOK(worker) /\ coord \in Ledgers /\ worker \in Ledgers
  BY DEF RemoteInvariant, LedgersOK, LedgerOK
<1>2. /\ ~worker.revoked /\ Reflects(worker) /\ Lawful(C) /\ m <= Len(C)
      /\ \A i \in 1 .. m : worker.commands[i].command = C[i].command
      /\ \A i \in 1 .. Len(C) : C[i].ack => i <= m
  BY DEF Agreed
<1>3. m \in Nat /\ Len(C) \in Nat /\ C \in Lists
  BY <1>1, <1>2, ListOf DEF Lists
<1>4. Given(C, worker, m)
  BY <1>1, <1>2, <1>3 DEF Given
<1>5. Given(C, acked, m)
  BY <1>4, ReceiptsGiven
<1>6. WorkerHandles(frame, accept) = h /\ WorkerHandles([frame EXCEPT !.chunks = {}], accept) = ChunksHandled(c, {})
  <2>1. frame.revoked = FALSE /\ frame.receipts = ackQueue /\ frame.commands = SubSeq(q, 1, n) /\ frame.chunks = sent
    OBVIOUS
  <2> DEFINE bare == [frame EXCEPT !.chunks = {}]
  <2>2. bare.revoked = FALSE /\ bare.receipts = ackQueue /\ bare.commands = SubSeq(q, 1, n) /\ bare.chunks = {}
    OBVIOUS
  <2> HIDE DEF q, frame, bare
  <2>3. WorkerHandles(frame, accept) = h BY <2>1 DEF WorkerHandles
  <2>4. WorkerHandles(bare, accept) = ChunksHandled(c, {}) BY <2>2 DEF WorkerHandles
  <2> QED BY <2>3, <2>4 DEF bare
<1> HIDE DEF frame, acked, q
<1>7. /\ c \in Handled /\ c.ok /\ Given(C, c.ledger, m)
      /\ n = Len(q) => Len(c.ledger.commands) = Len(C)
  BY <1>1, <1>2, <1>3, <1>5, PendingAreTaken DEF q
<1> HIDE DEF c, m, C, h
<1>8. /\ Given(C, h.ledger, m) /\ Len(h.ledger.commands) = Len(c.ledger.commands)
      /\ h.ok \/ \E o \in sent : h.ledger.op[o].retired \/ ~Exists(h.ledger, o)
  <2>1. c \in Handled /\ c.ok /\ Given(C, c.ledger, m) /\ sent \in SUBSET Operations /\ IsFiniteSet(sent) BY <1>7
  <2>2. /\ Given(C, ChunksHandled(c, sent).ledger, m)
        /\ Len(ChunksHandled(c, sent).ledger.commands) = Len(c.ledger.commands)
        /\ ChunksHandled(c, sent).ok
           \/ \E o \in sent : \/ ChunksHandled(c, sent).ledger.op[o].retired
                              \/ ~Exists(ChunksHandled(c, sent).ledger, o)
    BY ONLY <2>1, ChunksGiven
  <2> QED BY <2>2 DEF h
<1>9. ChunksHandled(c, {}) = c
  BY NoChunks
<1> QED BY <1>6, <1>7, <1>8, <1>9 DEF frame, q, m, C

\* The frames the coordinator sends are of that form.
LEMMA FrameIs ==
  ASSUME coord \in Ledgers, ~coord.revoked, NEW frame \in FramesToWorker
  PROVE  \E k \in 0 .. Len(PendingCommands(coord)), sent \in SUBSET Operations :
           /\ frame = [revoked |-> FALSE, receipts |-> ackQueue, commands |-> SubSeq(PendingCommands(coord), 1, k),
                       chunks |-> sent]
           /\ IsFiniteSet(sent) /\ Len(frame.commands) = k
           /\ frame.commands = PendingCommands(coord) => k = Len(PendingCommands(coord))
           /\ \A o \in sent : coord.chunks[o] = "stored"
           /\ \A n \in 0 .. k - 1 :
                /\ n \in 0 .. Len(PendingCommands(coord))
                /\ SubSeq(frame.commands, 1, n) = SubSeq(PendingCommands(coord), 1, n)
<1> DEFINE q == PendingCommands(coord)
           k == IF Len(q) < FrameItems THEN Len(q) ELSE FrameItems
<1>1. q \in Seq(Commands) /\ Len(q) \in Nat
  BY CommandsOf, PendingAreCommands
<1>2. FrameItems \in Nat
  BY DeliveryAssumption
<1> HIDE DEF q
<1>3. k \in 0 .. Len(q) /\ k \in Nat
  BY <1>1, <1>2
<1>4. PICK sent \in SomeOf(PendingChunks(coord)) :
        frame = [revoked |-> FALSE, receipts |-> ackQueue, commands |-> SubSeq(q, 1, k), chunks |-> sent]
  BY DEF FramesToWorker, First, q
<1> HIDE DEF k
<1>5. sent \in SUBSET Operations /\ IsFiniteSet(sent) /\ \A o \in sent : coord.chunks[o] = "stored"
  BY DEF SomeOf, PendingChunks
<1>6. frame.commands = SubSeq(q, 1, k) /\ SubSeq(q, 1, k) \in Seq(Commands) /\ Len(SubSeq(q, 1, k)) = k
      /\ \A i \in 1 .. k : SubSeq(q, 1, k)[i] = q[i]
  <2>1. \A i \in 1 .. k : q[i] \in Commands
    <3>1. \A i \in 1 .. k : i \in 1 .. Len(q) BY <1>1, <1>3
    <3> QED BY <3>1, <1>1, ElementIn
  <2> QED BY <2>1, <1>1, <1>3, <1>4
<1>7. frame.commands = q => k = Len(q)
  BY <1>6
<1>8. ASSUME NEW n \in 0 .. k - 1 PROVE n \in 0 .. Len(q) /\ SubSeq(frame.commands, 1, n) = SubSeq(q, 1, n)
  <2>1. n \in Nat /\ n <= k /\ n <= Len(q) BY <1>1, <1>3
  <2>2. \A i \in 1 .. n : i \in 1 .. k BY <2>1, <1>3
  <2>3. \A i \in 1 .. n : SubSeq(q, 1, k)[i] = q[i] BY <2>2, <1>6
  <2> QED BY <2>1, <2>3, <1>1, <1>3, <1>6
<1> QED BY <1>3, <1>4, <1>5, <1>6, <1>7, <1>8 DEF q

\* A frame of the worker, stored or stored and confirmed, leaves the lists in agreement.
LEMMA CoordinatorReceivesAgrees == ASSUME RemoteInvariant, Agreed, CoordinatorReceives PROVE Agreed'
<1>1. /\ LedgersOK /\ LedgerOK(worker) /\ LedgerOK(coord) /\ Follows(coord)
      /\ coord \in Ledgers /\ worker \in Ledgers /\ worker' = worker
  BY DEF RemoteInvariant, LedgersOK, LedgerOK, CoordinatorReceives
<1>2. PICK frame \in FramesToCoordinator :
        LET stored == CoordinatorStores(frame) IN
        \/ stored.ok /\ coord' = Reclaimed(Acknowledged(stored.ledger, frame))
        \/ coord' = stored.ledger
  BY DEF CoordinatorReceives
<1> DEFINE S == CoordinatorStores(frame)
           N == S.ledger
           A == Acknowledged(N, frame)
<1>3. Alike(coord, N, frame.commands, {}) /\ frame.commands \subseteq Issued(worker)
  BY <1>1, StoringAlike, ReceiptsOfCommands
<1>4. LedgerOK(N) /\ N \in Ledgers /\ (S.ok => \A e \in frame.events : e.sequence <= Len(N.op[e.operation].events))
  BY <1>1, StoringKeeps DEF LedgerOK
<1>5. CASE coord' = N
  BY <1>1, <1>3, <1>5, CoordinatorAgrees
<1>6. CASE S.ok /\ coord' = Reclaimed(A)
  <2> DEFINE B == [o \in Operations |-> Len(N.op[o].events)]
  <2>1. /\ \A e \in frame.events : e.operation \in Operations /\ e.sequence \in Nat
        /\ \A w \in frame.replies : w.reply \in ReplyKinds
    BY <1>1, FrameToCoordinator
  <2>2. \A e \in frame.events : e.sequence <= Len(N.op[e.operation].events)
    BY <1>4, <1>6
  <2> HIDE DEF S, N
  <2>3. B \in [Operations -> Nat] /\ \A o \in Operations : B[o] = Len(N.op[o].events)
    BY <1>4, StateOf
  <2> HIDE DEF B
  <2>4. \A o \in Operations : N.eventAcks[o] <= B[o] /\ B[o] <= Len(N.op[o].events)
    BY <1>4, <2>3, StateOf DEF LedgerOK, RowOK
  <2>5. \A e \in frame.events : e.operation \in Operations /\ e.sequence \in Nat /\ e.sequence <= B[e.operation]
    BY <2>1, <2>2, <2>3
  <2>6. LedgerOK(A) /\ A \in Ledgers
    BY <1>4, <2>1, <2>3, <2>4, <2>5, AcknowledgementKeeps DEF LedgerOK
  <2>7. Alike(N, A, frame.commands, {})
    BY <1>4, <2>6, AcknowledgedAlike
  <2> HIDE DEF A
  <2>8. Alike(A, coord', {}, {})
    BY <1>6, <2>6, ReclamationKeeps, ReclaimedAlike DEF LedgerOK
  <2>9. Alike(coord, A, frame.commands \cup frame.commands, {} \cup {})
    BY <1>3, <2>7, AlikeOn
  <2>10. Alike(coord, coord', (frame.commands \cup frame.commands) \cup {}, ({} \cup {}) \cup {})
    BY <2>8, <2>9, AlikeOn
  <2>11. Alike(coord, coord', frame.commands, {})
    BY <2>10
  <2> QED BY <1>1, <1>3, <2>11, CoordinatorAgrees
<1> QED BY <1>2, <1>5, <1>6

\* A frame of the coordinator, whole or in part, leaves the lists in agreement.
LEMMA WorkerReceivesAgrees == ASSUME RemoteInvariant, Agreed, WorkerReceives PROVE Agreed'
<1>1. coord \in Ledgers /\ worker \in Ledgers /\ coord' = coord /\ AcceptsNew(server) \in BOOLEAN
  BY DEF RemoteInvariant, LedgersOK, LedgerOK, WorkerReceives, AcceptsNew
<1> SUFFICES ASSUME ~coord.revoked PROVE Agreed'
  BY <1>1 DEF Agreed
<1> DEFINE C == coord.commands
           m == Len(worker.commands)
           q == PendingCommands(coord)
           H(f) == WorkerHandles(f, AcceptsNew(server))
<1>2. PICK frame \in FramesToWorker :
        \/ worker' = H(frame).ledger
        \/ worker' = worker
        \/ \E n \in 0 .. Len(frame.commands) - 1 :
             worker' = H([frame EXCEPT !.commands = SubSeq(@, 1, n), !.chunks = {}]).ledger
  BY DEF WorkerReceives
<1>3. /\ ~worker.revoked /\ Reflects(coord) /\ Lawful(C)
      /\ \A i \in 1 .. Len(C) : C[i].ack => i <= m
      /\ \A o \in Operations : coord.chunks[o] = "stored" => Exists(coord, o)
  BY DEF Agreed
<1>4. ASSUME Given(C, worker', m) PROVE Agreed'
  <2>1. /\ ~worker'.revoked /\ Reflects(worker') /\ Len(worker'.commands) <= Len(C) /\ m <= Len(worker'.commands)
        /\ \A i \in 1 .. Len(worker'.commands) : worker'.commands[i].command = C[i].command
        /\ worker' \in Ledgers
    BY <1>4 DEF Given, LedgerOK
  <2>2. m \in Nat /\ Len(worker'.commands) \in Nat
    BY <1>1, <2>1, ListOf
  <2> HIDE DEF m
  <2>3. \A i \in 1 .. Len(C) : C[i].ack => i <= Len(worker'.commands)
    BY <1>3, <2>1, <2>2
  <2> QED BY <1>1, <1>3, <2>1, <2>3 DEF Agreed, Reflects, Issued, Exists
<1>5. PICK k \in 0 .. Len(q), sent \in SUBSET Operations :
        /\ frame = [revoked |-> FALSE, receipts |-> ackQueue, commands |-> SubSeq(q, 1, k), chunks |-> sent]
        /\ IsFiniteSet(sent) /\ Len(frame.commands) = k
        /\ \A n \in 0 .. k - 1 : n \in 0 .. Len(q) /\ SubSeq(frame.commands, 1, n) = SubSeq(q, 1, n)
  BY <1>1, FrameIs
<1>6. CASE worker' = H(frame).ledger
  <2>1. Given(C, H(frame).ledger, m)
    BY <1>1, <1>5, FrameGiven
  <2> QED BY <2>1, <1>4, <1>6
<1>7. CASE worker' = worker
  <2>1. UNCHANGED <<coord, worker>> BY <1>1, <1>7
  <2> QED BY <2>1 DEF Agreed, Reflects, Issued, Exists
<1>8. CASE \E n \in 0 .. Len(frame.commands) - 1 :
             worker' = H([frame EXCEPT !.commands = SubSeq(@, 1, n), !.chunks = {}]).ledger
  <2>1. PICK n \in 0 .. k - 1 : worker' = H([frame EXCEPT !.commands = SubSeq(@, 1, n), !.chunks = {}]).ledger
    BY <1>5, <1>8
  <2>2. n \in 0 .. Len(q) /\ SubSeq(frame.commands, 1, n) = SubSeq(q, 1, n) BY <1>5
  <2> DEFINE g == [revoked |-> FALSE, receipts |-> ackQueue, commands |-> SubSeq(q, 1, n), chunks |-> {}]
  <2>3. H([frame EXCEPT !.commands = SubSeq(@, 1, n), !.chunks = {}]) = H(g)
    <3> DEFINE f == [revoked |-> FALSE, receipts |-> ackQueue, commands |-> SubSeq(q, 1, k), chunks |-> sent]
               z == SubSeq(f.commands, 1, n)
               c == [f EXCEPT !.commands = z, !.chunks = {}]
    <3>1. frame = f /\ z = SubSeq(q, 1, n) BY <1>5, <2>2
    <3> HIDE DEF z
    <3>2. c.revoked = FALSE /\ c.receipts = ackQueue /\ c.commands = z /\ c.chunks = {}
      OBVIOUS
    <3>3. g.revoked = FALSE /\ g.receipts = ackQueue /\ g.commands = SubSeq(q, 1, n) /\ g.chunks = {}
      OBVIOUS
    <3> HIDE DEF c, g, q
    <3>4. H(c) = H(g) BY <3>1, <3>2, <3>3 DEF WorkerHandles
    <3> HIDE DEF H, f
    <3>5. [frame EXCEPT !.commands = SubSeq(@, 1, n), !.chunks = {}] = c BY <3>1, Zenon DEF c, z
    <3> QED BY <3>4, <3>5
  <2>4. {} \in SUBSET Operations /\ IsFiniteSet({}) BY FS_EmptySet
  <2>5. Given(C, H(g).ledger, m)
    BY <1>1, <2>2, <2>4, FrameGiven
  <2> HIDE DEF g
  <2>6. worker' = H(g).ledger BY <2>1, <2>3
  <2> QED BY <2>5, <2>6, <1>4
<1> QED BY <1>2, <1>6, <1>7, <1>8

\* What the processes of the worker record themselves leaves the lists in agreement.
LEMMA OwnRecordsAgree ==
  ASSUME RemoteInvariant, Agreed, RemoteInvariant', NEW p \in Workers,
         \/ \E s \in Sessions : Prepared(p, s) \/ SettleSession(p, s)
         \/ \E o \in Operations : Output(p, o) \/ Execution(p, o)
  PROVE  Agreed'
<1>1. worker \in Ledgers /\ worker' \in Ledgers
  BY DEF RemoteInvariant, LedgersOK, LedgerOK
<1>2. coord' = coord
  BY DEF Prepared, SettleSession, Output, Execution, FollowEnds, Check, Borrowed, Start, InvokeTool, ToolEnds,
         StopExecution, WorkerUnchanged
<1>3. \/ worker' = worker
      \/ \E s \in Sessions : \E kind : worker' = WithReply(worker, s, kind)
      \/ \E o \in Operations : \E kind : worker' = Recorded(worker, o, kind)
  <2>1. CASE \E s \in Sessions : Prepared(p, s) \/ SettleSession(p, s)
    BY <2>1 DEF Prepared, SettleSession
  <2>2. CASE \E o \in Operations : Output(p, o)
    BY <2>2 DEF Output
  <2>3. ASSUME NEW o \in Operations, Execution(p, o)
        PROVE  worker' = worker \/ \E kind : worker' = Recorded(worker, o, kind)
    <3>1. \A kind : Finished(worker, o, kind) = worker \/ Finished(worker, o, kind) = Recorded(worker, o, kind)
      BY DEF Finished
    <3>2. \/ worker' = worker \/ StartRecorded(p, o)
          \/ \E kind : worker' = Finished(worker, o, kind)
      BY <2>3 DEF Execution, FollowEnds, Check, Borrowed, Start, InvokeTool, ToolEnds, StopExecution, End
    <3> QED BY <3>1, <3>2 DEF StartRecorded
  <2> QED BY <2>1, <2>2, <2>3
<1>4. CASE worker' = worker
  BY <1>2, <1>4 DEF Agreed, Reflects, Issued, Exists
<1>5. CASE \E s \in Sessions : \E kind : worker' = WithReply(worker, s, kind)
  <2>1. Alike(worker, worker', {}, {}) BY <1>1, <1>5, ReplyAlike
  <2> QED BY <2>1, <1>1, <1>2, WorkerAgrees
<1>6. CASE \E o \in Operations : \E kind : worker' = Recorded(worker, o, kind)
  <2>1. Alike(worker, worker', {}, {}) BY <1>1, <1>6, RecordedAlike
  <2> QED BY <2>1, <1>1, <1>2, WorkerAgrees
<1> QED BY <1>3, <1>4, <1>5, <1>6

\* Steps that leave both ledgers as they are.
LEMMA LedgersStayAgreed == ASSUME Agreed, UNCHANGED <<coord, worker>> PROVE Agreed'
BY DEF Agreed, Reflects, Issued, Exists

\* What the coordinator's callers do.
LEMMA CallersAgree ==
  ASSUME RemoteInvariant, Agreed,
         \/ \E s \in Sessions : OpenSession(s) \/ CloseSession(s)
         \/ \E o \in Operations, s \in Sessions : Invoke(o, s)
         \/ \E o \in Operations : Upload(o) \/ StopCall(o)
         \/ Revoke \/ SaveCloseIntent
  PROVE  Agreed'
<1>1. LedgerOK(coord) /\ coord \in Ledgers /\ worker \in Ledgers
  BY DEF RemoteInvariant, LedgersOK, LedgerOK
<1>2. /\ \A s \in Sessions : Open(s) \in Commands /\ Close(s) \in Commands
      /\ \A o \in Operations : Cancel(o) \in Commands
      /\ \A o \in Operations, s \in Sessions : Dispatch(s, o) \in Commands
  BY DEF Open, Close, Cancel, Dispatch, Commands
<1>3. worker' = worker
  BY DEF OpenSession, CloseSession, Invoke, Upload, StopCall, Revoke, SaveCloseIntent
<1>4. CASE UNCHANGED coord \/ \E c \in Commands : Save(c)
  BY <1>1, <1>3, <1>4, LedgersStayAgreed, SaveAgrees
<1>5. CASE \E o \in Operations : Upload(o)
  <2>1. PICK o \in Operations : Upload(o) BY <1>5
  <2>2. coord' = WithChunk(coord, o) /\ Exists(coord, o) BY <2>1 DEF Upload, ChunkRefused
  <2>3. Alike(coord, coord', {}, {o}) BY <1>1, <2>2, ChunkAlike
  <2> QED BY <1>1, <1>3, <2>2, <2>3, CoordinatorAgrees
<1>6. CASE Revoke
  <2>1. coord'.revoked
    <3>1. coord' = WithRevocation(coord) BY <1>6 DEF Revoke
    <3> DEFINE ops == [o \in Operations |-> [coord.op[o] EXCEPT !.cancelled = @ \/ (Exists(coord, o) /\ ~Terminal(coord, o))]]
               ses == [s \in Sessions |-> IF coord.sess[s] = None THEN None ELSE "closed"]
    <3>2. coord' = [coord EXCEPT !.revoked = TRUE, !.op = ops, !.sess = ses] BY <3>1 DEF WithRevocation
    <3> HIDE DEF ops, ses
    <3> QED BY <3>2, <1>1 DEF Ledgers
  <2> QED BY <2>1 DEF Agreed
<1>7. CASE \E s \in Sessions : OpenSession(s) \/ CloseSession(s)
  <2>1. \E c \in Commands : Save(c) BY <1>2, <1>7 DEF OpenSession, CloseSession
  <2> QED BY <2>1, <1>4
<1>8. CASE \E o \in Operations, s \in Sessions : Invoke(o, s)
  <2>1. UNCHANGED coord \/ \E c \in Commands : Save(c) BY <1>2, <1>8 DEF Invoke
  <2> QED BY <2>1, <1>4
<1>9. CASE \E o \in Operations : StopCall(o)
  <2>1. UNCHANGED coord \/ \E c \in Commands : Save(c) BY <1>2, <1>9 DEF StopCall
  <2> QED BY <2>1, <1>4
<1>10. CASE SaveCloseIntent
  <2>1. \E c \in Commands : Save(c) BY <1>2, <1>10 DEF SaveCloseIntent
  <2> QED BY <2>1, <1>4
<1> QED BY <1>5, <1>6, <1>7, <1>8, <1>9, <1>10

\* Every step leaves the lists in agreement.
LEMMA AgreedStep == RemoteInvariant /\ Agreed /\ [Next]_vars => Agreed'
<1> SUFFICES ASSUME RemoteInvariant, Agreed, [Next]_vars PROVE Agreed'
  OBVIOUS
<1>1. RemoteInvariant'
  BY RemoteStep
<1>2. CASE \/ \E s \in Sessions : OpenSession(s) \/ CloseSession(s)
           \/ \E o \in Operations, s \in Sessions : Invoke(o, s)
           \/ \E o \in Operations : Upload(o) \/ StopCall(o)
           \/ Revoke \/ SaveCloseIntent
  BY <1>2, CallersAgree
<1>3. CASE WorkerReceives
  BY <1>3, WorkerReceivesAgrees
<1>4. CASE CoordinatorReceives
  BY <1>4, CoordinatorReceivesAgrees
<1>5. CASE \E p \in Workers : \/ \E s \in Sessions : Prepared(p, s) \/ SettleSession(p, s)
                              \/ \E o \in Operations : Output(p, o) \/ Execution(p, o)
  BY <1>1, <1>5, OwnRecordsAgree
<1>6. CASE UNCHANGED <<coord, worker>>
  BY <1>6, LedgersStayAgreed
<1>7. CASE StopTools \/ StartTools \/ Disconnect \/ \E o \in Operations : Return(o) \/ SuspectProducer(o)
  <2>1. UNCHANGED <<coord, worker>>
    BY <1>7 DEF StopTools, StartTools, Disconnect, Return, SuspectProducer
  <2> QED BY <2>1, <1>6
<1>8. CASE \E p \in Workers : \/ Connect(p) \/ BeginMaintenance(p) \/ EnterMaintenance(p) \/ EndMaintenance(p)
                              \/ BeginClose(p) \/ EndClose(p) \/ Crash(p) \/ Restart(p)
                              \/ \E s \in Sessions : OpenBorrow(p, s) \/ CloseBorrow(p, s)
                              \/ \E o \in Operations : Schedule(p, o)
  <2>1. UNCHANGED <<coord, worker>>
    BY <1>8 DEF Connect, BeginMaintenance, EnterMaintenance, EndMaintenance, BeginClose, EndClose, Crash, Restart,
                OpenBorrow, CloseBorrow, Schedule, WorkerUnchanged
  <2> QED BY <2>1, <1>6
<1> HIDE DEF RemoteInvariant, Agreed
<1>9. CASE Next
  BY <1>9, <1>2, <1>3, <1>4, <1>5, <1>7, <1>8 DEF Next
<1>10. CASE UNCHANGED vars
  BY <1>6, <1>10 DEF vars
<1> QED BY <1>9, <1>10

\* The empty lists agree.
LEMMA InitiallyAgreed == Init => Agreed
<1> SUFFICES ASSUME Init PROVE Agreed
  OBVIOUS
<1>1. coord = EmptyLedger /\ worker = EmptyLedger
  BY DEF Init
<1> DEFINE L == EmptyLedger
<1>2. /\ ~L.revoked /\ L.commands = <<>> /\ \A s \in Sessions : L.sess[s] = None
      /\ \A o \in Operations : L.op[o] = NoOperation /\ L.chunks[o] = None
  BY DEF EmptyLedger
<1> HIDE DEF L
<1>3. Len(<<>>) = 0 /\ \A i : i \notin 1 .. 0
  OBVIOUS
<1>4. Issued(L) = {}
  BY <1>2, <1>3 DEF Issued, Before
<1>5. \A o \in Operations : ~Exists(L, o)
  BY <1>2 DEF Exists, NoOperation
<1>6. Reflects(L)
  BY <1>2, <1>4, <1>5 DEF Reflects, SessionBy, RequestedBy
<1>7. Lawful(L.commands)
  BY <1>2, <1>3 DEF Lawful
<1>8. None # "stored"
  BY DEF None
<1>9. Len(L.commands) = 0 /\ Len(L.commands) <= Len(L.commands)
  BY <1>2, <1>3
<1> QED BY <1>1, <1>2, <1>3, <1>6, <1>7, <1>8, <1>9 DEF Agreed, L

\* Whatever was sent, lost, sent again or handled in part, in every reachable state the worker
\* takes all the commands of the next frame; it refuses no chunk but one that comes too late
\* or too early.
THEOREM RequestsAlwaysAccepted == Spec => []RequestsAccepted
<1>1. RemoteInvariant /\ Agreed => RequestsAccepted
  <2> SUFFICES ASSUME RemoteInvariant, Agreed, NEW frame \in FramesToWorker
               PROVE  LET handled == WorkerHandles(frame, TRUE) IN
                      \/ frame.revoked \/ handled.ok
                      \/ /\ WorkerHandles([frame EXCEPT !.chunks = {}], TRUE).ok
                         /\ \E o \in frame.chunks :
                              \/ handled.ledger.op[o].retired
                              \/ ~Exists(handled.ledger, o) /\ frame.commands # PendingCommands(coord)
    BY DEF RequestsAccepted
  <2>1. CASE coord.revoked
    <3>1. frame \in {[revoked |-> TRUE]} BY <2>1 DEF FramesToWorker
    <3>2. frame.revoked = TRUE BY <3>1
    <3> HIDE DEF FramesToWorker
    <3> QED BY ONLY <3>2
  <2>2. CASE ~coord.revoked
    <3> DEFINE q == PendingCommands(coord)
               h == WorkerHandles(frame, TRUE)
    <3>1. coord \in Ledgers BY DEF RemoteInvariant, LedgersOK, LedgerOK
    <3>2. PICK k \in 0 .. Len(q), sent \in SUBSET Operations :
            /\ frame = [revoked |-> FALSE, receipts |-> ackQueue, commands |-> SubSeq(q, 1, k), chunks |-> sent]
            /\ IsFiniteSet(sent)
            /\ frame.commands = q => k = Len(q)
            /\ \A o \in sent : coord.chunks[o] = "stored"
      BY <2>2, <3>1, FrameIs
    <3>3. /\ Given(coord.commands, h.ledger, Len(worker.commands))
          /\ k = Len(q) => Len(h.ledger.commands) = Len(coord.commands)
          /\ h.ok \/ \E o \in sent : h.ledger.op[o].retired \/ ~Exists(h.ledger, o)
          /\ WorkerHandles([frame EXCEPT !.chunks = {}], TRUE).ok
      BY <2>2, <3>2, FrameGiven
    <3>4. frame.chunks = sent BY <3>2
    <3> HIDE DEF h, q
    <3>5. ASSUME NEW o \in sent, frame.commands = q PROVE Exists(h.ledger, o)
      <4>1. Len(h.ledger.commands) = Len(coord.commands) BY <3>2, <3>3, <3>5
      <4>2. Issued(h.ledger) = Issued(coord) BY <4>1, <3>3 DEF Given, Issued, Before
      <4>3. Reflects(h.ledger) BY <3>3 DEF Given
      <4>4. Reflects(coord) /\ Exists(coord, o) BY <2>2, <3>2 DEF Agreed
      <4> QED BY <4>2, <4>3, <4>4 DEF Reflects
    <3> QED BY <3>3, <3>4, <3>5 DEF h, q
  <2> QED BY <2>1, <2>2
<1>2. Init => RemoteInvariant /\ Agreed
  BY RemoteInitially, InitiallyAgreed
<1>3. (RemoteInvariant /\ Agreed) /\ [Next]_vars => (RemoteInvariant /\ Agreed)'
  BY RemoteStep, AgreedStep
<1> QED BY <1>1, <1>2, <1>3, PTL DEF Spec
=============================================================================
