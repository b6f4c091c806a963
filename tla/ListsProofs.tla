----------------------------- MODULE ListsProofs -----------------------------
(***************************************************************************)
(* What the proofs about lists of transactions rest on: folds over a list, *)
(* sums over a set, lists without some elements, reversed, or sorted.      *)
(*                                                                         *)
(* A lemma cannot have an operator as a parameter here, so a fold is that  *)
(* of a function G, and a sum that of a function f.  A fold or a sum with  *)
(* an operator is reduced to these where it is used.                       *)
(***************************************************************************)
EXTENDS Lists, SequencesExt, FiniteSetsExt, TLAPS, FiniteSetTheorems,
        WellFoundedInduction

-----------------------------------------------------------------------------
(* Induction *)

\* Induction on the naturals, for a set.
LEMMA SetInduction ==
  ASSUME NEW S, 0 \in S, \A n \in Nat : n \in S => n + 1 \in S
  PROVE  Nat \subseteq S
<1> DEFINE R == {ss \in Nat \X Nat : ss[1] < ss[2]}
<1>1. IsWellFoundedOn(R, Nat)
  BY NatLessThanWellFounded DEF OpToRel
<1> SUFFICES ASSUME Nat \ S # {} PROVE FALSE
  OBVIOUS
<1>2. PICK x \in Nat \ S : \A y \in Nat \ S : ~ (<<y, x>> \in R)
  <2> HIDE DEF R
  <2> QED BY <1>1, WFMin
<1>3. x # 0 /\ x - 1 \in Nat
  BY <1>2
<1>4. x - 1 \in S
  <2>1. <<x - 1, x>> \in R
    BY <1>2, <1>3
  <2> QED BY <1>2, <1>3, <2>1
<1>5. (x - 1) + 1 \in S /\ (x - 1) + 1 = x
  BY <1>3, <1>4
<1> QED BY <1>2, <1>5

-----------------------------------------------------------------------------
(* Folds *)

\* The largest of a set that has an upper bound among its elements.
LEMMA MaxIs ==
  ASSUME NEW P \in SUBSET Nat, NEW m \in P, \A y \in P : m >= y
  PROVE  Max(P) = m
<1>1. Max(P) \in P /\ \A y \in P : Max(P) >= y
  BY DEF Max
<1>2. Max(P) \in Nat /\ m \in Nat /\ Max(P) >= m /\ m >= Max(P)
  BY <1>1
<1> QED BY <1>2

\* it is a function by which FoldLeft folds G over l, from s: it[P] for the part of
\* l at the positions P, at least where what comes before is in S.
Follows(it, s, G, l, S) ==
  /\ it[{}] = s
  /\ \A P \in SUBSET (DOMAIN l) :
       P # {} /\ it[P \ {Max(P)}] \in S => it[P] = G[<<it[P \ {Max(P)}], l[Max(P)]>>]

\* In the same way, where everything has the type S, and the elements T.
IsFold(it, s, G, l, S, T) ==
  /\ it \in [SUBSET (DOMAIN l) -> S]
  /\ \A P \in SUBSET (DOMAIN l) :
       /\ P # {} => it[P \ {Max(P)}] \in S /\ l[Max(P)] \in T
       /\ it[P] = IF P = {} THEN s ELSE G[<<it[P \ {Max(P)}], l[Max(P)]>>]

\* J[i] holds of the result after the first i elements, if G keeps it so.
Keeps(G, l, S, J) ==
  \A i \in 1 .. Len(l) : \A x \in S : x \in J[i - 1] => G[<<x, l[i]>>] \in J[i]

\* The function by which FoldLeft is defined exists, and keeps a type.
LEMMA FoldExists ==
  ASSUME NEW S, NEW T, NEW G \in [S \X T -> S], NEW s \in S, NEW l \in Seq(T)
  PROVE  \E it : IsFold(it, s, G, l, S, T)
<1> DEFINE Step(it, P) == IF P = {} THEN s ELSE G[<<it[P \ {Max(P)}], l[Max(P)]>>]
           Q(n) == \E it \in [SUBSET (1 .. n) -> S] :
                      \A P \in SUBSET (1 .. n) : (P # {} => Max(P) \in P) /\ it[P] = Step(it, P)
           N == {n \in Nat : n <= Len(l) => Q(n)}
<1>1. 0 \in N
  <2> DEFINE it == [P \in SUBSET (1 .. 0) |-> s]
  <2>1. 1 .. 0 = {}
    OBVIOUS
  <2>2. it \in [SUBSET (1 .. 0) -> S] /\ \A P \in SUBSET (1 .. 0) : P = {} /\ it[P] = Step(it, P)
    BY <2>1
  <2> QED BY <2>2
<1>2. ASSUME NEW n \in Nat, n \in N PROVE n + 1 \in N
  <2> SUFFICES ASSUME n + 1 <= Len(l) PROVE Q(n + 1)
    <3> HIDE DEF Q
    <3> QED OBVIOUS
  <2>1. Len(l) \in Nat /\ n <= Len(l) /\ l[n + 1] \in T
    OBVIOUS
  <2>2. PICK it \in [SUBSET (1 .. n) -> S] :
          \A P \in SUBSET (1 .. n) : (P # {} => Max(P) \in P) /\ it[P] = Step(it, P)
    BY <1>2, <2>1
  <2> DEFINE k == n + 1
             jt == [P \in SUBSET (1 .. k) |->
                      IF k \in P THEN G[<<it[P \ {k}], l[k]>>] ELSE it[P]]
  <2>3. \A P \in SUBSET (1 .. k) : P \ {k} \in SUBSET (1 .. n)
    OBVIOUS
  <2>4. \A P \in SUBSET (1 .. k) : k \notin P => P \in SUBSET (1 .. n)
    BY <2>3
  <2>5. jt \in [SUBSET (1 .. k) -> S]
    <3> SUFFICES ASSUME NEW P \in SUBSET (1 .. k)
                 PROVE  (IF k \in P THEN G[<<it[P \ {k}], l[k]>>] ELSE it[P]) \in S
      OBVIOUS
    <3>1. CASE k \in P
      <4>1. it[P \ {k}] \in S
        BY <2>2, <2>3
      <4> QED BY <3>1, <4>1, <2>1
    <3>2. CASE k \notin P
      BY <3>2, <2>2, <2>4
    <3> QED BY <3>1, <3>2
  <2>6. ASSUME NEW P \in SUBSET (1 .. k)
        PROVE  (P # {} => Max(P) \in P) /\ jt[P] = Step(jt, P)
    <3>1. CASE k \in P
      <4>1. Max(P) = k
        <5>1. P \in SUBSET Nat /\ \A y \in P : k >= y
          OBVIOUS
        <5> QED BY <5>1, <3>1, MaxIs
      <4>2. jt[P \ {k}] = it[P \ {k}]
        BY <2>3
      <4> QED BY <3>1, <4>1, <4>2
    <3>2. CASE k \notin P /\ P # {}
      <4>1. P \in SUBSET (1 .. n) /\ jt[P] = it[P]
        BY <2>4, <3>2
      <4>2. P \ {Max(P)} \in SUBSET (1 .. n) /\ jt[P \ {Max(P)}] = it[P \ {Max(P)}]
        BY <4>1, <3>2
      <4> QED BY <2>2, <3>2, <4>1, <4>2
    <3>3. CASE P = {}
      <4>1. P \in SUBSET (1 .. n) /\ jt[P] = it[P]
        BY <3>3
      <4> QED BY <2>2, <3>3, <4>1
    <3> QED BY <3>1, <3>2, <3>3
  <2> HIDE DEF jt, Step
  <2> QED BY <2>5, <2>6
<1>3. Len(l) \in N
  <2> HIDE DEF N
  <2>1. Nat \subseteq N
    BY <1>1, <1>2, SetInduction
  <2> QED BY <2>1
<1>4. Q(Len(l)) /\ DOMAIN l = 1 .. Len(l)
  <2> HIDE DEF Q
  <2> QED BY <1>3
<1>5. PICK it \in [SUBSET (1 .. Len(l)) -> S] :
        \A P \in SUBSET (1 .. Len(l)) : (P # {} => Max(P) \in P) /\ it[P] = Step(it, P)
  <2> HIDE DEF Step
  <2> QED BY <1>4
<1>6. ASSUME NEW P \in SUBSET (DOMAIN l), P # {}
      PROVE  it[P \ {Max(P)}] \in S /\ l[Max(P)] \in T
  <2>1. Max(P) \in DOMAIN l /\ P \ {Max(P)} \in SUBSET (DOMAIN l)
    BY <1>4, <1>5, <1>6
  <2> QED BY <2>1, <1>4, <1>5
<1>7. IsFold(it, s, G, l, S, T)
  BY <1>4, <1>5, <1>6 DEF IsFold
<1> QED BY <1>7

\* What holds before the first element, and after each if before it, holds at the end.
LEMMA FoldWithin ==
  ASSUME NEW S, NEW T, NEW G \in [S \X T -> S], NEW s \in S, NEW l \in Seq(T),
         NEW it, Follows(it, s, G, l, S),
         NEW J, s \in J[0], Keeps(G, l, S, J)
  PROVE  it[DOMAIN l] \in S /\ it[DOMAIN l] \in J[Len(l)]
<1> DEFINE N == {n \in Nat : n <= Len(l) => it[1 .. n] \in S /\ it[1 .. n] \in J[n]}
<1>1. 0 \in N
  <2>1. 1 .. 0 = {}
    OBVIOUS
  <2> QED BY <2>1 DEF Follows
<1>2. ASSUME NEW n \in Nat, n \in N PROVE n + 1 \in N
  <2> SUFFICES ASSUME n + 1 <= Len(l)
               PROVE  it[1 .. n + 1] \in S /\ it[1 .. n + 1] \in J[n + 1]
    OBVIOUS
  <2>1. Len(l) \in Nat /\ n <= Len(l) /\ l[n + 1] \in T /\ n + 1 \in 1 .. Len(l)
    OBVIOUS
  <2>2. it[1 .. n] \in S /\ it[1 .. n] \in J[n]
    BY <1>2, <2>1
  <2>3. Max(1 .. n + 1) = n + 1
    <3>1. 1 .. n + 1 \in SUBSET Nat /\ n + 1 \in 1 .. n + 1 /\ \A y \in 1 .. n + 1 : n + 1 >= y
      OBVIOUS
    <3> QED BY <3>1, MaxIs
  <2>4. (1 .. n + 1) \ {n + 1} = 1 .. n
    OBVIOUS
  <2>5. 1 .. n + 1 # {} /\ 1 .. n + 1 \in SUBSET (DOMAIN l)
    <3>1. DOMAIN l = 1 .. Len(l) /\ n + 1 \in 1 .. n + 1
      OBVIOUS
    <3>2. \A y \in 1 .. n + 1 : y \in 1 .. Len(l)
      BY <2>1
    <3> QED BY <3>1, <3>2
  <2>6. it[1 .. n + 1] = G[<<it[1 .. n], l[n + 1]>>]
    BY <2>2, <2>3, <2>4, <2>5 DEF Follows
  <2>7. G[<<it[1 .. n], l[n + 1]>>] \in J[n + 1]
    <3>1. (n + 1) - 1 = n
      OBVIOUS
    <3> QED BY <2>1, <2>2, <3>1 DEF Keeps
  <2> QED BY <2>1, <2>2, <2>6, <2>7
<1>3. Len(l) \in N /\ DOMAIN l = 1 .. Len(l)
  <2> HIDE DEF N
  <2>1. Nat \subseteq N
    BY <1>1, <1>2, SetInduction
  <2> QED BY <2>1
<1> QED BY <1>3

-----------------------------------------------------------------------------
(* Sums *)

\* sum[P] is the sum of f over P, for every P in U.
IsSum(sum, f, U) ==
  /\ sum \in [SUBSET U -> Int]
  /\ sum[{}] = 0
  /\ \A P \in SUBSET U : \A x \in P : sum[P] = f[x] + sum[P \ {x}]

\* it is a function by which MapThenSumSet computes the sum of f over V.
Computes(it, f, V) ==
  it = [P \in SUBSET V |->
          IF P = {} THEN 0
          ELSE f[CHOOSE x \in P : TRUE] + it[P \ {CHOOSE x \in P : TRUE}]]

\* Every f has sums over the subsets of a finite set.
LEMMA SumExists ==
  ASSUME NEW U, IsFiniteSet(U), NEW f \in [U -> Int]
  PROVE  \E sum : IsSum(sum, f, U)
<1> DEFINE Q(V) == \E sum : IsSum(sum, f, V)
           N == {n \in Nat : \A V \in SUBSET U : Cardinality(V) = n => Q(V)}
<1>1. \A V \in SUBSET U : IsFiniteSet(V) /\ Cardinality(V) \in Nat
  BY FS_Subset, FS_CardinalityType
<1>2. 0 \in N
  <2> SUFFICES ASSUME NEW V \in SUBSET U, Cardinality(V) = 0 PROVE Q(V)
    <3> HIDE DEF Q
    <3> QED OBVIOUS
  <2>1. V = {}
    BY <1>1, FS_EmptySet
  <2> DEFINE sum == [P \in SUBSET V |-> 0]
  <2>2. IsSum(sum, f, V)
    BY <2>1 DEF IsSum
  <2> QED BY <2>2
<1>3. ASSUME NEW n \in Nat, n \in N PROVE n + 1 \in N
  <2> SUFFICES ASSUME NEW V \in SUBSET U, Cardinality(V) = n + 1 PROVE Q(V)
    <3> HIDE DEF Q
    <3> QED OBVIOUS
  <2>1. PICK y \in V : TRUE
    BY <1>1, FS_EmptySet
  <2> DEFINE W == V \ {y}
  <2>2. W \in SUBSET U /\ Cardinality(W) = n
    <3>1. IsFiniteSet(V) /\ W \in SUBSET U
      BY <1>1
    <3>2. Cardinality(W) = Cardinality(V) - 1
      BY <2>1, <3>1, FS_RemoveElement
    <3> HIDE DEF W
    <3> QED BY <3>1, <3>2
  <2>3. PICK sumW : IsSum(sumW, f, W)
    <3> HIDE DEF W
    <3> QED BY <1>3, <2>2
  <2> DEFINE sum == [P \in SUBSET V |-> IF y \in P THEN f[y] + sumW[P \ {y}] ELSE sumW[P]]
  <2>4. \A P \in SUBSET V : P \ {y} \in SUBSET W /\ sumW[P \ {y}] \in Int
    <3> SUFFICES ASSUME NEW P \in SUBSET V
                 PROVE  P \ {y} \in SUBSET W /\ sumW[P \ {y}] \in Int
      OBVIOUS
    <3>1. P \ {y} \in SUBSET W
      OBVIOUS
    <3> QED BY <2>3, <3>1 DEF IsSum
  <2>5. \A P \in SUBSET V : y \notin P => P \ {y} = P
    OBVIOUS
  <2>6. f[y] \in Int
    BY <2>1
  <2>7. sum \in [SUBSET V -> Int]
    <3> SUFFICES ASSUME NEW P \in SUBSET V
                 PROVE  (IF y \in P THEN f[y] + sumW[P \ {y}] ELSE sumW[P]) \in Int
      OBVIOUS
    <3> HIDE DEF W
    <3> QED BY <2>4, <2>5, <2>6
  <2>8. sum[{}] = 0
    BY <2>3 DEF IsSum
  <2>9. ASSUME NEW P \in SUBSET V, NEW x \in P PROVE sum[P] = f[x] + sum[P \ {x}]
    <3>1. CASE x = y
      <4>1. sum[P] = f[y] + sumW[P \ {y}] /\ sum[P \ {x}] = sumW[P \ {x}]
        BY <3>1
      <4> QED BY <3>1, <4>1
    <3>2. CASE x # y /\ y \in P
      <4>1. sum[P] = f[y] + sumW[P \ {y}] /\ sum[P \ {x}] = f[y] + sumW[(P \ {x}) \ {y}]
        BY <3>2
      <4>2. (P \ {x}) \ {y} = (P \ {y}) \ {x} /\ x \in P \ {y}
        BY <3>2
      <4>3. sumW[P \ {y}] = f[x] + sumW[(P \ {y}) \ {x}]
        BY <2>3, <2>4, <4>2 DEF IsSum
      <4>4. sumW[(P \ {y}) \ {x}] \in Int /\ f[x] \in Int
        <5>1. P \ {x} \in SUBSET V
          OBVIOUS
        <5>2. sumW[(P \ {x}) \ {y}] \in Int
          BY <2>4, <5>1
        <5>3. f[x] \in Int
          OBVIOUS
        <5> QED BY <4>2, <5>2, <5>3
      <4>5. sum[P] = f[y] + (f[x] + sumW[(P \ {x}) \ {y}])
        BY <4>1, <4>2, <4>3
      <4> HIDE DEF sum
      <4> QED BY <2>6, <4>1, <4>2, <4>4, <4>5
    <3>3. CASE y \notin P
      <4>1. sum[P] = sumW[P] /\ sum[P \ {x}] = sumW[P \ {x}] /\ P \in SUBSET W
        BY <3>3
      <4> QED BY <2>3, <4>1 DEF IsSum
    <3> QED BY <3>1, <3>2, <3>3
  <2>10. IsSum(sum, f, V)
    <3> HIDE DEF sum
    <3> QED BY <2>7, <2>8, <2>9 DEF IsSum
  <2> QED BY <2>10
<1>4. Nat \subseteq N
  <2> HIDE DEF N
  <2> QED BY <1>2, <1>3, SetInduction
<1>5. Q(U)
  <2> HIDE DEF Q
  <2> QED BY <1>1, <1>4
<1> QED BY <1>5

\* Whatever adds up f one element after the other has computed its sum.
LEMMA SumUnique ==
  ASSUME NEW U, IsFiniteSet(U), NEW f, NEW sum, IsSum(sum, f, U),
         NEW V \in SUBSET U, NEW it, Computes(it, f, V)
  PROVE  it[V] = sum[V]
<1> DEFINE N == {n \in Nat : \A P \in SUBSET V : Cardinality(P) = n => it[P] = sum[P]}
<1>1. \A P \in SUBSET V : IsFiniteSet(P) /\ Cardinality(P) \in Nat
  BY FS_Subset, FS_CardinalityType
<1>2. 0 \in N
  BY <1>1, FS_EmptySet DEF IsSum, Computes
<1>3. ASSUME NEW n \in Nat, n \in N PROVE n + 1 \in N
  <2> SUFFICES ASSUME NEW P \in SUBSET V, Cardinality(P) = n + 1 PROVE it[P] = sum[P]
    OBVIOUS
  <2> DEFINE x == CHOOSE x \in P : TRUE
  <2>1. x \in P /\ P # {}
    BY <1>1, FS_EmptySet
  <2> HIDE DEF x
  <2>2. P \ {x} \in SUBSET V /\ Cardinality(P \ {x}) = n
    <3>1. IsFiniteSet(P)
      BY <1>1
    <3>2. Cardinality(P \ {x}) = Cardinality(P) - 1
      BY <2>1, <3>1, FS_RemoveElement
    <3> QED BY <3>2
  <2>3. it[P \ {x}] = sum[P \ {x}]
    BY <1>3, <2>2
  <2>4. it[P] = f[x] + it[P \ {x}]
    BY <2>1 DEF x, Computes
  <2>5. sum[P] = f[x] + sum[P \ {x}]
    BY <2>1 DEF IsSum
  <2> QED BY <2>3, <2>4, <2>5
<1>4. Nat \subseteq N
  <2> HIDE DEF N
  <2> QED BY <1>2, <1>3, SetInduction
<1> QED BY <1>1, <1>4

\* A sum of what is not negative is not less over a larger set.
LEMMA SumMonotone ==
  ASSUME NEW U, IsFiniteSet(U), NEW f \in [U -> Nat], NEW sum, IsSum(sum, f, U)
  PROVE  \A Q \in SUBSET U : \A P \in SUBSET Q : sum[P] <= sum[Q]
<1> DEFINE N == {n \in Nat : \A Q \in SUBSET U : Cardinality(Q) = n =>
                                \A P \in SUBSET Q : sum[P] <= sum[Q]}
<1>1. \A Q \in SUBSET U : IsFiniteSet(Q) /\ Cardinality(Q) \in Nat
  BY FS_Subset, FS_CardinalityType
<1>2. 0 \in N
  <2> SUFFICES ASSUME NEW Q \in SUBSET U, Cardinality(Q) = 0, NEW P \in SUBSET Q
               PROVE  sum[P] <= sum[Q]
    OBVIOUS
  <2>1. Q = {} /\ P = {}
    BY <1>1, FS_EmptySet
  <2> QED BY <2>1 DEF IsSum
<1>3. ASSUME NEW n \in Nat, n \in N PROVE n + 1 \in N
  <2> SUFFICES ASSUME NEW Q \in SUBSET U, Cardinality(Q) = n + 1, NEW P \in SUBSET Q
               PROVE  sum[P] <= sum[Q]
    OBVIOUS
  <2>1. CASE P = Q
    <3>1. sum[Q] \in Int
      BY DEF IsSum
    <3> QED BY <2>1, <3>1
  <2>2. CASE P # Q
    <3>1. PICK x \in Q : x \notin P
      BY <2>2
    <3> DEFINE R == Q \ {x}
    <3>2. R \in SUBSET U /\ P \in SUBSET R /\ P \in SUBSET U
      BY <3>1
    <3>3. Cardinality(R) = n
      <4>1. IsFiniteSet(Q)
        BY <1>1
      <4>2. Cardinality(R) = Cardinality(Q) - 1
        BY <3>1, <4>1, FS_RemoveElement
      <4> HIDE DEF R
      <4> QED BY <4>2
    <3>4. sum[Q] = f[x] + sum[R]
      BY <3>1 DEF IsSum
    <3> HIDE DEF R
    <3>5. sum[P] <= sum[R]
      BY <1>3, <3>2, <3>3
    <3>6. sum[P] \in Int /\ sum[R] \in Int /\ f[x] \in Nat
      BY <3>1, <3>2 DEF IsSum
    <3> QED BY <3>4, <3>5, <3>6
  <2> QED BY <2>1, <2>2
<1>4. Nat \subseteq N
  <2> HIDE DEF N
  <2> QED BY <1>2, <1>3, SetInduction
<1> QED BY <1>1, <1>4

\* The sum over two sets that have nothing in common.
LEMMA SumBoth ==
  ASSUME NEW U, IsFiniteSet(U), NEW f \in [U -> Int], NEW sum, IsSum(sum, f, U),
         NEW Q \in SUBSET U
  PROVE  \A P \in SUBSET U : P \cap Q = {} => sum[P \cup Q] = sum[P] + sum[Q]
<1> DEFINE Adds(P) == P \cap Q = {} => sum[P \cup Q] = sum[P] + sum[Q]
           N == {n \in Nat : \A P \in SUBSET U : Cardinality(P) = n => Adds(P)}
<1>1. \A P \in SUBSET U : IsFiniteSet(P) /\ Cardinality(P) \in Nat
  BY FS_Subset, FS_CardinalityType
<1>2. \A P \in SUBSET U : sum[P] \in Int
  BY DEF IsSum
<1>3. 0 \in N
  <2>1. ASSUME NEW P \in SUBSET U, Cardinality(P) = 0
        PROVE  sum[P \cup Q] = sum[P] + sum[Q]
    <3>1. P = {} /\ P \cup Q = Q
      BY <1>1, <2>1, FS_EmptySet
    <3> QED BY <1>2, <3>1 DEF IsSum
  <2>2. \A P \in SUBSET U : Cardinality(P) = 0 => Adds(P)
    BY <2>1
  <2> HIDE DEF Adds
  <2> QED BY <2>2
<1>4. ASSUME NEW n \in Nat, n \in N PROVE n + 1 \in N
  <2>1. ASSUME NEW P \in SUBSET U, Cardinality(P) = n + 1, P \cap Q = {}
        PROVE  sum[P \cup Q] = sum[P] + sum[Q]
    <3>1. PICK x : x \in P
      BY <1>1, <2>1, FS_EmptySet
    <3> DEFINE R == P \ {x}
    <3>2. R \in SUBSET U /\ R \cap Q = {} /\ P \cup Q \in SUBSET U /\ R \cup Q \in SUBSET U
      BY <2>1
    <3>3. x \in P \cup Q /\ (P \cup Q) \ {x} = R \cup Q /\ x \in U
      BY <2>1, <3>1
    <3>4. Cardinality(R) = n
      <4>1. IsFiniteSet(P)
        BY <1>1
      <4>2. Cardinality(R) = Cardinality(P) - 1
        BY <3>1, <4>1, FS_RemoveElement
      <4> HIDE DEF R
      <4> QED BY <2>1, <4>2
    <3>5. sum[P] = f[x] + sum[R] /\ sum[P \cup Q] = f[x] + sum[(P \cup Q) \ {x}]
      BY <3>1, <3>2, <3>3 DEF IsSum
    <3> HIDE DEF R
    <3>6. sum[R \cup Q] = sum[R] + sum[Q]
      BY <1>4, <3>2, <3>4
    <3>7. f[x] \in Int
      BY <3>3
    <3>8. sum[P \cup Q] = f[x] + sum[R \cup Q]
      BY <3>3, <3>5
    <3>9. sum[R] \in Int /\ sum[Q] \in Int
      BY <1>2, <3>2
    <3> QED BY <3>5, <3>6, <3>7, <3>8, <3>9
  <2>2. \A P \in SUBSET U : Cardinality(P) = n + 1 => Adds(P)
    BY <2>1
  <2> HIDE DEF Adds
  <2> QED BY <2>2
<1>5. Nat \subseteq N
  <2> HIDE DEF N
  <2> QED BY <1>3, <1>4, SetInduction
<1> QED BY <1>1, <1>5

\* The sums of f over the subsets of U: they add up element by element, and are what
\* MapThenSumSet, which is defined by a function `it', computes.
LEMMA Sums ==
  ASSUME NEW U, IsFiniteSet(U), NEW f \in [U -> Nat]
  PROVE  \E sum \in [SUBSET U -> Nat] :
           /\ sum[{}] = 0
           /\ \A P \in SUBSET U : \A x \in U \ P : sum[P \cup {x}] = sum[P] + f[x]
           /\ \A Q \in SUBSET U : \A P \in SUBSET Q : sum[P] <= sum[Q]
           /\ \A V \in SUBSET U : sum[V] = (CHOOSE it : Computes(it, f, V))[V]
<1>1. PICK sum : IsSum(sum, f, U)
  <2>1. f \in [U -> Int]
    OBVIOUS
  <2> QED BY <2>1, SumExists
<1>2. \A Q \in SUBSET U : \A P \in SUBSET Q : sum[P] <= sum[Q]
  BY <1>1, SumMonotone
<1>3. sum \in [SUBSET U -> Nat] /\ sum[{}] = 0
  <2>1. \A P \in SUBSET U : sum[P] \in Int /\ sum[P] >= 0
    BY <1>1, <1>2 DEF IsSum
  <2>2. \A P \in SUBSET U : sum[P] \in Nat
    BY <2>1
  <2> QED BY <1>1, <2>2 DEF IsSum
<1>4. ASSUME NEW P \in SUBSET U, NEW x \in U \ P PROVE sum[P \cup {x}] = sum[P] + f[x]
  <2>1. P \cup {x} \in SUBSET U /\ (P \cup {x}) \ {x} = P
    OBVIOUS
  <2>2. sum[P \cup {x}] = f[x] + sum[P]
    BY <1>1, <2>1 DEF IsSum
  <2>3. f[x] \in Int /\ sum[P] \in Int
    BY <1>3
  <2> QED BY <2>2, <2>3
<1>5. ASSUME NEW V \in SUBSET U PROVE sum[V] = (CHOOSE it : Computes(it, f, V))[V]
  <2> DEFINE jt == [P \in SUBSET V |-> sum[P]]
  <2>1. Computes(jt, f, V)
    <3> SUFFICES ASSUME NEW P \in SUBSET V, P # {}
                 PROVE  sum[P] = f[CHOOSE x \in P : TRUE] + jt[P \ {CHOOSE x \in P : TRUE}]
      BY <1>3 DEF Computes
    <3> DEFINE x == CHOOSE x \in P : TRUE
    <3>1. x \in P /\ P \in SUBSET U
      OBVIOUS
    <3> HIDE DEF x
    <3>2. sum[P] = f[x] + sum[P \ {x}] /\ P \ {x} \in SUBSET V
      BY <1>1, <3>1 DEF IsSum
    <3> QED BY <3>2 DEF x
  <2> DEFINE it == CHOOSE it : Computes(it, f, V)
  <2>2. Computes(it, f, V)
    <3> HIDE DEF jt
    <3> QED BY <2>1
  <2> HIDE DEF it
  <2>3. it[V] = sum[V]
    BY <1>1, <2>2, SumUnique
  <2> QED BY <2>3 DEF it
<1> QED BY <1>2, <1>3, <1>4, <1>5

-----------------------------------------------------------------------------
(* Lists *)

\* What is left of a list has its type, and is all but what was left out, each as
\* often as before.
LEMMA WithoutIs ==
  ASSUME NEW T, NEW X, NEW l \in Seq(T)
  PROVE  /\ Without(l, X) \in Seq(T \ X)
         /\ ToSet(Without(l, X)) = ToSet(l) \ X
         /\ IsInjective(l) => IsInjective(Without(l, X))
<1> DEFINE kept == {i \in DOMAIN l : l[i] \notin X}
           PlaceOf(i) == Cardinality({h \in kept : h <= i})
           n == Cardinality(kept)
<1>1. /\ kept \in SUBSET (1 .. Len(l)) /\ IsFiniteSet(kept) /\ n \in Nat
      /\ \A i \in kept : i \in Int
  <2>1. DOMAIN l = 1 .. Len(l) /\ Len(l) \in Nat
    OBVIOUS
  <2>2. IsFiniteSet(1 .. Len(l))
    BY <2>1, FS_Interval
  <2>3. kept \in SUBSET (1 .. Len(l))
    BY <2>1
  <2> QED BY <2>2, <2>3, FS_Subset, FS_CardinalityType
<1>2. \A i \in kept : l[i] \in T \ X
  OBVIOUS
<1>3. Without(l, X) = [p \in 1 .. n |-> l[CHOOSE i \in kept : PlaceOf(i) = p]]
  BY DEF Without
<1> HIDE DEF kept
<1>4. ASSUME NEW i \in kept
      PROVE  /\ {h \in kept : h <= i} \in SUBSET kept /\ IsFiniteSet({h \in kept : h <= i})
             /\ PlaceOf(i) \in Nat /\ PlaceOf(i) <= n /\ PlaceOf(i) # 0
  <2>1. {h \in kept : h <= i} \in SUBSET kept /\ i \in {h \in kept : h <= i}
    BY <1>1
  <2>2. IsFiniteSet({h \in kept : h <= i}) /\ PlaceOf(i) <= n
    BY <1>1, <2>1, FS_Subset
  <2>3. PlaceOf(i) \in Nat /\ PlaceOf(i) # 0
    BY <2>1, <2>2, FS_CardinalityType, FS_EmptySet
  <2> QED BY <2>1, <2>2, <2>3
<1>5. ASSUME NEW i \in kept, NEW j \in kept, i < j
      PROVE  PlaceOf(i) < PlaceOf(j)
  <2> DEFINE A == {h \in kept : h <= i}
             B == {h \in kept : h <= j}
  <2>1. A \in SUBSET B /\ j \in B /\ j \notin A
    <3>1. i \in Int /\ j \in Int /\ \A h \in kept : h \in Int
      BY <1>1
    <3>2. \A h \in kept : h <= i => h <= j
      BY <1>5, <3>1
    <3>3. j <= j /\ ~(j <= i)
      BY <1>5, <3>1
    <3> QED BY <3>2, <3>3
  <2>2. Cardinality(A) <= Cardinality(B) /\ Cardinality(A) # Cardinality(B)
    BY <1>4, <2>1, FS_Subset
  <2> QED BY <1>4, <2>2
<1>6. \A i \in kept : PlaceOf(i) \in 1 .. n
  <2> SUFFICES ASSUME NEW i \in kept PROVE PlaceOf(i) \in 1 .. n
    OBVIOUS
  <2> QED BY <1>1, <1>4
<1> HIDE DEF PlaceOf
<1> DEFINE f == [i \in kept |-> PlaceOf(i)]
<1>7. f \in Injection(kept, 1 .. n)
  <2>1. f \in [kept -> 1 .. n]
    BY <1>6
  <2>2. ASSUME NEW i \in kept, NEW j \in kept, PlaceOf(i) = PlaceOf(j) PROVE i = j
    <3>1. i \in Int /\ j \in Int /\ PlaceOf(i) \in Int /\ PlaceOf(j) \in Int
      BY <1>1, <1>6
    <3>2. ~(i < j) /\ ~(j < i)
      BY <1>5, <2>2, <3>1
    <3> QED BY <3>1, <3>2
  <2> QED BY <2>1, <2>2 DEF Injection, IsInjective
<1>8. f \in Surjection(kept, 1 .. n)
  <2>1. IsFiniteSet(1 .. n) /\ Cardinality(1 .. n) = n
    BY <1>1, FS_Interval
  <2> QED BY <1>7, <2>1, FS_Injection
<1>9. \A p \in 1 .. n : \E i \in kept : PlaceOf(i) = p
  BY <1>8 DEF Surjection
<1> DEFINE At(p) == CHOOSE i \in kept : PlaceOf(i) = p
<1>10. \A p \in 1 .. n : At(p) \in kept /\ PlaceOf(At(p)) = p
  BY <1>9
<1>11. \A i \in kept : At(PlaceOf(i)) = i
  BY <1>6, <1>7, <1>10 DEF Injection, IsInjective
<1>12. /\ DOMAIN Without(l, X) = 1 .. n
       /\ \A p \in 1 .. n : Without(l, X)[p] = l[At(p)]
  BY <1>3
<1> HIDE DEF At
<1>13. Without(l, X) \in Seq(T \ X)
  <2>1. Without(l, X) \in [1 .. n -> T \ X]
    BY <1>2, <1>3, <1>10 DEF At
  <2> QED BY <1>1, <2>1
<1>14. ToSet(Without(l, X)) = ToSet(l) \ X
  <2>1. ASSUME NEW x \in ToSet(Without(l, X)) PROVE x \in ToSet(l) \ X
    <3>1. PICK p \in 1 .. n : x = l[At(p)]
      BY <1>12 DEF ToSet
    <3> QED BY <3>1, <1>10 DEF ToSet, kept
  <2>2. ASSUME NEW x \in ToSet(l) \ X PROVE x \in ToSet(Without(l, X))
    <3>1. PICK i \in DOMAIN l : x = l[i]
      BY DEF ToSet
    <3>2. i \in kept
      BY <3>1 DEF kept
    <3>3. PlaceOf(i) \in 1 .. n /\ Without(l, X)[PlaceOf(i)] = x
      BY <1>6, <1>11, <1>12, <3>1, <3>2
    <3> QED BY <1>12, <3>3 DEF ToSet
  <2> QED BY <2>1, <2>2
<1>15. ASSUME IsInjective(l) PROVE IsInjective(Without(l, X))
  <2> SUFFICES ASSUME NEW p \in 1 .. n, NEW q \in 1 .. n,
                      Without(l, X)[p] = Without(l, X)[q]
               PROVE  p = q
    BY <1>12 DEF IsInjective
  <2>1. l[At(p)] = l[At(q)] /\ At(p) \in DOMAIN l /\ At(q) \in DOMAIN l
    BY <1>10, <1>12 DEF kept
  <2>2. At(p) = At(q)
    BY <1>15, <2>1 DEF IsInjective
  <2> QED BY <1>10, <2>2
<1> QED BY <1>13, <1>14, <1>15

\* A function on the first numbers is a list.
LEMMA FunctionIsList ==
  ASSUME NEW S, NEW n \in Nat, NEW q \in [1 .. n -> S]
  PROVE  q \in Seq(S) /\ Len(q) = n
  OBVIOUS

\* Where each element of a finite set is put by how many are before it, in a strict
\* total order: B[t] are those before t.
LEMMA RanksList ==
  ASSUME NEW S, IsFiniteSet(S), NEW B \in [S -> SUBSET S],
         \A t \in S : t \notin B[t],
         \A t, u \in S : t # u => t \in B[u] \/ u \in B[t],
         \A t, u \in S : u \in B[t] => B[u] \subseteq B[t],
         NEW q, q = [p \in 1 .. Cardinality(S) |-> CHOOSE t \in S : Cardinality(B[t]) = p - 1]
  PROVE  q \in Seq(S) /\ ToSet(q) = S /\ IsInjective(q)
<1> DEFINE n == Cardinality(S)
           Rank(t) == Cardinality(B[t]) + 1
<1>1. n \in Nat /\ \A t \in S : IsFiniteSet(B[t]) /\ Cardinality(B[t]) \in Nat
  BY FS_Subset, FS_CardinalityType
<1>2. \A t \in S : Rank(t) \in 1 .. n
  <2> SUFFICES ASSUME NEW t \in S PROVE Rank(t) \in 1 .. n
    OBVIOUS
  <2>1. B[t] \in SUBSET S /\ B[t] # S
    OBVIOUS
  <2>2. Cardinality(B[t]) <= n /\ Cardinality(B[t]) # n
    BY <2>1, FS_Subset
  <2> QED BY <1>1, <2>2
<1>3. ASSUME NEW t \in S, NEW u \in S, u \in B[t] PROVE Rank(u) < Rank(t)
  <2>1. B[u] \in SUBSET B[t] /\ B[u] # B[t]
    BY <1>3
  <2>2. Cardinality(B[u]) <= Cardinality(B[t]) /\ Cardinality(B[u]) # Cardinality(B[t])
    BY <1>1, <2>1, FS_Subset
  <2> QED BY <1>1, <2>2
<1>4. ASSUME NEW t \in S, NEW u \in S, Rank(t) = Rank(u) PROVE t = u
  <2>1. Rank(t) \in Int /\ Rank(u) \in Int
    BY <1>1
  <2> HIDE DEF Rank
  <2> QED BY <1>3, <1>4, <2>1
<1> DEFINE f == [t \in S |-> Rank(t)]
<1>5. f \in Surjection(S, 1 .. n)
  <2>1. f \in Injection(S, 1 .. n)
    <3> HIDE DEF Rank
    <3> QED BY <1>2, <1>4 DEF Injection, IsInjective
  <2>2. IsFiniteSet(1 .. n) /\ Cardinality(1 .. n) = n
    BY <1>1, FS_Interval
  <2> QED BY <2>1, <2>2, FS_Injection
<1>6. \A p \in 1 .. n : \E t \in S : Rank(t) = p
  BY <1>5 DEF Surjection
<1>7. \A p \in 1 .. n : \A t \in S : Rank(t) = p <=> Cardinality(B[t]) = p - 1
  BY <1>1
<1>8. \A p \in 1 .. n : q[p] \in S /\ Rank(q[p]) = p
  <2> SUFFICES ASSUME NEW p \in 1 .. n PROVE q[p] \in S /\ Rank(q[p]) = p
    OBVIOUS
  <2>1. \E t \in S : Cardinality(B[t]) = p - 1
    BY <1>6, <1>7
  <2>2. q[p] \in S /\ Cardinality(B[q[p]]) = p - 1
    BY <2>1
  <2> QED BY <1>7, <2>2
<1>9. DOMAIN q = 1 .. n /\ q \in Seq(S)
  <2>1. DOMAIN q = 1 .. n /\ q = [p \in 1 .. n |-> q[p]]
    OBVIOUS
  <2> HIDE DEF Rank, n
  <2>2. q \in [1 .. n -> S]
    BY <1>8, <2>1
  <2>3. \A r : r \in [1 .. n -> S] => r \in Seq(S)
    BY <1>1, FunctionIsList
  <2> QED BY <2>1, <2>2, <2>3, Zenon
<1> HIDE DEF Rank, n
<1>10. ToSet(q) = S
  <2>1. ASSUME NEW t \in S PROVE t \in ToSet(q)
    <3>1. Rank(t) \in 1 .. n
      BY <1>2
    <3>2. q[Rank(t)] = t
      BY <1>4, <1>8, <3>1
    <3> QED BY <1>9, <3>1, <3>2 DEF ToSet
  <2>2. ASSUME NEW t \in ToSet(q) PROVE t \in S
    <3>1. PICK p \in 1 .. n : t = q[p]
      BY <1>9 DEF ToSet
    <3> QED BY <1>8, <3>1
  <2> QED BY <2>1, <2>2
<1>11. IsInjective(q)
  <2> SUFFICES ASSUME NEW i \in 1 .. n, NEW j \in 1 .. n, q[i] = q[j] PROVE i = j
    BY <1>9 DEF IsInjective
  <2> QED BY <1>8
<1> QED BY <1>9, <1>10, <1>11

\* A list from its end has the same elements.
LEMMA ReverseIs ==
  ASSUME NEW T, NEW l \in Seq(T)
  PROVE  /\ Reverse(l) \in Seq(T) /\ ToSet(Reverse(l)) = ToSet(l)
         /\ IsInjective(l) => IsInjective(Reverse(l))
<1>1. Len(l) \in Nat /\ DOMAIN l = 1 .. Len(l)
  OBVIOUS
<1>2. /\ DOMAIN Reverse(l) = 1 .. Len(l)
      /\ \A i \in 1 .. Len(l) : Reverse(l)[i] = l[(Len(l) - i) + 1]
  BY DEF Reverse
<1>3. \A i \in 1 .. Len(l) : (Len(l) - i) + 1 \in 1 .. Len(l)
  BY <1>1
<1>4. Reverse(l) \in Seq(T)
  <2>1. Reverse(l) \in [1 .. Len(l) -> T]
    BY <1>1, <1>3 DEF Reverse
  <2> QED BY <1>1, <2>1
<1>5. ToSet(Reverse(l)) = ToSet(l)
  <2>1. ASSUME NEW i \in 1 .. Len(l) PROVE l[i] = Reverse(l)[(Len(l) - i) + 1]
    <3>1. (Len(l) - ((Len(l) - i) + 1)) + 1 = i
      BY <1>1
    <3> QED BY <1>2, <1>3, <3>1
  <2> QED BY <1>1, <1>2, <1>3, <2>1 DEF ToSet
<1>6. ASSUME IsInjective(l) PROVE IsInjective(Reverse(l))
  <2> SUFFICES ASSUME NEW i \in 1 .. Len(l), NEW j \in 1 .. Len(l),
                      Reverse(l)[i] = Reverse(l)[j]
               PROVE  i = j
    BY <1>2 DEF IsInjective
  <2>1. (Len(l) - i) + 1 = (Len(l) - j) + 1
    BY <1>1, <1>2, <1>3, <1>6 DEF IsInjective
  <2> QED BY <1>1, <2>1
<1> QED BY <1>4, <1>5, <1>6

\* The start of a list.
LEMMA PrefixIs ==
  ASSUME NEW T, NEW l \in Seq(T), NEW k \in 0 .. Len(l)
  PROVE  /\ SubSeq(l, 1, k) \in Seq(T) /\ Len(SubSeq(l, 1, k)) = k
         /\ \A i \in 1 .. k : SubSeq(l, 1, k)[i] = l[i]
         /\ ToSet(SubSeq(l, 1, k)) \subseteq ToSet(l)
<1>1. Len(l) \in Nat /\ DOMAIN l = 1 .. Len(l) /\ k \in Nat
  OBVIOUS
<1>2. SubSeq(l, 1, k) \in Seq(T) /\ Len(SubSeq(l, 1, k)) = k
  BY <1>1
<1>3. \A i \in 1 .. k : SubSeq(l, 1, k)[i] = l[i] /\ i \in 1 .. Len(l)
  BY <1>1
<1> QED BY <1>1, <1>2, <1>3 DEF ToSet

\* A list with one element more.
LEMMA AppendIs ==
  ASSUME NEW T, NEW l \in Seq(T), NEW x \in T
  PROVE  /\ Append(l, x) \in Seq(T) /\ Len(Append(l, x)) = Len(l) + 1
         /\ DOMAIN Append(l, x) = 1 .. Len(l) + 1
         /\ \A i \in 1 .. Len(l) : Append(l, x)[i] = l[i]
         /\ Append(l, x)[Len(l) + 1] = x
         /\ ToSet(Append(l, x)) = ToSet(l) \cup {x}
         /\ IsInjective(l) /\ x \notin ToSet(l) => IsInjective(Append(l, x))
<1>1. /\ Append(l, x) \in Seq(T) /\ Len(Append(l, x)) = Len(l) + 1
      /\ \A i \in 1 .. Len(l) : Append(l, x)[i] = l[i]
      /\ Append(l, x)[Len(l) + 1] = x
      /\ DOMAIN l = 1 .. Len(l) /\ Len(l) \in Nat
  OBVIOUS
<1>2. DOMAIN Append(l, x) = 1 .. Len(l) + 1
  BY <1>1
<1>3. \A i \in 1 .. Len(l) + 1 : i = Len(l) + 1 \/ i \in 1 .. Len(l)
  BY <1>1
<1>4. 1 .. Len(l) \subseteq 1 .. Len(l) + 1 /\ Len(l) + 1 \in 1 .. Len(l) + 1
  BY <1>1
<1> DEFINE m == Append(l, x)
<1> HIDE DEF m
<1>5. ToSet(m) = ToSet(l) \cup {x}
  BY <1>1, <1>2, <1>3, <1>4 DEF ToSet, m
<1>6. IsInjective(l) /\ x \notin ToSet(l) => IsInjective(m)
  BY <1>1, <1>2, <1>3, <1>4 DEF ToSet, m, IsInjective
<1> QED BY <1>1, <1>2, <1>5, <1>6 DEF m

\* The elements at the first i positions of l.
First(l, i) == {l[j] : j \in 1 .. i}

\* They are one more with each position, if no element is there twice.
LEMMA FirstIs ==
  ASSUME NEW T, NEW l \in Seq(T)
  PROVE  /\ First(l, 0) = {} /\ First(l, Len(l)) = ToSet(l)
         /\ \A i \in 1 .. Len(l) :
              /\ l[i] \in T /\ First(l, i - 1) \in SUBSET T
              /\ First(l, i) = First(l, i - 1) \cup {l[i]}
              /\ IsInjective(l) => l[i] \notin First(l, i - 1)
<1>1. Len(l) \in Nat /\ DOMAIN l = 1 .. Len(l) /\ \A j \in 1 .. Len(l) : l[j] \in T
  OBVIOUS
<1>2. First(l, 0) = {} /\ First(l, Len(l)) = ToSet(l)
  BY <1>1 DEF First, ToSet
<1>3. ASSUME NEW i \in 1 .. Len(l)
      PROVE  /\ l[i] \in T /\ First(l, i - 1) \in SUBSET T
             /\ First(l, i) = First(l, i - 1) \cup {l[i]}
             /\ IsInjective(l) => l[i] \notin First(l, i - 1)
  <2>1. \A j \in 1 .. i : j = i \/ j \in 1 .. i - 1
    OBVIOUS
  <2>2. 1 .. i - 1 \subseteq 1 .. i /\ i \in 1 .. i /\ i \notin 1 .. i - 1
    OBVIOUS
  <2>3. \A j \in 1 .. i : j \in 1 .. Len(l)
    BY <1>1
  <2>4. First(l, i) = First(l, i - 1) \cup {l[i]}
    BY <2>1, <2>2 DEF First
  <2>5. IsInjective(l) => l[i] \notin First(l, i - 1)
    BY <1>1, <2>2, <2>3 DEF First, IsInjective
  <2>6. First(l, i - 1) \in SUBSET T
    BY <1>1, <2>2, <2>3 DEF First
  <2> QED BY <1>1, <2>4, <2>5, <2>6
<1> QED BY <1>2, <1>3


-----------------------------------------------------------------------------
(* Totals *)

\* The elements at the first positions of a list are finite, and so are all.
LEMMA FirstFinite ==
  ASSUME NEW T, NEW l \in Seq(T), NEW i \in 0 .. Len(l)
  PROVE  IsFiniteSet(First(l, i)) /\ IsFiniteSet(ToSet(l))
<1> DEFINE f(n) == [j \in 1 .. n |-> l[j]]
<1>1. Len(l) \in Nat /\ i \in Nat
  OBVIOUS
<1>2. ASSUME NEW n \in Nat PROVE IsFiniteSet(First(l, n))
  <2>1. f(n) \in Surjection(1 .. n, First(l, n))
    BY DEF Surjection, First
  <2>2. IsFiniteSet(1 .. n)
    BY FS_Interval
  <2> HIDE DEF f
  <2> QED BY <2>1, <2>2, FS_Surjection
<1>3. First(l, Len(l)) = ToSet(l)
  BY FirstIs
<1> QED BY <1>1, <1>2, <1>3

\* Induction on the subsets of a finite set, for a set of them.
LEMMA SubsetInduction ==
  ASSUME NEW U, IsFiniteSet(U), NEW Q, {} \in Q,
         \A V \in SUBSET U : \A x \in U \ V : V \in Q => V \cup {x} \in Q
  PROVE  SUBSET U \subseteq Q
<1> DEFINE N == {n \in Nat : \A V \in SUBSET U : Cardinality(V) = n => V \in Q}
<1>1. \A V \in SUBSET U : IsFiniteSet(V) /\ Cardinality(V) \in Nat
  BY FS_Subset, FS_CardinalityType
<1>2. 0 \in N
  BY <1>1, FS_EmptySet
<1>3. ASSUME NEW n \in Nat, n \in N PROVE n + 1 \in N
  <2> SUFFICES ASSUME NEW V \in SUBSET U, Cardinality(V) = n + 1 PROVE V \in Q
    OBVIOUS
  <2>1. PICK x : x \in V
    BY <1>1, FS_EmptySet
  <2> DEFINE R == V \ {x}
  <2>2. R \in SUBSET U /\ x \in U \ R /\ R \cup {x} = V
    BY <2>1
  <2>3. Cardinality(R) = n
    <3>1. IsFiniteSet(V)
      BY <1>1
    <3>2. Cardinality(R) = Cardinality(V) - 1
      BY <2>1, <3>1, FS_RemoveElement
    <3> HIDE DEF R
    <3> QED BY <3>2
  <2> HIDE DEF R
  <2>4. R \in Q
    BY <1>3, <2>2, <2>3
  <2> QED BY <2>2, <2>4
<1>4. Nat \subseteq N
  <2> HIDE DEF N
  <2> QED BY <1>2, <1>3, SetInduction
<1> QED BY <1>1, <1>4

\* A total is one of the sums.
LEMMA TotalIs ==
  ASSUME NEW U, IsFiniteSet(U), NEW f \in [U -> Int], NEW sum, IsSum(sum, f, U),
         NEW V \in SUBSET U
  PROVE  Total(f, V) = sum[V]
<1> DEFINE jt == [P \in SUBSET V |-> sum[P]]
<1>1. Computes(jt, f, V)
  <2> SUFFICES ASSUME NEW P \in SUBSET V
               PROVE  sum[P] = IF P = {} THEN 0
                               ELSE f[CHOOSE x \in P : TRUE] + jt[P \ {CHOOSE x \in P : TRUE}]
    BY DEF Computes
  <2>1. CASE P = {}
    BY <2>1 DEF IsSum
  <2>2. CASE P # {}
    <3> DEFINE x == CHOOSE x \in P : TRUE
    <3>1. x \in P /\ P \in SUBSET U
      BY <2>2
    <3> HIDE DEF x
    <3>2. sum[P] = f[x] + sum[P \ {x}] /\ P \ {x} \in SUBSET V
      BY <3>1 DEF IsSum
    <3> QED BY <2>2, <3>2 DEF x
  <2> QED BY <2>1, <2>2
<1> HIDE DEF jt
<1>2. Computes(CHOOSE it : Computes(it, f, V), f, V)
  BY <1>1
<1> DEFINE kt == CHOOSE it : Computes(it, f, V)
<1>3. kt[V] = sum[V]
  <2>1. Computes(kt, f, V)
    BY <1>2
  <2> HIDE DEF kt
  <2> QED BY <2>1, SumUnique
<1>4. Total(f, V) = (CHOOSE it : Computes(it, f, V))[V]
  BY DEF Total, MapThenSumSet, MapThenFoldSet, Computes
<1> QED BY <1>3, <1>4

\* The total over nothing, and over one more element.
LEMMA TotalMore ==
  ASSUME NEW U, IsFiniteSet(U), NEW f \in [U -> Int]
  PROVE  /\ Total(f, {}) = 0
         /\ \A V \in SUBSET U : Total(f, V) \in Int
         /\ \A V \in SUBSET U : \A x \in U \ V : Total(f, V \cup {x}) = Total(f, V) + f[x]
<1>1. PICK sum : IsSum(sum, f, U)
  BY SumExists
<1>2. \A V \in SUBSET U : Total(f, V) = sum[V]
  BY <1>1, TotalIs
<1>3. Total(f, {}) = 0 /\ \A V \in SUBSET U : Total(f, V) \in Int
  BY <1>1, <1>2 DEF IsSum
<1>4. ASSUME NEW V \in SUBSET U, NEW x \in U \ V
      PROVE  Total(f, V \cup {x}) = Total(f, V) + f[x]
  <2>1. V \cup {x} \in SUBSET U /\ (V \cup {x}) \ {x} = V /\ x \in V \cup {x}
    OBVIOUS
  <2>2. sum[V \cup {x}] = f[x] + sum[V]
    BY <1>1, <2>1 DEF IsSum
  <2>3. f[x] \in Int /\ Total(f, V) \in Int /\ Total(f, V) = sum[V]
        /\ Total(f, V \cup {x}) = sum[V \cup {x}]
    BY <1>2, <1>3, <2>1
  <2> QED BY <2>2, <2>3
<1> QED BY <1>3, <1>4

\* Functions that agree on V have one total there.
LEMMA TotalAgrees ==
  ASSUME NEW U, IsFiniteSet(U), NEW f \in [U -> Int],
         NEW W, IsFiniteSet(W), NEW h \in [W -> Int],
         NEW V \in SUBSET U, V \subseteq W, \A x \in V : f[x] = h[x]
  PROVE  Total(f, V) = Total(h, V)
<1> DEFINE Q == {P \in SUBSET V : Total(f, P) = Total(h, P)}
<1>1. {} \in Q
  BY TotalMore
<1>2. ASSUME NEW P \in SUBSET V, NEW x \in V \ P, P \in Q PROVE P \cup {x} \in Q
  <2>1. P \in SUBSET U /\ P \in SUBSET W /\ x \in U \ P /\ x \in W \ P /\ f[x] = h[x]
    OBVIOUS
  <2>2. Total(f, P \cup {x}) = Total(f, P) + f[x]
    BY <2>1, TotalMore
  <2>3. Total(h, P \cup {x}) = Total(h, P) + h[x]
    BY <2>1, TotalMore
  <2> QED BY <1>2, <2>1, <2>2, <2>3
<1>3. IsFiniteSet(V)
  BY FS_Subset
<1> HIDE DEF Q
<1>4. SUBSET V \subseteq Q
  BY <1>1, <1>2, <1>3, SubsetInduction
<1> QED BY <1>4 DEF Q

\* Totals of natural numbers are natural numbers.
LEMMA TotalNat ==
  ASSUME NEW U, IsFiniteSet(U), NEW f \in [U -> Nat]
  PROVE  \A V \in SUBSET U : Total(f, V) \in Nat
<1> DEFINE Q == {P \in SUBSET U : Total(f, P) \in Nat}
<1>0. f \in [U -> Int]
  OBVIOUS
<1>1. {} \in Q
  BY <1>0, TotalMore
<1>2. ASSUME NEW P \in SUBSET U, NEW x \in U \ P, P \in Q PROVE P \cup {x} \in Q
  <2>1. Total(f, P \cup {x}) = Total(f, P) + f[x]
    BY <1>0, TotalMore
  <2>2. f[x] \in Nat /\ Total(f, P) \in Nat
    BY <1>2
  <2> QED BY <2>1, <2>2
<1> HIDE DEF Q
<1>4. SUBSET U \subseteq Q
  BY <1>1, <1>2, SubsetInduction
<1> QED BY <1>4 DEF Q

\* k is the sum of f and h at each element.
Adds(k, f, h, U) ==
  /\ IsFiniteSet(U) /\ f \in [U -> Int] /\ h \in [U -> Int] /\ k \in [U -> Int]
  /\ \A x \in U : k[x] = f[x] + h[x]

\* The total of what is a sum at each element.
LEMMA TotalPlus ==
  ASSUME NEW U, NEW f, NEW h, NEW k, Adds(k, f, h, U)
  PROVE  \A V \in SUBSET U : Total(k, V) = Total(f, V) + Total(h, V)
<1>0. /\ IsFiniteSet(U) /\ f \in [U -> Int] /\ h \in [U -> Int] /\ k \in [U -> Int]
      /\ \A x \in U : k[x] = f[x] + h[x]
  BY DEF Adds
<1> DEFINE Q == {P \in SUBSET U : Total(k, P) = Total(f, P) + Total(h, P)}
<1>1. {} \in Q
  BY <1>0, TotalMore
<1>2. ASSUME NEW P \in SUBSET U, NEW x \in U \ P, P \in Q PROVE P \cup {x} \in Q
  <2>1. Total(f, P \cup {x}) = Total(f, P) + f[x]
    BY <1>0, TotalMore
  <2>2. Total(h, P \cup {x}) = Total(h, P) + h[x]
    BY <1>0, TotalMore
  <2>3. Total(k, P \cup {x}) = Total(k, P) + k[x]
    BY <1>0, TotalMore
  <2>4. Total(f, P) \in Int /\ Total(h, P) \in Int /\ f[x] \in Int /\ h[x] \in Int
        /\ k[x] = f[x] + h[x] /\ Total(k, P) = Total(f, P) + Total(h, P)
    BY <1>0, <1>2, TotalMore
  <2> QED BY <2>1, <2>2, <2>3, <2>4
<1> HIDE DEF Q
<1>4. SUBSET U \subseteq Q
  BY <1>0, <1>1, <1>2, SubsetInduction
<1> QED BY <1>4 DEF Q

\* The total over two sets that have nothing in common.
LEMMA TotalBoth ==
  ASSUME NEW U, IsFiniteSet(U), NEW f \in [U -> Int], NEW V \in SUBSET U, NEW W \in SUBSET U,
         \A x \in V : x \notin W
  PROVE  Total(f, V \cup W) = Total(f, V) + Total(f, W)
<1> DEFINE Q == {P \in SUBSET V : Total(f, P \cup W) = Total(f, P) + Total(f, W)}
<1>1. {} \in Q
  <2>1. {} \cup W = W
    OBVIOUS
  <2>2. Total(f, {}) = 0 /\ Total(f, W) \in Int
    BY TotalMore
  <2> QED BY <2>1, <2>2
<1>2. ASSUME NEW P \in SUBSET V, NEW x \in V \ P, P \in Q PROVE P \cup {x} \in Q
  <2> DEFINE B == P \cup W
  <2>1. P \in SUBSET U /\ x \in U \ P /\ B \in SUBSET U /\ x \in U \ B
        /\ (P \cup {x}) \cup W = B \cup {x}
    OBVIOUS
  <2>2. Total(f, B) = Total(f, P) + Total(f, W)
    BY <1>2
  <2> HIDE DEF B
  <2>3. Total(f, B \cup {x}) = Total(f, B) + f[x]
    BY <2>1, TotalMore
  <2>4. Total(f, P \cup {x}) = Total(f, P) + f[x]
    BY <2>1, TotalMore
  <2>5. Total(f, P) \in Int /\ Total(f, W) \in Int /\ f[x] \in Int
    BY <2>1, TotalMore
  <2> DEFINE C == B \cup {x}
             D == P \cup {x}
  <2>6. D \cup W = C
    BY <2>1
  <2>7. Total(f, C) = Total(f, D) + Total(f, W)
    <3> HIDE DEF C, D
    <3>1. Total(f, C) = Total(f, B) + f[x] /\ Total(f, D) = Total(f, P) + f[x]
      BY <2>3, <2>4 DEF C, D
    <3> QED BY <2>2, <2>5, <3>1
  <2>8. D \in SUBSET V
    OBVIOUS
  <2> HIDE DEF C
  <2> QED BY <2>6, <2>7, <2>8
<1>3. IsFiniteSet(V)
  BY FS_Subset
<1> HIDE DEF Q
<1>4. SUBSET V \subseteq Q
  BY <1>1, <1>2, <1>3, SubsetInduction
<1> QED BY <1>4 DEF Q

\* The total of a constant.
LEMMA TotalConst ==
  ASSUME NEW U, IsFiniteSet(U), NEW c \in Int, NEW f \in [U -> Int],
         NEW V \in SUBSET U, \A x \in V : f[x] = c
  PROVE  Total(f, V) = Cardinality(V) * c
<1> DEFINE Q == {P \in SUBSET V : Total(f, P) = Cardinality(P) * c}
<1>1. {} \in Q
  <2>1. Cardinality({}) = 0 /\ Total(f, {}) = 0
    BY TotalMore, FS_EmptySet
  <2>2. 0 * c = 0
    OBVIOUS
  <2> QED BY <2>1, <2>2
<1>2. ASSUME NEW P \in SUBSET V, NEW x \in V \ P, P \in Q PROVE P \cup {x} \in Q
  <2>1. P \in SUBSET U /\ x \in U \ P /\ f[x] = c /\ IsFiniteSet(P)
    BY FS_Subset
  <2>2. Total(f, P \cup {x}) = Total(f, P) + c
    BY <2>1, TotalMore
  <2>3. Cardinality(P \cup {x}) = Cardinality(P) + 1 /\ Cardinality(P) \in Nat
    BY <2>1, FS_AddElement, FS_CardinalityType
  <2> DEFINE n == Cardinality(P)
  <2>4. n \in Nat /\ Total(f, P) = n * c /\ Cardinality(P \cup {x}) = n + 1
    BY <1>2, <2>3
  <2> HIDE DEF n
  <2>5. (n + 1) * c = n * c + c
    BY <2>4
  <2> QED BY <2>2, <2>4, <2>5
<1>3. IsFiniteSet(V)
  BY FS_Subset
<1> HIDE DEF Q
<1>4. SUBSET V \subseteq Q
  BY <1>1, <1>2, <1>3, SubsetInduction
<1> QED BY <1>4 DEF Q

\* m moves each element of U to one of W, where h is what f was.
IsMove(m, f, U, h, W) ==
  /\ IsFiniteSet(U) /\ f \in [U -> Int] /\ IsFiniteSet(W) /\ h \in [W -> Int] /\ m \in [U -> W]
  /\ \A x, y \in U : m[x] = m[y] => x = y
  /\ \A x \in U : h[m[x]] = f[x]
Moved(m, V) == {m[x] : x \in V}

\* The total of f over V is that of h over the places V is moved to.
LEMMA TotalMoved ==
  ASSUME NEW U, NEW f, NEW W, NEW h, NEW m, IsMove(m, f, U, h, W)
  PROVE  \A V \in SUBSET U : /\ Total(h, Moved(m, V)) = Total(f, V)
                             /\ Cardinality(Moved(m, V)) = Cardinality(V)
<1>0. /\ IsFiniteSet(U) /\ f \in [U -> Int] /\ IsFiniteSet(W) /\ h \in [W -> Int] /\ m \in [U -> W]
      /\ \A x, y \in U : m[x] = m[y] => x = y
      /\ \A x \in U : h[m[x]] = f[x]
  BY DEF IsMove
<1> DEFINE Im(P) == Moved(m, P)
           Q == {P \in SUBSET U : Total(h, Im(P)) = Total(f, P) /\ Cardinality(Im(P)) = Cardinality(P)}
<1>1. {} \in Q
  <2>1. Im({}) = {}
    BY DEF Moved
  <2>2. Total(h, {}) = 0 /\ Total(f, {}) = 0
    BY <1>0, TotalMore
  <2> QED BY <2>1, <2>2
<1>2. ASSUME NEW P \in SUBSET U, NEW x \in U \ P, P \in Q PROVE P \cup {x} \in Q
  <2>1. Im(P \cup {x}) = Im(P) \cup {m[x]} /\ Im(P) \in SUBSET W /\ m[x] \in W
    BY <1>0 DEF Moved
  <2>2. m[x] \notin Im(P)
    BY <1>0 DEF Moved
  <2>3. Total(f, P \cup {x}) = Total(f, P) + f[x]
    BY <1>0, TotalMore
  <2> DEFINE R == Im(P)
             z == m[x]
  <2>4. R \in SUBSET W /\ z \in W \ R /\ IsFiniteSet(R) /\ IsFiniteSet(P)
    BY <1>0, <2>1, <2>2, FS_Subset
  <2>5. h[z] = f[x] /\ Im(P \cup {x}) = R \cup {z} /\ Total(h, R) = Total(f, P)
        /\ Cardinality(R) = Cardinality(P)
    BY <1>0, <1>2, <2>1
  <2> HIDE DEF R, z, Im
  <2>6. Total(h, R \cup {z}) = Total(h, R) + h[z]
    BY <1>0, <2>4, TotalMore
  <2>7. Cardinality(R \cup {z}) = Cardinality(R) + 1 /\ Cardinality(P \cup {x}) = Cardinality(P) + 1
    BY <2>4, FS_AddElement
  <2> QED BY <2>3, <2>5, <2>6, <2>7
<1> HIDE DEF Q
<1>4. SUBSET U \subseteq Q
  BY <1>0, <1>1, <1>2, SubsetInduction
<1> QED BY <1>4 DEF Q

\* The total of what is c at one element of V and nothing at the others.
LEMMA TotalPoint ==
  ASSUME NEW U, IsFiniteSet(U), NEW f \in [U -> Int], NEW x \in U, \A y \in U : y # x => f[y] = 0
  PROVE  \A V \in SUBSET U : Total(f, V) = IF x \in V THEN f[x] ELSE 0
<1> DEFINE Q == {P \in SUBSET U : Total(f, P) = IF x \in P THEN f[x] ELSE 0}
<1>1. {} \in Q
  BY TotalMore
<1>2. ASSUME NEW P \in SUBSET U, NEW y \in U \ P, P \in Q PROVE P \cup {y} \in Q
  <2>1. Total(f, P \cup {y}) = Total(f, P) + f[y] /\ f[y] \in Int /\ f[x] \in Int
    BY TotalMore
  <2>2. CASE y = x
    BY <1>2, <2>1, <2>2
  <2>3. CASE y # x
    BY <1>2, <2>1, <2>3
  <2> QED BY <2>2, <2>3
<1> HIDE DEF Q
<1>4. SUBSET U \subseteq Q
  BY <1>1, <1>2, SubsetInduction
<1> QED BY <1>4 DEF Q

\* The elements of U that o gives to a.
Fibre(o, U, a) == {x \in U : o[x] = a}

\* F[a] is the total of what f gives to a.
IsShare(F, f, o, U, A) ==
  /\ IsFiniteSet(U) /\ f \in [U -> Int] /\ IsFiniteSet(A) /\ o \in [U -> A] /\ F \in [A -> Int]
  /\ \A a \in A : F[a] = Total(f, Fibre(o, U, a))

\* What is counted apart for each owner is counted once.
LEMMA TotalFibres ==
  ASSUME NEW U, NEW f, NEW A, NEW o, NEW F, IsShare(F, f, o, U, A)
  PROVE  Total(F, A) = Total(f, U)
<1> DEFINE Of(S) == {x \in U : o[x] \in S}
           Q == {S \in SUBSET A : Total(F, S) = Total(f, Of(S))}
<1>0. /\ IsFiniteSet(U) /\ f \in [U -> Int] /\ IsFiniteSet(A) /\ o \in [U -> A]
      /\ F \in [A -> Int]
  BY DEF IsShare
<1>1. {} \in Q
  <2>1. Of({}) = {}
    OBVIOUS
  <2>2. Total(F, {}) = 0 /\ Total(f, {}) = 0
    BY <1>0, TotalMore
  <2> QED BY <2>1, <2>2
<1>2. ASSUME NEW S \in SUBSET A, NEW a \in A \ S, S \in Q PROVE S \cup {a} \in Q
  <2> DEFINE V == Of(S)
             W == Fibre(o, U, a)
  <2>1. V \in SUBSET U /\ W \in SUBSET U /\ (\A x \in V : x \notin W) /\ Of(S \cup {a}) = V \cup W
    BY DEF Fibre
  <2>2. Total(F, S) = Total(f, V) /\ F[a] = Total(f, W)
    BY <1>2 DEF IsShare
  <2> HIDE DEF V, W, Of
  <2>3. Total(f, V \cup W) = Total(f, V) + Total(f, W)
    BY <1>0, <2>1, TotalBoth
  <2>4. Total(F, S \cup {a}) = Total(F, S) + F[a]
    BY <1>0, TotalMore
  <2> QED BY <2>1, <2>2, <2>3, <2>4
<1>3. Of(A) = U
  BY <1>0
<1> HIDE DEF Q
<1>4. SUBSET A \subseteq Q
  BY <1>0, <1>1, <1>2, SubsetInduction
<1>5. A \in Q
  BY <1>4
<1> QED BY <1>3, <1>5 DEF Q

\* f is zero on V.
IsZero(f, V) == \A x \in V : f[x] = 0

\* The total of zeros.
LEMMA TotalZero ==
  ASSUME NEW U, IsFiniteSet(U), NEW f \in [U -> Int], NEW V \in SUBSET U, IsZero(f, V)
  PROVE  Total(f, V) = 0
<1> DEFINE z == 0
<1>1. z \in Int /\ \A x \in V : f[x] = z
  BY DEF IsZero
<1>2. IsFiniteSet(V) /\ Cardinality(V) \in Nat
  BY FS_Subset, FS_CardinalityType
<1> HIDE DEF z
<1>3. Total(f, V) = Cardinality(V) * z
  BY <1>1, TotalConst
<1>4. Cardinality(V) * z = 0
  BY <1>2 DEF z
<1> QED BY <1>3, <1>4

\* k is f with one more element, x.
IsGrown(f, k, S, x) ==
  /\ IsFiniteSet(S) /\ x \notin S /\ f \in [S -> Int] /\ k \in [S \cup {x} -> Int]
  /\ \A y \in S : k[y] = f[y]

\* The total over one more element, for a function that is defined on it too.
LEMMA TotalGrown ==
  ASSUME NEW S, NEW x, NEW f, NEW k, IsGrown(f, k, S, x)
  PROVE  /\ Total(f, S) \in Int /\ k[x] \in Int
         /\ Total(k, S \cup {x}) = Total(f, S) + k[x]
<1> DEFINE U == S \cup {x}
<1>1. /\ IsFiniteSet(S) /\ x \notin S /\ f \in [S -> Int] /\ k \in [U -> Int]
      /\ \A y \in S : f[y] = k[y]
  BY DEF IsGrown
<1>2. S \in SUBSET U /\ S \in SUBSET S /\ S \subseteq U /\ x \in U \ S
  BY <1>1
<1>3. IsFiniteSet(U)
  BY <1>1, FS_AddElement
<1> HIDE DEF U
<1>4. Total(k, S \cup {x}) = Total(k, S) + k[x]
  BY <1>1, <1>2, <1>3, TotalMore
<1>5. Total(f, S) = Total(k, S)
  BY <1>1, <1>2, <1>3, TotalAgrees
<1>6. Total(f, S) \in Int
  BY <1>1, <1>2, TotalMore
<1> QED BY <1>1, <1>2, <1>4, <1>5, <1>6

=============================================================================
