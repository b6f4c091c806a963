------------------------ MODULE MultisignaturesProofs ------------------------
(***************************************************************************)
(* That an account has the group of the creation in the chain, that a       *)
(* creation is pending if it is in the pool, and that what is forged is     *)
(* signed, for any keys, transactions, groups and bounds.                   *)
(***************************************************************************)
EXTENDS Multisignatures, ListsProofs

-----------------------------------------------------------------------------
(* One transaction *)

\* What transactions are applied to.
States == [acc : Account, pending : BOOLEAN, pool : Seq(Tx)]

\* A creation has a group with members, and a minimum.
LEMMA CreationTypes ==
  ASSUME NEW c \in Creation
  PROVE  Group[c] \in SUBSET Key /\ Group[c] # {} /\ Minimum[c] \in Nat /\ c \in Tx
<1>1. Group[c] \in SUBSET Key /\ Minimum[c] \in Nat /\ IsFiniteSet(Group[c])
      /\ Minimum[c] \in 2 .. Cardinality(Group[c]) + 1
  BY ConstantsAssumption
<1>2. Cardinality({}) = 0
  BY FS_EmptySet
<1>3. ASSUME Group[c] = {} PROVE FALSE
  <2>1. Minimum[c] \in 2 .. 0 + 1
    BY <1>1, <1>2, <1>3
  <2> QED BY <2>1
<1> QED BY <1>1, <1>3 DEF Tx

\* The parts of a state.
LEMMA StateTypes ==
  ASSUME NEW s \in States
  PROVE  /\ s.acc \in Account /\ s.pending \in BOOLEAN /\ s.pool \in Seq(Tx)
         /\ s.acc.group \in SUBSET Key /\ s.acc.min \in Int
         /\ s.acc.uGroup \in SUBSET Key /\ s.acc.uMin \in Int
  BY DEF States, Account

\* Two columns are set, and the others stay.
LEMMA ColumnsSet ==
  ASSUME NEW acc \in Account, NEW g \in SUBSET Key, NEW m \in Int
  PROVE  /\ [acc EXCEPT !.uGroup = g, !.uMin = m] \in Account
         /\ [acc EXCEPT !.group = g, !.min = m] \in Account
<1>1. [acc EXCEPT !.uGroup = g, !.uMin = m] \in Account
  BY DEF Account
<1>2. [acc EXCEPT !.group = g, !.min = m] \in Account
  BY DEF Account
<1> QED BY <1>1, <1>2

\* What a merge with a creation makes of the columns.
LEMMA AddUnconfirmedIs ==
  ASSUME NEW acc \in Account, NEW t \in Creation
  PROVE  /\ AddUnconfirmed(acc, t) \in Account
         /\ AddUnconfirmed(acc, t).uGroup = acc.uGroup \cup Group[t] /\ AddUnconfirmed(acc, t).uMin = acc.uMin + Minimum[t]
         /\ AddUnconfirmed(acc, t).group = acc.group /\ AddUnconfirmed(acc, t).min = acc.min
<1> DEFINE g == acc.uGroup \cup Group[t]
           m == acc.uMin + Minimum[t]
<1>1. g \in SUBSET Key /\ m \in Int
  <2>1. Group[t] \in SUBSET Key /\ Minimum[t] \in Nat
    BY CreationTypes
  <2> QED BY <2>1 DEF Account
<1>2. AddUnconfirmed(acc, t) = [acc EXCEPT !.uGroup = g, !.uMin = m]
  BY DEF AddUnconfirmed
<1> HIDE DEF g, m
<1> DEFINE r == [acc EXCEPT !.uGroup = g, !.uMin = m]
<1>3. r.uGroup = g /\ r.uMin = m /\ r.group = acc.group /\ r.min = acc.min
  BY DEF Account
<1>4. r \in Account
  BY <1>1, ColumnsSet
<1> QED BY <1>2, <1>3, <1>4 DEF g, m

\* And with the reverse of it.
LEMMA RemoveUnconfirmedIs ==
  ASSUME NEW acc \in Account, NEW t \in Creation
  PROVE  /\ RemoveUnconfirmed(acc, t) \in Account
         /\ RemoveUnconfirmed(acc, t).uGroup = acc.uGroup \ Group[t] /\ RemoveUnconfirmed(acc, t).uMin = acc.uMin - Minimum[t]
         /\ RemoveUnconfirmed(acc, t).group = acc.group /\ RemoveUnconfirmed(acc, t).min = acc.min
<1> DEFINE g == acc.uGroup \ Group[t]
           m == acc.uMin - Minimum[t]
<1>1. g \in SUBSET Key /\ m \in Int
  <2>1. Group[t] \in SUBSET Key /\ Minimum[t] \in Nat
    BY CreationTypes
  <2> QED BY <2>1 DEF Account
<1>2. RemoveUnconfirmed(acc, t) = [acc EXCEPT !.uGroup = g, !.uMin = m]
  BY DEF RemoveUnconfirmed
<1> HIDE DEF g, m
<1> DEFINE r == [acc EXCEPT !.uGroup = g, !.uMin = m]
<1>3. r.uGroup = g /\ r.uMin = m /\ r.group = acc.group /\ r.min = acc.min
  BY DEF Account
<1>4. r \in Account
  BY <1>1, ColumnsSet
<1> QED BY <1>2, <1>3, <1>4 DEF g, m

\* The same in the confirmed columns.
LEMMA AddConfirmedIs ==
  ASSUME NEW acc \in Account, NEW t \in Creation
  PROVE  /\ AddConfirmed(acc, t) \in Account
         /\ AddConfirmed(acc, t).group = acc.group \cup Group[t] /\ AddConfirmed(acc, t).min = acc.min + Minimum[t]
         /\ AddConfirmed(acc, t).uGroup = acc.uGroup /\ AddConfirmed(acc, t).uMin = acc.uMin
<1> DEFINE g == acc.group \cup Group[t]
           m == acc.min + Minimum[t]
<1>1. g \in SUBSET Key /\ m \in Int
  <2>1. Group[t] \in SUBSET Key /\ Minimum[t] \in Nat
    BY CreationTypes
  <2> QED BY <2>1 DEF Account
<1>2. AddConfirmed(acc, t) = [acc EXCEPT !.group = g, !.min = m]
  BY DEF AddConfirmed
<1> HIDE DEF g, m
<1> DEFINE r == [acc EXCEPT !.group = g, !.min = m]
<1>3. r.group = g /\ r.min = m /\ r.uGroup = acc.uGroup /\ r.uMin = acc.uMin
  BY DEF Account
<1>4. r \in Account
  BY <1>1, ColumnsSet
<1> QED BY <1>2, <1>3, <1>4 DEF g, m

\* And with the reverse.
LEMMA RemoveConfirmedIs ==
  ASSUME NEW acc \in Account, NEW t \in Creation
  PROVE  /\ RemoveConfirmed(acc, t) \in Account
         /\ RemoveConfirmed(acc, t).group = acc.group \ Group[t] /\ RemoveConfirmed(acc, t).min = acc.min - Minimum[t]
         /\ RemoveConfirmed(acc, t).uGroup = acc.uGroup /\ RemoveConfirmed(acc, t).uMin = acc.uMin
<1> DEFINE g == acc.group \ Group[t]
           m == acc.min - Minimum[t]
<1>1. g \in SUBSET Key /\ m \in Int
  <2>1. Group[t] \in SUBSET Key /\ Minimum[t] \in Nat
    BY CreationTypes
  <2> QED BY <2>1 DEF Account
<1>2. RemoveConfirmed(acc, t) = [acc EXCEPT !.group = g, !.min = m]
  BY DEF RemoveConfirmed
<1> HIDE DEF g, m
<1> DEFINE r == [acc EXCEPT !.group = g, !.min = m]
<1>3. r.group = g /\ r.min = m /\ r.uGroup = acc.uGroup /\ r.uMin = acc.uMin
  BY DEF Account
<1>4. r \in Account
  BY <1>1, ColumnsSet
<1> QED BY <1>2, <1>3, <1>4 DEF g, m

\* A creation in the pool has its group and minimum in the unconfirmed columns, ...
LEMMA HoldIs ==
  ASSUME NEW s \in States, NEW t \in Tx
  PROVE  /\ Hold(s, t) \in States /\ Hold(s, t).pool = s.pool
         /\ t \notin Creation => Hold(s, t) = s
         /\ t \in Creation => Hold(s, t).pending = TRUE /\ Hold(s, t).acc = AddUnconfirmed(s.acc, t)
<1>1. CASE t \notin Creation
  BY <1>1 DEF Hold
<1>2. CASE t \in Creation
  <2> DEFINE a == AddUnconfirmed(s.acc, t)
             r == [s EXCEPT !.pending = TRUE, !.acc = a]
  <2>1. Hold(s, t) = r
    BY <1>2 DEF Hold
  <2>2. a \in Account
    BY <1>2, AddUnconfirmedIs, StateTypes
  <2> HIDE DEF a
  <2>3. r \in States /\ r.acc = a /\ r.pending = TRUE /\ r.pool = s.pool
    BY <2>2 DEF States
  <2> HIDE DEF r
  <2> QED BY <1>2, <2>1, <2>3 DEF a
<1> QED BY <1>1, <1>2

\* ... which they leave with it.
LEMMA ReleaseIs ==
  ASSUME NEW s \in States, NEW t \in Tx
  PROVE  /\ Release(s, t) \in States /\ Release(s, t).pool = s.pool
         /\ t \notin Creation => Release(s, t) = s
         /\ t \in Creation => Release(s, t).pending = FALSE /\ Release(s, t).acc = RemoveUnconfirmed(s.acc, t)
<1>1. CASE t \notin Creation
  BY <1>1 DEF Release
<1>2. CASE t \in Creation
  <2> DEFINE a == RemoveUnconfirmed(s.acc, t)
             r == [s EXCEPT !.pending = FALSE, !.acc = a]
  <2>1. Release(s, t) = r
    BY <1>2 DEF Release
  <2>2. a \in Account
    BY <1>2, RemoveUnconfirmedIs, StateTypes
  <2> HIDE DEF a
  <2>3. r \in States /\ r.acc = a /\ r.pending = FALSE /\ r.pool = s.pool
    BY <2>2 DEF States
  <2> HIDE DEF r
  <2> QED BY <1>2, <2>1, <2>3 DEF a
<1> QED BY <1>1, <1>2

\* A creation in a block has them in the confirmed columns, ...
LEMMA ApplyIs ==
  ASSUME NEW s \in States, NEW t \in Tx
  PROVE  /\ Apply(s, t) \in States /\ Apply(s, t).pool = s.pool
         /\ t \notin Creation => Apply(s, t) = s
         /\ t \in Creation => Apply(s, t).pending = FALSE /\ Apply(s, t).acc = AddConfirmed(s.acc, t)
<1>1. CASE t \notin Creation
  BY <1>1 DEF Apply
<1>2. CASE t \in Creation
  <2> DEFINE a == AddConfirmed(s.acc, t)
             r == [s EXCEPT !.pending = FALSE, !.acc = a]
  <2>1. Apply(s, t) = r
    BY <1>2 DEF Apply
  <2>2. a \in Account
    BY <1>2, AddConfirmedIs, StateTypes
  <2> HIDE DEF a
  <2>3. r \in States /\ r.acc = a /\ r.pending = FALSE /\ r.pool = s.pool
    BY <2>2 DEF States
  <2> HIDE DEF r
  <2> QED BY <1>2, <2>1, <2>3 DEF a
<1> QED BY <1>1, <1>2

\* ... which they leave when it is popped.
LEMMA UndoIs ==
  ASSUME NEW s \in States, NEW t \in Tx
  PROVE  /\ Undo(s, t) \in States /\ Undo(s, t).pool = s.pool
         /\ t \notin Creation => Undo(s, t) = s
         /\ t \in Creation => Undo(s, t).pending = TRUE /\ Undo(s, t).acc = RemoveConfirmed(s.acc, t)
<1>1. CASE t \notin Creation
  BY <1>1 DEF Undo
<1>2. CASE t \in Creation
  <2> DEFINE a == RemoveConfirmed(s.acc, t)
             r == [s EXCEPT !.pending = TRUE, !.acc = a]
  <2>1. Undo(s, t) = r
    BY <1>2 DEF Undo
  <2>2. a \in Account
    BY <1>2, RemoveConfirmedIs, StateTypes
  <2> HIDE DEF a
  <2>3. r \in States /\ r.acc = a /\ r.pending = TRUE /\ r.pool = s.pool
    BY <2>2 DEF States
  <2> HIDE DEF r
  <2> QED BY <1>2, <2>1, <2>3 DEF a
<1> QED BY <1>1, <1>2

\* applyUnconfirmed and apply: nothing is pending, the columns have the creation.
LEMMA ApplyBothIs ==
  ASSUME NEW s \in States, NEW t \in Tx
  PROVE  /\ ApplyBoth(s, t) \in States /\ ApplyBoth(s, t).pool = s.pool
         /\ t \notin Creation => ApplyBoth(s, t) = s
         /\ t \in Creation => /\ ~ApplyBoth(s, t).pending
                              /\ ApplyBoth(s, t).acc.group = s.acc.group \cup Group[t]
                              /\ ApplyBoth(s, t).acc.min = s.acc.min + Minimum[t]
                              /\ ApplyBoth(s, t).acc.uGroup = s.acc.uGroup \cup Group[t]
                              /\ ApplyBoth(s, t).acc.uMin = s.acc.uMin + Minimum[t]
<1> DEFINE h == Hold(s, t)
<1>1. /\ h \in States /\ h.pool = s.pool
      /\ t \notin Creation => h = s
      /\ t \in Creation => h.acc = AddUnconfirmed(s.acc, t)
  BY HoldIs
<1>2. ApplyBoth(s, t) = Apply(h, t)
  BY DEF ApplyBoth
<1> HIDE DEF h
<1>3. CASE t \notin Creation
  BY <1>1, <1>2, <1>3, ApplyIs
<1>4. CASE t \in Creation
  <2>1. /\ h.acc \in Account /\ h.acc.group = s.acc.group /\ h.acc.min = s.acc.min
        /\ h.acc.uGroup = s.acc.uGroup \cup Group[t] /\ h.acc.uMin = s.acc.uMin + Minimum[t]
    BY <1>1, <1>4, AddUnconfirmedIs, StateTypes
  <2>2. /\ Apply(h, t).pending = FALSE /\ Apply(h, t).acc = AddConfirmed(h.acc, t)
        /\ Apply(h, t) \in States /\ Apply(h, t).pool = h.pool
    BY <1>1, <1>4, ApplyIs
  <2>3. /\ AddConfirmed(h.acc, t).group = h.acc.group \cup Group[t]
        /\ AddConfirmed(h.acc, t).min = h.acc.min + Minimum[t]
        /\ AddConfirmed(h.acc, t).uGroup = h.acc.uGroup
        /\ AddConfirmed(h.acc, t).uMin = h.acc.uMin
    BY <1>4, <2>1, AddConfirmedIs
  <2> QED BY <1>1, <1>2, <1>4, <2>1, <2>2, <2>3
<1> QED BY <1>3, <1>4

\* undo and undoUnconfirmed: nothing is pending, the columns are without it.
LEMMA UndoBothIs ==
  ASSUME NEW s \in States, NEW t \in Tx
  PROVE  /\ UndoBoth(s, t) \in States /\ UndoBoth(s, t).pool = s.pool
         /\ t \notin Creation => UndoBoth(s, t) = s
         /\ t \in Creation => /\ ~UndoBoth(s, t).pending
                              /\ UndoBoth(s, t).acc.group = s.acc.group \ Group[t]
                              /\ UndoBoth(s, t).acc.min = s.acc.min - Minimum[t]
                              /\ UndoBoth(s, t).acc.uGroup = s.acc.uGroup \ Group[t]
                              /\ UndoBoth(s, t).acc.uMin = s.acc.uMin - Minimum[t]
<1> DEFINE u == Undo(s, t)
<1>1. /\ u \in States /\ u.pool = s.pool
      /\ t \notin Creation => u = s
      /\ t \in Creation => u.acc = RemoveConfirmed(s.acc, t)
  BY UndoIs
<1>2. UndoBoth(s, t) = Release(u, t)
  BY DEF UndoBoth
<1> HIDE DEF u
<1>3. CASE t \notin Creation
  BY <1>1, <1>2, <1>3, ReleaseIs
<1>4. CASE t \in Creation
  <2>1. /\ u.acc \in Account /\ u.acc.uGroup = s.acc.uGroup /\ u.acc.uMin = s.acc.uMin
        /\ u.acc.group = s.acc.group \ Group[t] /\ u.acc.min = s.acc.min - Minimum[t]
    BY <1>1, <1>4, RemoveConfirmedIs, StateTypes
  <2>2. /\ Release(u, t).pending = FALSE /\ Release(u, t).acc = RemoveUnconfirmed(u.acc, t)
        /\ Release(u, t) \in States /\ Release(u, t).pool = u.pool
    BY <1>1, <1>4, ReleaseIs
  <2>3. /\ RemoveUnconfirmed(u.acc, t).uGroup = u.acc.uGroup \ Group[t]
        /\ RemoveUnconfirmed(u.acc, t).uMin = u.acc.uMin - Minimum[t]
        /\ RemoveUnconfirmed(u.acc, t).group = u.acc.group
        /\ RemoveUnconfirmed(u.acc, t).min = u.acc.min
    BY <1>4, <2>1, RemoveUnconfirmedIs
  <2> QED BY <1>1, <1>2, <1>4, <2>1, <2>2, <2>3
<1> QED BY <1>3, <1>4

-----------------------------------------------------------------------------
(* Lists and sets of transactions *)

\* The transactions of a block, in the order they are applied in.
LEMMA ListOfSet ==
  ASSUME NEW S, IsFiniteSet(S)
  PROVE  SetToSeq(S) \in Seq(S) /\ ToSet(SetToSeq(S)) = S /\ IsInjective(SetToSeq(S))
<1> DEFINE n == Cardinality(S)
           f == SetToSeq(S)
<1>1. n \in Nat /\ IsFiniteSet(1 .. n) /\ Cardinality(1 .. n) = n
  BY FS_CardinalityType, FS_Interval
<1>2. PICK g : g \in Bijection(1 .. n, S)
  BY FS_CardinalityType DEF ExistsBijection
<1>3. g \in [1 .. n -> S] /\ IsInjective(g)
  BY <1>2 DEF Bijection, Injection
<1>4. f \in [1 .. n -> S] /\ IsInjective(f)
  BY <1>3 DEF SetToSeq
<1>5. f \in Surjection(1 .. n, S)
  <2>1. f \in Injection(1 .. n, S)
    BY <1>4 DEF Injection
  <2> QED BY <1>1, <2>1, FS_Injection
<1>6. DOMAIN f = 1 .. n /\ \A x \in S : \E i \in 1 .. n : f[i] = x
  BY <1>4, <1>5 DEF Surjection
<1> HIDE DEF f, n
<1>7. ToSet(f) = S
  BY <1>4, <1>6 DEF ToSet
<1>8. f \in Seq(S)
  BY <1>1, <1>4, FunctionIsList
<1> QED BY <1>4, <1>7, <1>8 DEF f

\* The transactions of a block, in the order of sortTransactions.
LEMMA SortedIs ==
  ASSUME NEW S \in SUBSET Tx
  PROVE  Sorted(S) \in Seq(Tx) /\ ToSet(Sorted(S)) = S /\ IsInjective(Sorted(S))
<1> DEFINE B == [t \in S |-> {u \in S : Before(u, t)}]
           q == [p \in 1 .. Cardinality(S) |-> CHOOSE t \in S : Cardinality(B[t]) = p - 1]
           e(p) == CHOOSE t \in S : Cardinality({u \in S : Before(u, t)}) = p - 1
           d(p) == CHOOSE t \in S : Cardinality(B[t]) = p - 1
<1>1. IsFiniteSet(S) /\ \A t \in S : t \in Tx /\ Rank[t] \in Nat
  BY ConstantsAssumption, FS_Subset
<1>2. \A t, u \in S : Rank[t] = Rank[u] => t = u
  BY ConstantsAssumption
<1>3. \A t, u \in S : u \in B[t] <=> Before(u, t)
  OBVIOUS
<1>4. B \in [S -> SUBSET S]
  OBVIOUS
<1>5. \A p : d(p) = e(p)
  <2> SUFFICES ASSUME NEW p PROVE d(p) = e(p)
    OBVIOUS
  <2>1. \A t \in S : B[t] = {u \in S : Before(u, t)}
    OBVIOUS
  <2> HIDE DEF B
  <2> QED BY <2>1
<1>6. q = [p \in 1 .. Cardinality(S) |-> d(p)]
      /\ Sorted(S) = [p \in 1 .. Cardinality(S) |-> e(p)]
  BY DEF Sorted, InOrder
<1>7. q = Sorted(S)
  <2> HIDE DEF q, d, e
  <2> QED BY <1>5, <1>6
<1>8. q = [p \in 1 .. Cardinality(S) |-> CHOOSE t \in S : Cardinality(B[t]) = p - 1]
  OBVIOUS
<1> HIDE DEF B, q
<1>9. \A t \in S : t \notin B[t]
  BY <1>1, <1>3 DEF Before
<1>10. \A t, u \in S : t # u => t \in B[u] \/ u \in B[t]
  BY <1>1, <1>2, <1>3 DEF Before
<1>11. \A t, u \in S : u \in B[t] => B[u] \subseteq B[t]
  <2> SUFFICES ASSUME NEW t \in S, NEW u \in S, u \in B[t], NEW v \in B[u]
               PROVE  v \in B[t]
    OBVIOUS
  <2>1. v \in S
    BY <1>4
  <2>2. Before(u, t) /\ Before(v, u)
    BY <1>3, <2>1
  <2>3. Before(v, t)
    BY <1>1, <2>1, <2>2 DEF Before
  <2> QED BY <1>3, <2>1, <2>3
<1>12. q \in Seq(S) /\ ToSet(q) = S /\ IsInjective(q)
  BY <1>1, <1>4, <1>8, <1>9, <1>10, <1>11, RanksList
<1>13. q \in Seq(Tx)
  BY <1>1, <1>12
<1> QED BY <1>7, <1>12, <1>13

\* A list is undone one by one.
LEMMA ReleaseFold ==
  ASSUME NEW s \in States, NEW l \in Seq(Tx), NEW J, s \in J[0],
         \A i \in 1 .. Len(l) : \A x \in States : x \in J[i - 1] => Release(x, l[i]) \in J[i]
  PROVE  FoldLeft(Release, s, l) \in States /\ FoldLeft(Release, s, l) \in J[Len(l)]
<1> DEFINE One(x, t) == Release(x, t)
           G == [p \in States \X Tx |-> One(p[1], p[2])]
           Body(it) == [P \in SUBSET (DOMAIN l) |->
                         IF P = {} THEN s ELSE One(it[P \ {Max(P)}], l[Max(P)])]
           it == CHOOSE it : it = Body(it)
<1>1. \A x \in States, t \in Tx : One(x, t) \in States
  BY ReleaseIs
<1>2. FoldLeft(Release, s, l) = it[DOMAIN l]
  BY DEF FoldLeft, MapThenFoldSet
<1>3. \A i \in 1 .. Len(l) : \A x \in States : x \in J[i - 1] => One(x, l[i]) \in J[i]
  OBVIOUS
<1> HIDE DEF One
<1>4. G \in [States \X Tx -> States] /\ \A x \in States, t \in Tx : G[<<x, t>>] = One(x, t)
  BY <1>1
<1> HIDE DEF G
<1>5. PICK jt : IsFold(jt, s, G, l, States, Tx)
  BY <1>4, FoldExists
<1>6. jt = Body(jt)
  BY <1>4, <1>5 DEF IsFold
<1>7. it = Body(it)
  BY <1>6
<1> HIDE DEF it
<1>8. Follows(it, s, G, l, States)
  <2>1. ASSUME NEW P \in SUBSET (DOMAIN l), P # {}, it[P \ {Max(P)}] \in States
        PROVE  it[P] = G[<<it[P \ {Max(P)}], l[Max(P)]>>]
    <3>1. l[Max(P)] \in Tx
      BY <1>5, <2>1 DEF IsFold
    <3>2. it[P] = One(it[P \ {Max(P)}], l[Max(P)])
      BY <1>7, <2>1
    <3> QED BY <1>4, <2>1, <3>1, <3>2
  <2>2. it[{}] = s
    BY <1>7
  <2> QED BY <2>1, <2>2 DEF Follows
<1>9. Keeps(G, l, States, J)
  BY <1>3, <1>4 DEF Keeps
<1>10. it[DOMAIN l] \in States /\ it[DOMAIN l] \in J[Len(l)]
  BY <1>4, <1>8, <1>9, FoldWithin
<1> QED BY <1>2, <1>10


\* All but the creation in it is left alone.
LEMMA ReleaseOnly ==
  ASSUME NEW s \in States, NEW l \in Seq(Tx), IsInjective(l),
         NEW c, \A d \in Creation \cap ToSet(l) : d = c
  PROVE  FoldLeft(Release, s, l) = IF c \in Creation \cap ToSet(l) THEN Release(s, c) ELSE s
<1> DEFINE Made(i) == IF c \in Creation \cap First(l, i) THEN Release(s, c) ELSE s
           J == [i \in 0 .. Len(l) |-> {Made(i)}]
<1>1. Len(l) \in Nat /\ First(l, 0) = {} /\ First(l, Len(l)) = ToSet(l)
  BY FirstIs
<1>2. s \in J[0]
  BY <1>1
<1>3. ASSUME NEW i \in 1 .. Len(l), NEW x \in States, x \in J[i - 1]
      PROVE  Release(x, l[i]) \in J[i]
  <2>1. x = Made(i - 1)
    BY <1>1, <1>3
  <2>2. /\ l[i] \in Tx /\ l[i] \in ToSet(l) /\ l[i] \notin First(l, i - 1)
        /\ First(l, i) = First(l, i - 1) \cup {l[i]}
    <3>1. l[i] \in ToSet(l)
      BY <1>1 DEF ToSet
    <3> QED BY <3>1, FirstIs
  <2>3. CASE l[i] \in Creation
    <3>1. l[i] = c
      BY <2>2, <2>3
    <3>2. Made(i) = Release(s, c) /\ x = s
      BY <2>1, <2>2, <2>3, <3>1
    <3> QED BY <1>1, <3>1, <3>2
  <2>4. CASE l[i] \notin Creation
    <3>1. Release(x, l[i]) = x
      BY <2>2, <2>4, ReleaseIs
    <3>2. c \in Creation \cap First(l, i) <=> c \in Creation \cap First(l, i - 1)
      BY <2>2, <2>4
    <3>3. Made(i) = x
      BY <2>1, <3>2
    <3> HIDE DEF Made
    <3> QED BY <1>1, <3>1, <3>3
  <2> QED BY <2>3, <2>4
<1> HIDE DEF J
<1>4. FoldLeft(Release, s, l) \in J[Len(l)]
  BY <1>2, <1>3, ReleaseFold
<1>5. Len(l) \in 0 .. Len(l)
  BY <1>1
<1>6. FoldLeft(Release, s, l) = Made(Len(l))
  <2> HIDE DEF Made
  <2> QED BY <1>4, <1>5 DEF J
<1> QED BY <1>1, <1>6

\* They are undone one by one.
LEMMA UndoFold ==
  ASSUME NEW s \in States, NEW l \in Seq(Tx), NEW J, s \in J[0],
         \A i \in 1 .. Len(l) : \A x \in States : x \in J[i - 1] => UndoBoth(x, l[i]) \in J[i]
  PROVE  FoldLeft(UndoBoth, s, l) \in States /\ FoldLeft(UndoBoth, s, l) \in J[Len(l)]
<1> DEFINE One(x, t) == UndoBoth(x, t)
           G == [p \in States \X Tx |-> One(p[1], p[2])]
           Body(it) == [P \in SUBSET (DOMAIN l) |->
                         IF P = {} THEN s ELSE One(it[P \ {Max(P)}], l[Max(P)])]
           it == CHOOSE it : it = Body(it)
<1>1. \A x \in States, t \in Tx : One(x, t) \in States
  BY UndoBothIs
<1>2. FoldLeft(UndoBoth, s, l) = it[DOMAIN l]
  BY DEF FoldLeft, MapThenFoldSet
<1>3. \A i \in 1 .. Len(l) : \A x \in States : x \in J[i - 1] => One(x, l[i]) \in J[i]
  OBVIOUS
<1> HIDE DEF One
<1>4. G \in [States \X Tx -> States] /\ \A x \in States, t \in Tx : G[<<x, t>>] = One(x, t)
  BY <1>1
<1> HIDE DEF G
<1>5. PICK jt : IsFold(jt, s, G, l, States, Tx)
  BY <1>4, FoldExists
<1>6. jt = Body(jt)
  BY <1>4, <1>5 DEF IsFold
<1>7. it = Body(it)
  BY <1>6
<1> HIDE DEF it
<1>8. Follows(it, s, G, l, States)
  <2>1. ASSUME NEW P \in SUBSET (DOMAIN l), P # {}, it[P \ {Max(P)}] \in States
        PROVE  it[P] = G[<<it[P \ {Max(P)}], l[Max(P)]>>]
    <3>1. l[Max(P)] \in Tx
      BY <1>5, <2>1 DEF IsFold
    <3>2. it[P] = One(it[P \ {Max(P)}], l[Max(P)])
      BY <1>7, <2>1
    <3> QED BY <1>4, <2>1, <3>1, <3>2
  <2>2. it[{}] = s
    BY <1>7
  <2> QED BY <2>1, <2>2 DEF Follows
<1>9. Keeps(G, l, States, J)
  BY <1>3, <1>4 DEF Keeps
<1>10. it[DOMAIN l] \in States /\ it[DOMAIN l] \in J[Len(l)]
  BY <1>4, <1>8, <1>9, FoldWithin
<1> QED BY <1>2, <1>10


\* All but the creation in it is left alone.
LEMMA UndoOnly ==
  ASSUME NEW s \in States, NEW l \in Seq(Tx), IsInjective(l),
         NEW c, \A d \in Creation \cap ToSet(l) : d = c
  PROVE  FoldLeft(UndoBoth, s, l) = IF c \in Creation \cap ToSet(l) THEN UndoBoth(s, c) ELSE s
<1> DEFINE Made(i) == IF c \in Creation \cap First(l, i) THEN UndoBoth(s, c) ELSE s
           J == [i \in 0 .. Len(l) |-> {Made(i)}]
<1>1. Len(l) \in Nat /\ First(l, 0) = {} /\ First(l, Len(l)) = ToSet(l)
  BY FirstIs
<1>2. s \in J[0]
  BY <1>1
<1>3. ASSUME NEW i \in 1 .. Len(l), NEW x \in States, x \in J[i - 1]
      PROVE  UndoBoth(x, l[i]) \in J[i]
  <2>1. x = Made(i - 1)
    BY <1>1, <1>3
  <2>2. /\ l[i] \in Tx /\ l[i] \in ToSet(l) /\ l[i] \notin First(l, i - 1)
        /\ First(l, i) = First(l, i - 1) \cup {l[i]}
    <3>1. l[i] \in ToSet(l)
      BY <1>1 DEF ToSet
    <3> QED BY <3>1, FirstIs
  <2>3. CASE l[i] \in Creation
    <3>1. l[i] = c
      BY <2>2, <2>3
    <3>2. Made(i) = UndoBoth(s, c) /\ x = s
      BY <2>1, <2>2, <2>3, <3>1
    <3> QED BY <1>1, <3>1, <3>2
  <2>4. CASE l[i] \notin Creation
    <3>1. UndoBoth(x, l[i]) = x
      BY <2>2, <2>4, UndoBothIs
    <3>2. c \in Creation \cap First(l, i) <=> c \in Creation \cap First(l, i - 1)
      BY <2>2, <2>4
    <3>3. Made(i) = x
      BY <2>1, <3>2
    <3> HIDE DEF Made
    <3> QED BY <1>1, <3>1, <3>3
  <2> QED BY <2>3, <2>4
<1> HIDE DEF J
<1>4. FoldLeft(UndoBoth, s, l) \in J[Len(l)]
  BY <1>2, <1>3, UndoFold
<1>5. Len(l) \in 0 .. Len(l)
  BY <1>1
<1>6. FoldLeft(UndoBoth, s, l) = Made(Len(l))
  <2> HIDE DEF Made
  <2> QED BY <1>4, <1>5 DEF J
<1> QED BY <1>1, <1>6


\* The states of applyBlock, between two transactions.
Processings == [s : States, applied : SUBSET Tx, failed : SUBSET Tx, refused : SUBSET Tx]

\* What one transaction makes of them.
LEMMA ProcessOneIs ==
  ASSUME NEW x \in Processings, NEW t \in Tx, NEW b,
         NEW r, r = ProcessOne(x, t, b)
  PROVE  /\ r \in Processings
         /\ \/ x.failed # {} /\ r = x
            \/ /\ x.failed = {} /\ ~CanHold(x.s, t) /\ r.failed = {t}
               /\ r.s = x.s /\ r.applied = x.applied /\ r.refused = x.refused
            \/ /\ x.failed = {} /\ CanHold(x.s, t) /\ ~Ready(t, b[t], x.s.acc)
               /\ r.failed = {t} /\ r.refused = {t}
               /\ r.s = Hold(x.s, t) /\ r.applied = x.applied
            \/ /\ x.failed = {} /\ CanHold(x.s, t) /\ Ready(t, b[t], x.s.acc)
               /\ r.failed = {} /\ r.refused = x.refused
               /\ r.s = ApplyBoth(x.s, t) /\ r.applied = x.applied \cup {t}
<1> DEFINE h == Hold(x.s, t)
           u == ApplyBoth(x.s, t)
<1>1. x.s \in States /\ x.applied \cup {t} \in SUBSET Tx /\ {t} \in SUBSET Tx
  BY DEF Processings
<1>2. h \in States /\ u \in States
  BY <1>1, HoldIs, ApplyBothIs
<1>3. CASE x.failed # {}
  BY <1>3 DEF ProcessOne
<1>4. CASE x.failed = {} /\ ~CanHold(x.s, t)
  <2>1. r = [x EXCEPT !.failed = {t}]
    BY <1>4 DEF ProcessOne
  <2> QED BY <1>1, <1>4, <2>1 DEF Processings
<1>5. CASE x.failed = {} /\ CanHold(x.s, t) /\ ~Ready(t, b[t], x.s.acc)
  <2>1. r = [x EXCEPT !.s = h, !.failed = {t}, !.refused = {t}]
    BY <1>5 DEF ProcessOne
  <2> HIDE DEF h, u
  <2>2. /\ r \in Processings /\ r.failed = {t} /\ r.refused = {t}
        /\ r.s = h /\ r.applied = x.applied
    BY <1>1, <1>2, <2>1 DEF Processings
  <2> QED BY <1>5, <2>2 DEF h
<1>6. CASE x.failed = {} /\ CanHold(x.s, t) /\ Ready(t, b[t], x.s.acc)
  <2>1. r = [x EXCEPT !.s = u, !.applied = x.applied \cup {t}]
    BY <1>6 DEF ProcessOne
  <2> HIDE DEF h, u
  <2>2. /\ r \in Processings /\ r.failed = x.failed /\ r.refused = x.refused
        /\ r.s = u /\ r.applied = x.applied \cup {t}
    BY <1>1, <1>2, <2>1 DEF Processings
  <2> QED BY <1>6, <2>2 DEF u
<1> QED BY <1>3, <1>4, <1>5, <1>6

\* The transactions of a block are applied one by one.
LEMMA ProcessFold ==
  ASSUME NEW s \in Processings, NEW l \in Seq(Tx), NEW J, s \in J[0], NEW m,
         \A i \in 1 .. Len(l) : \A x \in Processings : x \in J[i - 1] => ProcessOne(x, l[i], m) \in J[i]
  PROVE  ProcessEach(s, l, m) \in Processings /\ ProcessEach(s, l, m) \in J[Len(l)]
<1> DEFINE One(x, t) == ProcessOne(x, t, m)
           G == [p \in Processings \X Tx |-> One(p[1], p[2])]
           Body(it) == [P \in SUBSET (DOMAIN l) |->
                         IF P = {} THEN s ELSE One(it[P \ {Max(P)}], l[Max(P)])]
           it == CHOOSE it : it = Body(it)
<1>1. \A x \in Processings, t \in Tx : One(x, t) \in Processings
  BY ProcessOneIs
<1>2. ProcessEach(s, l, m) = it[DOMAIN l]
  BY DEF FoldLeft, MapThenFoldSet, ProcessEach
<1>3. \A i \in 1 .. Len(l) : \A x \in Processings : x \in J[i - 1] => One(x, l[i]) \in J[i]
  OBVIOUS
<1> HIDE DEF One
<1>4. G \in [Processings \X Tx -> Processings] /\ \A x \in Processings, t \in Tx : G[<<x, t>>] = One(x, t)
  BY <1>1
<1> HIDE DEF G
<1>5. PICK jt : IsFold(jt, s, G, l, Processings, Tx)
  BY <1>4, FoldExists
<1>6. jt = Body(jt)
  BY <1>4, <1>5 DEF IsFold
<1>7. it = Body(it)
  BY <1>6
<1> HIDE DEF it
<1>8. Follows(it, s, G, l, Processings)
  <2>1. ASSUME NEW P \in SUBSET (DOMAIN l), P # {}, it[P \ {Max(P)}] \in Processings
        PROVE  it[P] = G[<<it[P \ {Max(P)}], l[Max(P)]>>]
    <3>1. l[Max(P)] \in Tx
      BY <1>5, <2>1 DEF IsFold
    <3>2. it[P] = One(it[P \ {Max(P)}], l[Max(P)])
      BY <1>7, <2>1
    <3> QED BY <1>4, <2>1, <3>1, <3>2
  <2>2. it[{}] = s
    BY <1>7
  <2> QED BY <2>1, <2>2 DEF Follows
<1>9. Keeps(G, l, Processings, J)
  BY <1>3, <1>4 DEF Keeps
<1>10. it[DOMAIN l] \in Processings /\ it[DOMAIN l] \in J[Len(l)]
  BY <1>4, <1>8, <1>9, FoldWithin
<1> QED BY <1>2, <1>10

\* The states of receiveTransactions.
Receivings == [going : BOOLEAN, s : States]

\* One step of it keeps the type.
LEMMA ReceiveOneType ==
  ASSUME NEW x \in Receivings, NEW t \in Tx, NEW m
  PROVE  ReceiveOne(x, t, m) \in Receivings
<1>1. x.s \in States
  BY DEF Receivings
<1>2. Hold(x.s, t) \in States
  BY <1>1, HoldIs
<1>3. Append(Hold(x.s, t).pool, t) \in Seq(Tx)
  BY <1>2, StateTypes, AppendIs
<1>4. Receive(x.s, t) \in States
  BY <1>2, <1>3 DEF Receive, States
<1> QED BY <1>4 DEF ReceiveOne, Receivings

\* A list is received one by one.
LEMMA ReceiveFold ==
  ASSUME NEW s \in Receivings, NEW l \in Seq(Tx), NEW J, s \in J[0], NEW m,
         \A i \in 1 .. Len(l) : \A x \in Receivings : x \in J[i - 1] => ReceiveOne(x, l[i], m) \in J[i]
  PROVE  ReceiveEach(s, l, m) \in Receivings /\ ReceiveEach(s, l, m) \in J[Len(l)]
<1> DEFINE One(x, t) == ReceiveOne(x, t, m)
           G == [p \in Receivings \X Tx |-> One(p[1], p[2])]
           Body(it) == [P \in SUBSET (DOMAIN l) |->
                         IF P = {} THEN s ELSE One(it[P \ {Max(P)}], l[Max(P)])]
           it == CHOOSE it : it = Body(it)
<1>1. \A x \in Receivings, t \in Tx : One(x, t) \in Receivings
  BY ReceiveOneType
<1>2. ReceiveEach(s, l, m) = it[DOMAIN l]
  BY DEF FoldLeft, MapThenFoldSet, ReceiveEach
<1>3. \A i \in 1 .. Len(l) : \A x \in Receivings : x \in J[i - 1] => One(x, l[i]) \in J[i]
  OBVIOUS
<1> HIDE DEF One
<1>4. G \in [Receivings \X Tx -> Receivings] /\ \A x \in Receivings, t \in Tx : G[<<x, t>>] = One(x, t)
  BY <1>1
<1> HIDE DEF G
<1>5. PICK jt : IsFold(jt, s, G, l, Receivings, Tx)
  BY <1>4, FoldExists
<1>6. jt = Body(jt)
  BY <1>4, <1>5 DEF IsFold
<1>7. it = Body(it)
  BY <1>6
<1> HIDE DEF it
<1>8. Follows(it, s, G, l, Receivings)
  <2>1. ASSUME NEW P \in SUBSET (DOMAIN l), P # {}, it[P \ {Max(P)}] \in Receivings
        PROVE  it[P] = G[<<it[P \ {Max(P)}], l[Max(P)]>>]
    <3>1. l[Max(P)] \in Tx
      BY <1>5, <2>1 DEF IsFold
    <3>2. it[P] = One(it[P \ {Max(P)}], l[Max(P)])
      BY <1>7, <2>1
    <3> QED BY <1>4, <2>1, <3>1, <3>2
  <2>2. it[{}] = s
    BY <1>7
  <2> QED BY <2>1, <2>2 DEF Follows
<1>9. Keeps(G, l, Receivings, J)
  BY <1>3, <1>4 DEF Keeps
<1>10. it[DOMAIN l] \in Receivings /\ it[DOMAIN l] \in J[Len(l)]
  BY <1>4, <1>8, <1>9, FoldWithin
<1> QED BY <1>2, <1>10

-----------------------------------------------------------------------------
(* What stays true *)

\* The creations among the transactions in X.
Made(X) == Creation \cap X

\* The columns g and m have the creation in C, if there is one.
IsOf(g, m, C) ==
  /\ \A c, d \in C : c = d
  /\ C = {} => g = {} /\ m = 0
  /\ \A c \in C : g = Group[c] /\ m = Minimum[c]

\* s is what an account is with the creations in C in its chain.  A creation that is
\* loose has left the pool, and keeps others out; columns that are old have been
\* through a restart.
IsKept(s, C, loose, old) ==
  /\ IsInjective(s.pool)
  /\ IsOf(s.acc.group, s.acc.min, C)
  /\ \A c, d \in Made(ToSet(s.pool)) : c = d
  /\ s.pending <=> loose \/ Made(ToSet(s.pool)) # {}
  /\ loose => Made(ToSet(s.pool)) = {}
  /\ s.pending => C = {}
  /\ ~loose /\ ~old => IsOf(s.acc.uGroup, s.acc.uMin, C \cup Made(ToSet(s.pool)))

\* A group without members is that of no creation.
LEMMA GroupOf ==
  ASSUME NEW g, NEW m, NEW C \in SUBSET Creation, IsOf(g, m, C)
  PROVE  g = {} <=> C = {}
  BY CreationTypes DEF IsOf

\* Undoing the pool leaves nothing pending, but what is loose.
LEMMA UndoAllKeeps ==
  ASSUME NEW s \in States, NEW C \in SUBSET Creation, NEW loose \in BOOLEAN,
         NEW old \in BOOLEAN, IsKept(s, C, loose, old)
  PROVE  /\ UndoAll(s) \in States /\ UndoAll(s).pool = <<>>
         /\ UndoAll(s).acc.group = s.acc.group /\ UndoAll(s).acc.min = s.acc.min
         /\ IsKept(UndoAll(s), C, loose, old)
<1> DEFINE e == [s EXCEPT !.pool = <<>>]
           H == Made(ToSet(s.pool))
           c == CHOOSE x \in H : TRUE
           u == UndoAll(s)
<1>1. s.pool \in Seq(Tx) /\ s.acc \in Account /\ s.pending \in BOOLEAN
  BY StateTypes
<1>2. e \in States /\ e.pool = <<>> /\ e.acc = s.acc /\ e.pending = s.pending
  <2>1. <<>> \in Seq(Tx)
    OBVIOUS
  <2> QED BY <2>1 DEF States
<1>3. \A d \in Creation \cap ToSet(s.pool) : d = c
  BY DEF IsKept, Made
<1>4. IsInjective(s.pool)
  BY DEF IsKept
<1>5. u = FoldLeft(Release, e, s.pool)
  BY DEF UndoAll
<1>6. ToSet(<<>>) = {} /\ IsInjective(<<>>) /\ Made(ToSet(<<>>)) = {}
  BY DEF ToSet, Made, IsInjective
<1> HIDE DEF e, c, u
<1>7. u = IF c \in Creation \cap ToSet(s.pool) THEN Release(e, c) ELSE e
  BY <1>1, <1>2, <1>3, <1>4, <1>5, ReleaseOnly
<1>8. CASE H = {}
  <2>1. u = e
    BY <1>7, <1>8 DEF Made
  <2> QED BY <1>2, <1>6, <1>8, <2>1 DEF IsKept, u
<1>9. CASE H # {}
  <2>1. c \in H /\ c \in Creation /\ c \in Tx
    BY <1>9, CreationTypes DEF c, Made
  <2>2. u = Release(e, c)
    BY <1>7, <2>1 DEF Made
  <2>3. /\ u \in States /\ u.pool = <<>> /\ u.pending = FALSE
        /\ u.acc = RemoveUnconfirmed(s.acc, c)
    BY <1>2, <2>1, <2>2, ReleaseIs
  <2>4. /\ u.acc.group = s.acc.group /\ u.acc.min = s.acc.min
        /\ u.acc.uGroup = s.acc.uGroup \ Group[c] /\ u.acc.uMin = s.acc.uMin - Minimum[c]
    BY <1>1, <2>1, <2>3, RemoveUnconfirmedIs
  <2>5. ~loose /\ C = {}
    BY <1>9 DEF IsKept
  <2>6. ~old => IsOf(u.acc.uGroup, u.acc.uMin, {})
    <3> SUFFICES ASSUME ~old PROVE IsOf(u.acc.uGroup, u.acc.uMin, {})
      OBVIOUS
    <3>1. s.acc.uGroup = Group[c] /\ s.acc.uMin = Minimum[c]
      BY <2>1, <2>5 DEF IsKept, IsOf
    <3>2. u.acc.uGroup = {} /\ u.acc.uMin = 0
      BY <2>1, <2>4, <3>1, CreationTypes
    <3> QED BY <3>2 DEF IsOf
  <2>7. IsOf(u.acc.group, u.acc.min, C)
    BY <2>4 DEF IsKept
  <2>8. C \cup Made(ToSet(<<>>)) = {}
    BY <1>6, <2>5
  <2> QED BY <1>6, <2>3, <2>4, <2>5, <2>6, <2>7, <2>8 DEF IsKept, u
<1> QED BY <1>8, <1>9

\* A block can have a creation only if there is none in the chain.
LEMMA ApplyKeeps ==
  ASSUME NEW s \in States, NEW C \in SUBSET Creation, NEW loose \in BOOLEAN,
         NEW old \in BOOLEAN, IsKept(s, C, loose, old), s.pool = <<>>,
         NEW t \in Tx, CanHold(s, t)
  PROVE  /\ ApplyBoth(s, t) \in States /\ ApplyBoth(s, t).pool = <<>>
         /\ ApplyBoth(s, t).pending = s.pending
         /\ IsKept(ApplyBoth(s, t), C \cup Made({t}), loose, old)
         /\ t \in Creation => C = {}
<1> DEFINE r == ApplyBoth(s, t)
<1>0. r = ApplyBoth(s, t)
  OBVIOUS
<1> HIDE DEF r
<1>1. CASE t \notin Creation
  <2>1. r = s /\ C \cup Made({t}) = C
    BY <1>0, <1>1, ApplyBothIs DEF Made
  <2> QED BY <1>0, <1>1, <2>1
<1>2. CASE t \in Creation
  <2>1. ~s.pending /\ s.acc.group = {}
    BY <1>2 DEF CanHold
  <2>2. C = {}
    BY <2>1, GroupOf DEF IsKept
  <2>3. /\ r \in States /\ r.pool = <<>> /\ ~r.pending
        /\ r.acc.group = s.acc.group \cup Group[t] /\ r.acc.min = s.acc.min + Minimum[t]
        /\ r.acc.uGroup = s.acc.uGroup \cup Group[t] /\ r.acc.uMin = s.acc.uMin + Minimum[t]
    BY <1>0, <1>2, ApplyBothIs
  <2>4. C \cup Made({t}) = {t} /\ Minimum[t] \in Nat
    BY <1>2, <2>2, CreationTypes DEF Made
  <2>5. ~loose /\ Made(ToSet(<<>>)) = {} /\ IsInjective(<<>>)
    BY <2>1 DEF IsKept, ToSet, Made, IsInjective
  <2>6. IsOf(r.acc.group, r.acc.min, {t})
    <3>1. s.acc.group = {} /\ s.acc.min = 0
      BY <2>2 DEF IsKept, IsOf
    <3>2. r.acc.group = Group[t] /\ r.acc.min = Minimum[t]
      BY <2>3, <2>4, <3>1
    <3> QED BY <3>2 DEF IsOf
  <2>7. ~old => IsOf(r.acc.uGroup, r.acc.uMin, {t})
    <3> SUFFICES ASSUME ~old PROVE IsOf(r.acc.uGroup, r.acc.uMin, {t})
      OBVIOUS
    <3>1. s.acc.uGroup = {} /\ s.acc.uMin = 0
      BY <2>2, <2>5 DEF IsKept, IsOf
    <3>2. r.acc.uGroup = Group[t] /\ r.acc.uMin = Minimum[t]
      BY <2>3, <2>4, <3>1
    <3> QED BY <3>2 DEF IsOf
  <2>8. r.pending = s.pending
    BY <2>1, <2>3, StateTypes
  <2>9. {t} \cup Made(ToSet(<<>>)) = {t}
    BY <2>5
  <2>10. IsKept(r, {t}, loose, old)
    BY <2>3, <2>5, <2>6, <2>7, <2>9 DEF IsKept
  <2> QED BY <1>0, <2>2, <2>3, <2>4, <2>8, <2>10
<1> QED BY <1>1, <1>2

\* x is what s becomes with the transactions in X, those that are not applied among
\* them: either all are, or one has failed.
IsProcessed(x, s, b, C, loose, old, X) ==
  /\ x.s.pool = <<>>
  /\ x.failed = {} =>
       /\ x.refused = {} /\ x.applied = X /\ x.s.pending = s.pending
       /\ IsKept(x.s, C \cup Made(X), loose, old)
       /\ Made(X) # {} => C = {}
       /\ \A t \in X : t \in Creation \/ C # {} => Ready(t, b[t], s.acc)
  /\ x.failed # {} =>
       IF x.refused \cap Creation = {} THEN x.s.pending = s.pending
       ELSE x.s.pending /\ ~s.pending /\ C = {}

\* One transaction more.
LEMMA ProcessOneKeeps ==
  ASSUME NEW s \in States, NEW C \in SUBSET Creation, NEW loose \in BOOLEAN,
         NEW old \in BOOLEAN, IsKept(s, C, loose, old), NEW b, NEW X \in SUBSET Tx,
         NEW x \in Processings, IsProcessed(x, s, b, C, loose, old, X),
         NEW t \in Tx, NEW r, r = ProcessOne(x, t, b)
  PROVE  r \in Processings /\ IsProcessed(r, s, b, C, loose, old, X \cup {t})
<1>1. r \in Processings /\ x.s \in States
  BY ProcessOneIs DEF Processings
<1>2. CASE x.failed # {} /\ r = x
  BY <1>1, <1>2 DEF IsProcessed
<1>3. CASE /\ x.failed = {} /\ ~CanHold(x.s, t) /\ r.failed = {t}
           /\ r.s = x.s /\ r.applied = x.applied /\ r.refused = x.refused
  BY <1>1, <1>3 DEF IsProcessed
<1>4. CASE /\ x.failed = {} /\ CanHold(x.s, t) /\ ~Ready(t, b[t], x.s.acc)
           /\ r.failed = {t} /\ r.refused = {t}
           /\ r.s = Hold(x.s, t) /\ r.applied = x.applied
  <2> DEFINE z == x.s
  <2>0. /\ Hold(z, t).pool = z.pool /\ (t \notin Creation => Hold(z, t) = z)
        /\ t \in Creation => Hold(z, t).pending = TRUE
    BY <1>1, HoldIs
  <2>1. r.s.pool = <<>> /\ x.s.pending = s.pending /\ IsKept(x.s, C \cup Made(X), loose, old)
    BY <1>4, <2>0 DEF IsProcessed
  <2>2. CASE t \notin Creation
    <3>1. r.s.pending = s.pending /\ r.refused \cap Creation = {} /\ r.failed # {}
      BY <1>4, <2>1, <2>2, <2>0
    <3> QED BY <1>1, <2>1, <3>1 DEF IsProcessed
  <2>3. CASE t \in Creation
    <3>1. ~x.s.pending /\ x.s.acc.group = {} /\ r.s.pending = TRUE
      BY <1>4, <2>3, <2>0 DEF CanHold
    <3>2. C \cup Made(X) \in SUBSET Creation /\ IsOf(x.s.acc.group, x.s.acc.min, C \cup Made(X))
      BY <2>1 DEF Made, IsKept
    <3>3. C = {}
      BY <3>1, <3>2, GroupOf
    <3>4. r.refused \cap Creation # {} /\ r.failed # {} /\ ~s.pending
      BY <1>4, <2>1, <2>3, <3>1
    <3> QED BY <1>1, <2>1, <3>1, <3>3, <3>4 DEF IsProcessed
  <2> QED BY <2>2, <2>3
<1>5. CASE /\ x.failed = {} /\ CanHold(x.s, t) /\ Ready(t, b[t], x.s.acc)
           /\ r.failed = {} /\ r.refused = x.refused
           /\ r.s = ApplyBoth(x.s, t) /\ r.applied = x.applied \cup {t}
  <2> DEFINE D == C \cup Made(X)
             y == r.s
             z == x.s
  <2>1. /\ x.s.pool = <<>> /\ x.refused = {} /\ x.applied = X /\ x.s.pending = s.pending
        /\ IsKept(x.s, D, loose, old) /\ (Made(X) # {} => C = {})
        /\ \A u \in X : u \in Creation \/ C # {} => Ready(u, b[u], s.acc)
    BY <1>5 DEF IsProcessed
  <2>2. D \in SUBSET Creation
    BY DEF Made
  <2>3. /\ y = ApplyBoth(z, t) /\ z \in States /\ z.pool = <<>> /\ CanHold(z, t)
        /\ IsKept(z, D, loose, old) /\ z.pending = s.pending
    BY <1>1, <1>5, <2>1
  <2> HIDE DEF D, y, z
  <2>4. /\ y \in States /\ y.pool = <<>> /\ y.pending = z.pending
        /\ IsKept(y, D \cup Made({t}), loose, old)
        /\ t \in Creation => D = {}
    BY <2>2, <2>3, ApplyKeeps
  <2>5. D \cup Made({t}) = C \cup Made(X \cup {t})
    BY DEF D, Made
  <2>6. Made(X \cup {t}) # {} => C = {}
    BY <2>1, <2>4 DEF D, Made
  <2>7. t \in Creation \/ C # {} => x.s.acc.group = s.acc.group /\ x.s.acc.min = s.acc.min
    <3> SUFFICES ASSUME t \in Creation \/ C # {}
                 PROVE  x.s.acc.group = s.acc.group /\ x.s.acc.min = s.acc.min
      OBVIOUS
    <3>1. D = C
      BY <2>1, <2>4 DEF D
    <3>2. IsOf(x.s.acc.group, x.s.acc.min, C) /\ IsOf(s.acc.group, s.acc.min, C)
      BY <2>1, <3>1 DEF IsKept
    <3> QED BY <3>2 DEF IsOf
  <2>8. t \in Creation \/ C # {} => Ready(t, b[t], s.acc)
    BY <1>5, <2>7 DEF Ready
  <2>9. \A u \in X \cup {t} : u \in Creation \/ C # {} => Ready(u, b[u], s.acc)
    BY <2>1, <2>8
  <2>10. /\ r.s.pool = <<>> /\ r.refused = {} /\ r.applied = X \cup {t}
         /\ r.s.pending = s.pending /\ IsKept(r.s, C \cup Made(X \cup {t}), loose, old)
    BY <1>5, <2>1, <2>3, <2>4, <2>5 DEF y
  <2> QED BY <1>1, <1>5, <2>6, <2>9, <2>10 DEF IsProcessed
<1> QED BY <1>2, <1>3, <1>4, <1>5, ProcessOneIs

\* All of the block.
LEMMA ProcessKeeps ==
  ASSUME NEW s \in States, NEW C \in SUBSET Creation, NEW loose \in BOOLEAN,
         NEW old \in BOOLEAN, IsKept(s, C, loose, old), s.pool = <<>>,
         NEW b, DOMAIN b \in SUBSET Tx
  PROVE  Process(s, b) \in Processings /\ IsProcessed(Process(s, b), s, b, C, loose, old, DOMAIN b)
<1> DEFINE l == Sorted(DOMAIN b)
           K(i) == {x \in Processings : IsProcessed(x, s, b, C, loose, old, First(l, i))}
           J == [i \in 0 .. Len(l) |-> K(i)]
           e == [s |-> s, applied |-> {}, failed |-> {}, refused |-> {}]
           r == ProcessEach(e, l, b)
<1>1. l \in Seq(Tx) /\ ToSet(l) = DOMAIN b
  BY SortedIs
<1>2. r = Process(s, b)
  BY DEF Process
<1> HIDE DEF l
<1>3. Len(l) \in Nat /\ First(l, 0) = {} /\ First(l, Len(l)) = DOMAIN b
  BY <1>1, FirstIs
<1>4. e \in Processings /\ e \in K(0)
  <2>1. e \in Processings /\ e.s = s /\ e.applied = {} /\ e.failed = {} /\ e.refused = {}
    BY DEF Processings
  <2>2. Made({}) = {} /\ C \cup {} = C
    BY DEF Made
  <2> HIDE DEF e
  <2>3. IsProcessed(e, s, b, C, loose, old, {})
    BY <2>1, <2>2 DEF IsProcessed
  <2> QED BY <1>3, <2>1, <2>3
<1>5. ASSUME NEW i \in 1 .. Len(l), NEW x \in Processings, x \in K(i - 1)
      PROVE  ProcessOne(x, l[i], b) \in K(i)
  <2>1. l[i] \in Tx /\ First(l, i - 1) \in SUBSET Tx /\ First(l, i) = First(l, i - 1) \cup {l[i]}
    BY <1>1, FirstIs
  <2>2. IsProcessed(x, s, b, C, loose, old, First(l, i - 1))
    BY <1>5
  <2> DEFINE X == First(l, i - 1)
             t == l[i]
             y == ProcessOne(x, t, b)
  <2>3. X \in SUBSET Tx /\ t \in Tx /\ y = ProcessOne(x, t, b) /\ IsProcessed(x, s, b, C, loose, old, X)
    BY <2>1, <2>2
  <2> HIDE DEF X, t, y
  <2>4. y \in Processings /\ IsProcessed(y, s, b, C, loose, old, X \cup {t})
    BY <2>3, ProcessOneKeeps
  <2> QED BY <2>1, <2>4 DEF X, t, y
<1> HIDE DEF K, e, r
<1>6. /\ 0 \in 0 .. Len(l) /\ Len(l) \in 0 .. Len(l)
      /\ \A i \in 1 .. Len(l) : i \in 0 .. Len(l) /\ i - 1 \in 0 .. Len(l)
  BY <1>3
<1>7. e \in J[0]
  BY <1>4, <1>6
<1>8. \A i \in 1 .. Len(l) : \A x \in Processings : x \in J[i - 1] => ProcessOne(x, l[i], b) \in J[i]
  BY <1>5, <1>6
<1> HIDE DEF J
<1>9. r \in J[Len(l)]
  BY <1>1, <1>4, <1>7, <1>8, ProcessFold DEF r
<1>10. r \in K(Len(l))
  BY <1>6, <1>9 DEF J
<1> QED BY <1>2, <1>3, <1>10 DEF K

\* A creation that is popped leaves no group.
LEMMA PopKeeps ==
  ASSUME NEW s \in States, NEW C \in SUBSET Creation, NEW loose \in BOOLEAN,
         NEW old \in BOOLEAN, IsKept(s, C, loose, old),
         NEW D \in SUBSET Tx, Made(D) \subseteq C,
         NEW r, r = FoldLeft(UndoBoth, s, Reverse(Sorted(D)))
  PROVE  /\ r \in States /\ r.pool = s.pool
         /\ IsKept(r, C \ Made(D), loose, old)
<1> DEFINE l == Reverse(Sorted(D))
           c == CHOOSE x \in Made(D) : TRUE
<1>1. Sorted(D) \in Seq(Tx) /\ ToSet(Sorted(D)) = D /\ IsInjective(Sorted(D))
  BY SortedIs
<1>2. ToSet(l) = D /\ IsInjective(l)
  BY <1>1, ReverseIs
<1>3. l \in Seq(Tx)
  BY <1>1, ReverseIs
<1>4. \A d \in Creation \cap ToSet(l) : d = c
  BY <1>2 DEF Made, IsKept, IsOf
<1> HIDE DEF l, c
<1>5. r = IF c \in Creation \cap ToSet(l) THEN UndoBoth(s, c) ELSE s
  <2>1. r = FoldLeft(UndoBoth, s, l)
    BY DEF l
  <2> QED BY <1>2, <1>3, <1>4, <2>1, UndoOnly
<1>6. CASE Made(D) = {}
  <2>1. r = s /\ C \ Made(D) = C
    BY <1>2, <1>5, <1>6 DEF Made
  <2> QED BY <2>1
<1>7. CASE Made(D) # {}
  <2>1. c \in Made(D) /\ c \in D /\ c \in Creation /\ c \in Tx /\ c \in C
    BY <1>7, CreationTypes DEF c, Made
  <2>2. r = UndoBoth(s, c)
    BY <1>2, <1>5, <2>1
  <2>3. C = {c} /\ C \ Made(D) = {}
    BY <2>1 DEF IsKept, IsOf
  <2>4. ~s.pending /\ ~loose /\ Made(ToSet(s.pool)) = {}
    BY <2>3 DEF IsKept
  <2>5. /\ r \in States /\ r.pool = s.pool /\ ~r.pending
        /\ r.acc.group = s.acc.group \ Group[c] /\ r.acc.min = s.acc.min - Minimum[c]
        /\ r.acc.uGroup = s.acc.uGroup \ Group[c] /\ r.acc.uMin = s.acc.uMin - Minimum[c]
    BY <2>1, <2>2, UndoBothIs
  <2>6. Minimum[c] \in Nat
    BY <2>1, CreationTypes
  <2>7. IsOf(r.acc.group, r.acc.min, {})
    <3>1. s.acc.group = Group[c] /\ s.acc.min = Minimum[c]
      BY <2>3 DEF IsKept, IsOf
    <3>2. r.acc.group = {} /\ r.acc.min = 0
      BY <2>5, <2>6, <3>1
    <3> QED BY <3>2 DEF IsOf
  <2>8. ~old => IsOf(r.acc.uGroup, r.acc.uMin, {})
    <3> SUFFICES ASSUME ~old PROVE IsOf(r.acc.uGroup, r.acc.uMin, {})
      OBVIOUS
    <3>1. s.acc.uGroup = Group[c] /\ s.acc.uMin = Minimum[c]
      BY <2>3, <2>4 DEF IsKept, IsOf
    <3>2. r.acc.uGroup = {} /\ r.acc.uMin = 0
      BY <2>5, <2>6, <3>1
    <3> QED BY <3>2 DEF IsOf
  <2>9. {} \cup Made(ToSet(s.pool)) = {} /\ IsInjective(s.pool)
    BY <2>4 DEF IsKept
  <2>10. IsKept(r, {}, loose, old)
    BY <2>4, <2>5, <2>7, <2>8, <2>9 DEF IsKept
  <2> QED BY <2>3, <2>5, <2>10
<1> QED BY <1>6, <1>7

\* A transaction that is accepted is the only creation, if it is one.
LEMMA ReceiveKeeps ==
  ASSUME NEW s \in States, NEW C \in SUBSET Creation, NEW loose \in BOOLEAN,
         NEW old \in BOOLEAN, IsKept(s, C, loose, old),
         NEW t \in Tx, NEW sigs, NEW m, Accepts(s, t, sigs, m)
  PROVE  Receive(s, t) \in States /\ IsKept(Receive(s, t), C, loose, old)
<1> DEFINE h == Hold(s, t)
           p == Append(s.pool, t)
           r == Receive(s, t)
<1>1. s.pool \in Seq(Tx) /\ t \notin ToSet(s.pool) /\ CanHold(s, t) /\ IsInjective(s.pool)
  BY StateTypes DEF Accepts, IsKept
<1>2. /\ h \in States /\ h.pool = s.pool
      /\ t \notin Creation => h = s
      /\ t \in Creation => h.pending = TRUE /\ h.acc = AddUnconfirmed(s.acc, t)
  BY HoldIs
<1>3. p \in Seq(Tx) /\ ToSet(p) = ToSet(s.pool) \cup {t} /\ IsInjective(p)
  BY <1>1, AppendIs
<1> HIDE DEF p
<1>4. r \in States /\ r.pool = p /\ r.acc = h.acc /\ r.pending = h.pending
  <2>1. r = [h EXCEPT !.pool = Append(@, t)]
    BY DEF Receive
  <2> HIDE DEF h, r
  <2>2. Append(h.pool, t) = p
    BY <1>2 DEF p
  <2>3. r = [h EXCEPT !.pool = p]
    BY <2>1, <2>2
  <2> QED BY <1>2, <1>3, <2>3 DEF States
<1> HIDE DEF h, r
<1>5. CASE t \notin Creation
  <2>1. Made(ToSet(p)) = Made(ToSet(s.pool))
    BY <1>3, <1>5 DEF Made
  <2>2. r.acc = s.acc /\ r.pending = s.pending
    BY <1>2, <1>4, <1>5
  <2>3. IsKept(r, C, loose, old)
    BY <1>3, <1>4, <2>1, <2>2 DEF IsKept
  <2> QED BY <1>4, <2>3 DEF r
<1>6. CASE t \in Creation
  <2>1. ~s.pending /\ s.acc.group = {}
    BY <1>1, <1>6 DEF CanHold
  <2>2. C = {} /\ ~loose /\ Made(ToSet(s.pool)) = {}
    BY <2>1, GroupOf DEF IsKept
  <2>3. Made(ToSet(p)) = {t}
    BY <1>3, <1>6, <2>2 DEF Made
  <2>4. /\ r.pending = TRUE /\ r.acc.group = s.acc.group /\ r.acc.min = s.acc.min
        /\ r.acc.uGroup = s.acc.uGroup \cup Group[t] /\ r.acc.uMin = s.acc.uMin + Minimum[t]
    BY <1>2, <1>4, <1>6, StateTypes, AddUnconfirmedIs
  <2>5. ~old => IsOf(r.acc.uGroup, r.acc.uMin, {t})
    <3> SUFFICES ASSUME ~old PROVE IsOf(r.acc.uGroup, r.acc.uMin, {t})
      OBVIOUS
    <3>1. s.acc.uGroup = {} /\ s.acc.uMin = 0 /\ Minimum[t] \in Nat
      BY <1>6, <2>2, CreationTypes DEF IsKept, IsOf
    <3>2. r.acc.uGroup = Group[t] /\ r.acc.uMin = Minimum[t]
      BY <2>4, <3>1
    <3> QED BY <3>2 DEF IsOf
  <2>6. IsOf(r.acc.group, r.acc.min, C) /\ C \cup {t} = {t}
    BY <2>2, <2>4 DEF IsKept
  <2>7. IsKept(r, C, loose, old)
    BY <1>3, <1>4, <2>2, <2>3, <2>4, <2>5, <2>6 DEF IsKept
  <2> QED BY <1>4, <2>7 DEF r
<1> QED BY <1>5, <1>6

\* So is what a list leaves in the pool.
LEMMA ReceiveAllKeeps ==
  ASSUME NEW s \in States, NEW C \in SUBSET Creation, NEW loose \in BOOLEAN,
         NEW old \in BOOLEAN, IsKept(s, C, loose, old),
         NEW l \in Seq(Tx), NEW m
  PROVE  ReceiveAll(s, l, m) \in States /\ IsKept(ReceiveAll(s, l, m), C, loose, old)
<1> DEFINE K == {x \in Receivings : IsKept(x.s, C, loose, old)}
           J == [i \in 0 .. Len(l) |-> K]
           b == [going |-> TRUE, s |-> s]
           r == ReceiveEach(b, l, m)
<1>1. Len(l) \in Nat /\ 0 \in 0 .. Len(l) /\ Len(l) \in 0 .. Len(l)
      /\ \A i \in 1 .. Len(l) : i \in 0 .. Len(l) /\ i - 1 \in 0 .. Len(l) /\ l[i] \in Tx
  OBVIOUS
<1>2. b \in Receivings /\ b \in K
  BY DEF Receivings
<1>3. ASSUME NEW x \in K, NEW t \in Tx PROVE ReceiveOne(x, t, m) \in K
  <2>1. x \in Receivings /\ x.s \in States /\ IsKept(x.s, C, loose, old)
    BY DEF Receivings
  <2>2. ReceiveOne(x, t, m) \in Receivings
    BY <2>1, ReceiveOneType
  <2>3. CASE x.going /\ Accepts(x.s, t, signatures[t], m)
    <3>1. Receive(x.s, t) \in States /\ IsKept(Receive(x.s, t), C, loose, old)
      BY <2>1, <2>3, ReceiveKeeps
    <3>2. ReceiveOne(x, t, m) = [x EXCEPT !.s = Receive(x.s, t)]
      BY <2>3 DEF ReceiveOne
    <3>3. ReceiveOne(x, t, m).s = Receive(x.s, t)
      BY <2>1, <3>2 DEF Receivings
    <3> QED BY <2>2, <3>1, <3>3
  <2>4. CASE ~(x.going /\ Accepts(x.s, t, signatures[t], m))
    <3>1. ReceiveOne(x, t, m) = [x EXCEPT !.going = FALSE]
      BY <2>4 DEF ReceiveOne
    <3>2. ReceiveOne(x, t, m).s = x.s
      BY <2>1, <3>1 DEF Receivings
    <3> QED BY <2>1, <2>2, <3>2
  <2> QED BY <2>3, <2>4
<1> HIDE DEF K, b
<1>4. \A i \in 1 .. Len(l) : \A x \in Receivings : x \in J[i - 1] => ReceiveOne(x, l[i], m) \in J[i]
  BY <1>1, <1>3
<1>5. b \in J[0]
  BY <1>1, <1>2
<1> HIDE DEF J
<1>6. r \in J[Len(l)]
  BY <1>2, <1>4, <1>5, ReceiveFold
<1> HIDE DEF r
<1>7. r \in Receivings /\ IsKept(r.s, C, loose, old)
  BY <1>1, <1>6 DEF J, K
<1>8. ReceiveAll(s, l, m) = r.s
  BY DEF ReceiveAll, r, b
<1> QED BY <1>7, <1>8 DEF Receivings

-----------------------------------------------------------------------------
(* The invariant *)

\* What a block is, and what signs it.
Block == UNION {[S -> Seq(Signature)] : S \in SUBSET Tx}

\* No creation is in two blocks.
OneBlock ==
  \A g, h \in 1 .. Top : \A c \in Creation :
    c \in DOMAIN chain[g] /\ c \in DOMAIN chain[h] => g = h

\* The signatures of t do for a group made by c.
SignedFor(t, s, c) ==
  /\ Cardinality(ToSet(s)) >= Minimum[c] - 1
  /\ Keys(s) \subseteq Signers(t, Group[c])
  /\ t \in Spend => Requester[t] \in Group[c] \cup {Nobody}

\* The h-th block of ch has the signatures that the groups before it ask for.
IsSigned(ch, h) ==
  \A t \in DOMAIN ch[h] :
    /\ t \in Creation => Group[t] \subseteq Keys(ch[h][t])
    /\ \A c \in Creation : (\E g \in 1 .. h - 1 : c \in DOMAIN ch[g]) => SignedFor(t, ch[h][t], c)

ChainInv ==
  /\ chain \in Seq(Block)
  /\ OneBlock
  /\ \A h \in 1 .. Top : IsSigned(chain, h)

\* The types of what the account does not depend on.
OthersOK ==
  /\ held \in Seq(Tx)
  /\ signatures \in [Tx -> Seq(Signature)]
  /\ asked \subseteq [tx : Spend, sig : Signature, group : SUBSET Key]
  /\ queue \in Seq([tx : Tx, sig : Signature])
  /\ invalid \subseteq Tx /\ offered \subseteq Tx
  /\ syncing \in BOOLEAN /\ dropped \in BOOLEAN /\ restarted \in BOOLEAN

IInv ==
  /\ ChainInv
  /\ State \in States
  /\ IsKept(State, Creations, dropped, restarted)
  /\ OthersOK

\* The transactions of a block and their signatures.
LEMMA BlockTypes ==
  ASSUME NEW b \in Block
  PROVE  DOMAIN b \in SUBSET Tx /\ b \in [DOMAIN b -> Seq(Signature)] /\ \A t \in DOMAIN b : b[t] \in Seq(Signature)
<1>1. PICK S \in SUBSET Tx : b \in [S -> Seq(Signature)]
  BY DEF Block
<1> QED BY <1>1

\* A function of transactions to signatures is a block.
LEMMA BlockIs ==
  ASSUME NEW S \in SUBSET Tx, NEW b \in [S -> Seq(Signature)]
  PROVE  b \in Block
  BY DEF Block

\* The state has the account, what is pending and the pool.
LEMMA StateIs ==
  /\ State.acc = account /\ State.pending = pending /\ State.pool = pool
  /\ State \in States <=> account \in Account /\ pending \in BOOLEAN /\ pool \in Seq(Tx)
  BY DEF State, States

\* After an update they are those of s.
LEMMA UpdateIs ==
  ASSUME NEW s \in States, Update(s)
  PROVE  State' = s
  BY DEF Update, State, States

\* At most one is all the same.
LEMMA AtMostOne ==
  ASSUME NEW S, IsFiniteSet(S), Cardinality(S) <= 1
  PROVE  \A x, y \in S : x = y
<1> SUFFICES ASSUME NEW x \in S, NEW y \in S, x # y PROVE FALSE
  OBVIOUS
<1>1. IsFiniteSet(S \ {x}) /\ Cardinality(S \ {x}) = Cardinality(S) - 1
  BY FS_RemoveElement
<1>2. Cardinality(S \ {x}) \in Nat /\ Cardinality(S) \in Nat
  BY <1>1, FS_CardinalityType
<1>3. Cardinality(S \ {x}) = 0
  BY <1>1, <1>2
<1>4. S \ {x} = {}
  BY <1>1, <1>3, FS_EmptySet
<1> QED BY <1>4

\* Whatever equals up to h is signed in the same way.
LEMMA SignedKept ==
  ASSUME NEW A, NEW B, NEW h \in Nat \ {0}, \A g \in 1 .. h : B[g] = A[g], IsSigned(A, h)
  PROVE  IsSigned(B, h)
<1>1. h \in 1 .. h /\ \A g \in 1 .. h - 1 : g \in 1 .. h
  OBVIOUS
<1> QED BY <1>1 DEF IsSigned

\* The creations in the chain, block by block.
LEMMA CreationsAre ==
  /\ Creations \in SUBSET Creation
  /\ \A c : c \in Creations <=> c \in Creation /\ \E h \in 1 .. Top : c \in DOMAIN chain[h]
  BY DEF Creations, Confirmed

\* A block on top of the chain.
LEMMA ChainAppended ==
  ASSUME chain \in Seq(Block), NEW b \in Block, chain' = Append(chain, b)
  PROVE  /\ chain' \in Seq(Block) /\ Top \in Nat /\ Top' = Top + 1
         /\ \A h \in 1 .. Top : chain'[h] = chain[h]
         /\ chain'[Top + 1] = b
         /\ Creations' = Creations \cup Made(DOMAIN b)
<1>1. /\ chain' \in Seq(Block) /\ Top \in Nat /\ Top' = Top + 1
      /\ \A h \in 1 .. Top : chain'[h] = chain[h]
      /\ chain'[Top + 1] = b
  <2>1. /\ Append(chain, b) \in Seq(Block) /\ Len(Append(chain, b)) = Len(chain) + 1
        /\ \A h \in 1 .. Len(chain) : Append(chain, b)[h] = chain[h]
        /\ Append(chain, b)[Len(chain) + 1] = b
    BY AppendIs
  <2> QED BY <2>1 DEF Top
<1>2. \A h \in 1 .. Top + 1 : h = Top + 1 \/ h \in 1 .. Top
  BY <1>1
<1>3. 1 .. Top \subseteq 1 .. Top + 1 /\ Top + 1 \in 1 .. Top + 1
  BY <1>1
<1>4. ASSUME NEW c PROVE c \in Creations' <=> c \in Creations \cup Made(DOMAIN b)
  <2>1. c \in Creations' <=> c \in Creation /\ \E h \in 1 .. Top + 1 : c \in DOMAIN chain'[h]
    BY <1>1 DEF Creations, Confirmed
  <2>2. c \in Creations <=> c \in Creation /\ \E h \in 1 .. Top : c \in DOMAIN chain[h]
    BY CreationsAre
  <2>3. c \in Made(DOMAIN b) <=> c \in Creation /\ c \in DOMAIN b
    BY DEF Made
  <2>4. (\E h \in 1 .. Top + 1 : c \in DOMAIN chain'[h])
          <=> c \in DOMAIN b \/ \E h \in 1 .. Top : c \in DOMAIN chain[h]
    BY <1>1, <1>2, <1>3
  <2> QED BY <2>1, <2>2, <2>3, <2>4
<1> QED BY <1>1, <1>4

\* The chain without its last block.
LEMMA ChainPopped ==
  ASSUME chain \in Seq(Block), chain # <<>>, OneBlock, chain' = Front(chain)
  PROVE  /\ chain' \in Seq(Block) /\ Top \in Nat \ {0} /\ Top' = Top - 1
         /\ \A h \in 1 .. Top - 1 : chain'[h] = chain[h]
         /\ chain[Top] \in Block
         /\ Creations' = Creations \ Made(DOMAIN chain[Top])
         /\ Made(DOMAIN chain[Top]) \subseteq Creations
<1>1. Top \in Nat \ {0} /\ Top \in 1 .. Top /\ chain[Top] \in Block
  BY DEF Top
<1>2. /\ chain' \in Seq(Block) /\ Top' = Top - 1
      /\ \A h \in 1 .. Top - 1 : chain'[h] = chain[h]
  <2>1. Front(chain) = SubSeq(chain, 1, Len(chain) - 1) /\ Len(chain) - 1 \in 0 .. Len(chain)
    BY <1>1 DEF Front, Top
  <2>2. /\ SubSeq(chain, 1, Len(chain) - 1) \in Seq(Block)
        /\ Len(SubSeq(chain, 1, Len(chain) - 1)) = Len(chain) - 1
        /\ \A h \in 1 .. Len(chain) - 1 : SubSeq(chain, 1, Len(chain) - 1)[h] = chain[h]
    BY <2>1, PrefixIs
  <2> QED BY <2>1, <2>2 DEF Top
<1>3. \A h \in 1 .. Top : h = Top \/ h \in 1 .. Top - 1
  BY <1>1
<1>4. 1 .. Top - 1 \subseteq 1 .. Top /\ Top \notin 1 .. Top - 1
  BY <1>1
<1>5. ASSUME NEW c PROVE c \in Creations' <=> c \in Creations \ Made(DOMAIN chain[Top])
  <2>1. c \in Creations' <=> c \in Creation /\ \E h \in 1 .. Top - 1 : c \in DOMAIN chain'[h]
    BY <1>2 DEF Creations, Confirmed
  <2>2. c \in Creations <=> c \in Creation /\ \E h \in 1 .. Top : c \in DOMAIN chain[h]
    BY CreationsAre
  <2>3. c \in Made(DOMAIN chain[Top]) <=> c \in Creation /\ c \in DOMAIN chain[Top]
    BY DEF Made
  <2>4. c \in Creation /\ c \in DOMAIN chain[Top] =>
          \A h \in 1 .. Top - 1 : c \notin DOMAIN chain[h]
    BY <1>1, <1>4 DEF OneBlock
  <2> QED BY <1>2, <1>3, <1>4, <2>1, <2>2, <2>3, <2>4
<1>6. Made(DOMAIN chain[Top]) \subseteq Creations
  BY <1>1, CreationsAre DEF Made
<1> QED BY <1>1, <1>2, <1>5, <1>6

-----------------------------------------------------------------------------
(* Blocks *)

\* What is verified and ready is signed as the group asks for.
LEMMA VerifiedIsSigned ==
  ASSUME IInv, NEW b \in Block, NEW t \in DOMAIN b, Verify(t, b[t], account),
         t \in Creation \/ Creations # {} => Ready(t, b[t], account)
  PROVE  /\ t \in Creation => Group[t] \subseteq Keys(b[t])
         /\ \A c \in Creations : SignedFor(t, b[t], c)
<1>1. t \in Creation => Group[t] \subseteq Keys(b[t])
  BY DEF Verify
<1>2. ASSUME NEW c \in Creations PROVE SignedFor(t, b[t], c)
  <2>1. IsOf(account.group, account.min, Creations) /\ c \in Creation
    BY StateIs, CreationsAre DEF IInv, IsKept
  <2>2. account.group = Group[c] /\ account.min = Minimum[c] /\ account.group # {}
    BY <2>1, CreationTypes DEF IsOf
  <2>3. /\ Keys(b[t]) \subseteq Signers(t, Group[c]) /\ Distinct(b[t])
        /\ t \in Spend => Requester[t] \in Group[c] \cup {Nobody}
    BY <2>2 DEF Verify
  <2>4. Len(b[t]) >= Minimum[c] - 1
    BY <1>2, <2>2 DEF Ready
  <2> QED BY <2>3, <2>4 DEF Distinct, SignedFor
<1> QED BY <1>1, <1>2

\* Such a block leaves a chain that is signed, with no creation in two blocks.
LEMMA ChainKept ==
  ASSUME IInv, NEW b \in Block, chain' = Append(chain, b),
         Made(DOMAIN b) # {} => Creations = {},
         \A t \in DOMAIN b :
           /\ t \in Creation => Group[t] \subseteq Keys(b[t])
           /\ \A c \in Creations : SignedFor(t, b[t], c)
  PROVE  ChainInv' /\ Creations' = Creations \cup Made(DOMAIN b)
<1>1. chain \in Seq(Block) /\ OneBlock /\ \A h \in 1 .. Top : IsSigned(chain, h)
  BY DEF IInv, ChainInv
<1>2. /\ chain' \in Seq(Block) /\ Top \in Nat /\ Top' = Top + 1
      /\ \A h \in 1 .. Top : chain'[h] = chain[h]
      /\ chain'[Top + 1] = b
      /\ Creations' = Creations \cup Made(DOMAIN b)
  BY <1>1, ChainAppended
<1>3. \A h \in 1 .. Top + 1 : h = Top + 1 \/ h \in 1 .. Top
  BY <1>2
<1>4. OneBlock'
  <2> SUFFICES ASSUME NEW g \in 1 .. Top + 1, NEW h \in 1 .. Top + 1, NEW c \in Creation,
                      c \in DOMAIN chain'[g], c \in DOMAIN chain'[h]
               PROVE  g = h
    BY <1>2 DEF OneBlock
  <2>1. CASE g \in 1 .. Top /\ h \in 1 .. Top
    BY <1>1, <1>2, <2>1 DEF OneBlock
  <2>2. CASE g = Top + 1 /\ h = Top + 1
    BY <2>2
  <2>3. ASSUME NEW i \in 1 .. Top, c \in DOMAIN chain'[i], c \in DOMAIN chain'[Top + 1]
        PROVE  FALSE
    <3>1. c \in Made(DOMAIN b) /\ c \in DOMAIN chain[i]
      BY <1>2, <2>3 DEF Made
    <3>2. c \in Creations
      BY <3>1, CreationsAre
    <3> QED BY <3>1, <3>2
  <2> QED BY <1>3, <2>1, <2>2, <2>3
<1>5. ASSUME NEW h \in 1 .. Top + 1 PROVE IsSigned(chain', h)
  <2>1. CASE h \in 1 .. Top
    <3>1. \A g \in 1 .. h : g \in 1 .. Top
      BY <1>2, <2>1
    <3>2. h \in Nat \ {0}
      BY <1>2, <2>1
    <3>3. \A g \in 1 .. h : chain'[g] = chain[g]
      BY <1>2, <3>1
    <3>4. IsSigned(chain, h)
      BY <1>1, <2>1
    <3> QED BY <3>2, <3>3, <3>4, SignedKept
  <2>2. CASE h = Top + 1
    <3>1. h - 1 = Top
      BY <1>2, <2>2
    <3>2. ASSUME NEW c \in Creation, \E g \in 1 .. h - 1 : c \in DOMAIN chain'[g]
          PROVE  c \in Creations
      <4>1. PICK g \in 1 .. Top : c \in DOMAIN chain'[g]
        BY <3>1, <3>2
      <4>2. c \in DOMAIN chain[g]
        BY <1>2, <4>1
      <4> QED BY <4>2, CreationsAre
    <3>3. chain'[h] = b
      BY <1>2, <2>2
    <3> QED BY <3>2, <3>3 DEF IsSigned
  <2> QED BY <1>3, <2>1, <2>2
<1> QED BY <1>2, <1>4, <1>5 DEF ChainInv

\* The objects left have signatures of the same type.
LEMMA ForgetKeeps ==
  ASSUME signatures \in [Tx -> Seq(Signature)], Forget
  PROVE  signatures' \in [Tx -> Seq(Signature)]
<1>1. \A t \in Tx : signatures[t] \in Seq(Signature)
  OBVIOUS
<1>2. <<>> \in Seq(Signature)
  OBVIOUS
<1> QED BY <1>1, <1>2 DEF Forget

\* applyBlock, on a block that was verified, and a pool of which some is loose.
LEMMA ApplyBlockKeeps ==
  ASSUME IInv, NEW b \in Block, NEW s \in States, NEW gone \in BOOLEAN,
         ApplyBlock(b, s, gone), s.acc = account, IsKept(s, Creations, gone, restarted),
         \A t \in DOMAIN b : Verify(t, b[t], account)
  PROVE  IInv'
<1> DEFINE u == UndoAll(s)
           r == Process(u, b)
           back == [r.s EXCEPT !.acc = u.acc]
           rest == Without(Reverse(s.pool), r.applied \cup invalid')
           done == ReceiveAll(r.s, rest, DOMAIN b)
           undone == ReceiveAll(back, rest, {})
<1>1. /\ UNCHANGED <<asked, queue, held, syncing, offered, submits, restarted>> /\ Forget
      /\ invalid' = invalid \cup r.failed
      /\ dropped' = (gone \/ r.refused \cap Creation # {})
      /\ \/ r.failed = {} /\ chain' = Append(chain, b) /\ Update(done)
         \/ chain' = chain /\ Update(undone)
  BY DEF ApplyBlock
<1>2. Creations \in SUBSET Creation /\ restarted \in BOOLEAN /\ OthersOK /\ ChainInv
  BY CreationsAre DEF IInv, OthersOK
<1>3. /\ u \in States /\ u.pool = <<>>
      /\ u.acc.group = account.group /\ u.acc.min = account.min
      /\ IsKept(u, Creations, gone, restarted)
  BY <1>2, UndoAllKeeps
<1>4. DOMAIN b \in SUBSET Tx
  BY BlockTypes
<1>5. r \in Processings /\ IsProcessed(r, u, b, Creations, gone, restarted, DOMAIN b)
  <2> HIDE DEF u
  <2> QED BY <1>2, <1>3, <1>4, ProcessKeeps
<1>6. /\ r.s \in States /\ r.applied \in SUBSET Tx /\ r.failed \in SUBSET Tx
      /\ r.s.pool = <<>>
  <2> HIDE DEF r
  <2> QED BY <1>5 DEF Processings, IsProcessed
<1>7. rest \in Seq(Tx)
  <2>1. Reverse(s.pool) \in Seq(Tx)
    BY StateTypes, ReverseIs
  <2> DEFINE l == Reverse(s.pool)
             X == r.applied \cup invalid'
  <2>2. rest = Without(l, X) /\ l \in Seq(Tx)
    BY <2>1
  <2> HIDE DEF l, X, rest
  <2>3. Without(l, X) \in Seq(Tx \ X)
    BY <2>2, WithoutIs
  <2> QED BY <2>2, <2>3
<1>8. OthersOK'
  <2>1. invalid' \subseteq Tx /\ dropped' \in BOOLEAN
    <3> HIDE DEF r
    <3> QED BY <1>1, <1>2, <1>6 DEF OthersOK
  <2> HIDE DEF r, done, undone
  <2> QED BY <1>1, <1>2, <2>1, ForgetKeeps DEF OthersOK
<1> HIDE DEF u, r, rest
<1>9. CASE r.failed = {} /\ chain' = Append(chain, b) /\ Update(done)
  <2>1. /\ r.refused = {} /\ IsKept(r.s, Creations \cup Made(DOMAIN b), gone, restarted)
        /\ Made(DOMAIN b) # {} => Creations = {}
        /\ \A t \in DOMAIN b : t \in Creation \/ Creations # {} => Ready(t, b[t], u.acc)
    BY <1>5, <1>9 DEF IsProcessed
  <2>2. dropped' = gone /\ restarted' = restarted
    BY <1>1, <2>1
  <2>3. done \in States /\ IsKept(done, Creations \cup Made(DOMAIN b), gone, restarted)
    <3>1. Creations \cup Made(DOMAIN b) \in SUBSET Creation
      BY <1>2 DEF Made
    <3> QED BY <1>2, <1>6, <1>7, <2>1, <3>1, ReceiveAllKeeps
  <2> HIDE DEF done
  <2>4. ChainInv' /\ Creations' = Creations \cup Made(DOMAIN b)
    <3>1. \A t \in DOMAIN b :
            /\ t \in Creation => Group[t] \subseteq Keys(b[t])
            /\ \A c \in Creations : SignedFor(t, b[t], c)
      <4> TAKE t \in DOMAIN b
      <4>1. t \in Creation \/ Creations # {} => Ready(t, b[t], account)
        BY <1>3, <2>1 DEF Ready
      <4> QED BY <4>1, VerifiedIsSigned
    <3> QED BY <1>9, <2>1, <3>1, ChainKept
  <2>5. State' = done
    BY <1>9, <2>3, UpdateIs
  <2> QED BY <1>8, <2>2, <2>3, <2>4, <2>5 DEF IInv
<1>10. CASE chain' = chain /\ Update(undone)
  <2>1. back \in States /\ back.acc = u.acc /\ back.pool = u.pool /\ back.pending = r.s.pending
    <3>1. u.acc \in Account
      BY <1>3, StateTypes
    <3> QED BY <1>3, <1>6, <3>1 DEF States
  <2> HIDE DEF back
  <2>2. dropped' \in BOOLEAN /\ IsKept(back, Creations, dropped', restarted)
    <3>1. CASE r.refused \cap Creation = {}
      <4>1. dropped' = gone
        BY <1>1, <3>1
      <4>2. r.s.pending = u.pending
        BY <1>5, <3>1 DEF IsProcessed
      <4> QED BY <1>3, <2>1, <4>1, <4>2 DEF IsKept
    <3>2. CASE r.refused \cap Creation # {}
      <4>1. dropped' = TRUE
        BY <1>1, <3>2
      <4>2. r.failed # {}
        BY <1>5, <3>2 DEF IsProcessed
      <4>3. r.s.pending /\ Creations = {}
        BY <1>5, <3>2, <4>2 DEF IsProcessed
      <4>4. Made(ToSet(<<>>)) = {}
        BY DEF ToSet, Made
      <4> QED BY <1>3, <2>1, <4>1, <4>3, <4>4 DEF IsKept
    <3> QED BY <3>1, <3>2
  <2>3. undone \in States /\ IsKept(undone, Creations, dropped', restarted)
    BY <1>2, <1>7, <2>1, <2>2, ReceiveAllKeeps
  <2> HIDE DEF undone, done
  <2>4. State' = undone
    BY <1>10, <2>3, UpdateIs
  <2>5. restarted' = restarted /\ Creations' = Creations
    BY <1>1, <1>10 DEF Creations, Confirmed, Top
  <2>6. ChainInv'
    BY <1>2, <1>10 DEF ChainInv, OneBlock, Top
  <2> QED BY <1>8, <2>3, <2>4, <2>5, <2>6 DEF IInv
<1> HIDE DEF done, undone, back
<1> QED BY <1>1, <1>9, <1>10

-----------------------------------------------------------------------------
(* Each step keeps the invariant *)

\* A list of signatures.
LEMMA SignatureList ==
  ASSUME NEW S \in SUBSET Signature
  PROVE  SetToSeq(S) \in Seq(Signature)
<1>1. IsFiniteSet(S)
  BY ConstantsAssumption, FS_Subset
<1>2. SetToSeq(S) \in Seq(S)
  BY <1>1, ListOfSet
<1> DEFINE l == SetToSeq(S)
<1>3. l \in Seq(S)
  BY <1>2
<1> HIDE DEF l
<1>4. l \in Seq(Signature)
  BY <1>3
<1> QED BY <1>4 DEF l

\* A step that leaves the account, its pool and the chain alone.
LEMMA AsideKeeps ==
  ASSUME IInv, UNCHANGED <<chain, account, pending, pool, dropped, restarted>>,
         OthersOK'
  PROVE  IInv'
<1>1. State' = State /\ Creations' = Creations /\ dropped' = dropped /\ restarted' = restarted
  BY DEF State, Creations, Confirmed, Top
<1>2. ChainInv'
  BY DEF IInv, ChainInv, OneBlock, Top
<1> QED BY <1>1, <1>2 DEF IInv

\* A step that gives the account another state, with the chain as it was.
LEMMA StateKeeps ==
  ASSUME IInv, chain' = chain, NEW s \in States, Update(s),
         IsKept(s, Creations, dropped', restarted'), OthersOK'
  PROVE  IInv'
<1>1. State' = s /\ Creations' = Creations
  BY UpdateIs DEF Creations, Confirmed, Top
<1>2. ChainInv'
  BY DEF IInv, ChainInv, OneBlock, Top
<1> QED BY <1>1, <1>2 DEF IInv

\* A transaction is received.
LEMMA ReceiveStep ==
  ASSUME IInv, NEW t \in Tx, NEW S \in SUBSET Signature, ReceiveTransaction(t, S)
  PROVE  IInv'
<1> DEFINE r == Receive(State, t)
           l == SetToSeq(S)
           C == Creations
<1>1. /\ Accepts(State, t, l, {}) /\ signatures' = [signatures EXCEPT ![t] = l] /\ Update(r)
      /\ UNCHANGED <<chain, invalid, asked, queue, held, syncing, offered, bounds, dropped, restarted>>
  BY DEF ReceiveTransaction
<1>2. State \in States /\ C \in SUBSET Creation /\ dropped \in BOOLEAN /\ restarted \in BOOLEAN
      /\ IsKept(State, C, dropped, restarted) /\ OthersOK
  BY CreationsAre DEF IInv, OthersOK
<1>3. l \in Seq(Signature)
  BY SignatureList
<1> HIDE DEF l, C
<1>4. r \in States /\ IsKept(r, C, dropped, restarted)
  BY <1>1, <1>2, ReceiveKeeps
<1>5. OthersOK'
  BY <1>1, <1>2, <1>3 DEF OthersOK
<1> HIDE DEF r
<1> QED BY <1>1, <1>4, <1>5, StateKeeps DEF C

\* A signature comes in.
LEMMA SubmitStep ==
  ASSUME IInv, NEW t \in Tx, NEW k \in Signature, Submit(t, k)
  PROVE  IInv'
<1>1. OthersOK /\ account \in Account
  BY StateIs DEF IInv
<1>2. UNCHANGED <<chain, account, pending, pool, invalid, signatures, held, syncing, offered, faults, dropped, restarted>>
  BY DEF Submit
<1>3. queue' \in Seq([tx : Tx, sig : Signature]) /\ asked' \subseteq [tx : Spend, sig : Signature, group : SUBSET Key]
  <2>1. CASE t \in Creation
    <3> DEFINE R == [tx : Tx, sig : Signature]
               x == [tx |-> t, sig |-> k]
    <3>1. x \in R /\ queue \in Seq(R)
      BY <1>1 DEF OthersOK
    <3>2. queue' = Append(queue, x) /\ asked' = asked
      BY <2>1 DEF Submit
    <3> HIDE DEF R, x
    <3>3. queue' \in Seq(R)
      BY <3>1, <3>2
    <3> QED BY <1>1, <3>2, <3>3 DEF OthersOK, R
  <2>2. CASE t \notin Creation
    <3>1. t \in Spend
      BY <2>2 DEF Tx
    <3>2. [tx |-> t, sig |-> k, group |-> account.group] \in [tx : Spend, sig : Signature, group : SUBSET Key]
      BY <1>1, <3>1 DEF Account
    <3> QED BY <1>1, <2>2, <3>2 DEF Submit, OthersOK
  <2> QED BY <2>1, <2>2
<1>4. OthersOK'
  BY <1>1, <1>2, <1>3 DEF OthersOK
<1> QED BY <1>2, <1>4, AsideKeeps

\* The account is read.
LEMMA AnswerStep ==
  ASSUME IInv, NEW a \in asked, Answer(a)
  PROVE  IInv'
<1>1. OthersOK
  BY DEF IInv
<1>2. /\ UNCHANGED <<chain, account, pending, pool, invalid, signatures, held, syncing, offered, bounds, dropped, restarted>>
      /\ asked' = asked \ {a}
  BY DEF Answer
<1>3. a.tx \in Tx /\ a.sig \in Signature
  BY <1>1 DEF OthersOK, Tx
<1> DEFINE R == [tx : Tx, sig : Signature]
           x == [tx |-> a.tx, sig |-> a.sig]
<1>4. x \in R /\ queue \in Seq(R)
  BY <1>1, <1>3 DEF OthersOK
<1>5. queue' \in Seq(R)
  <2>1. queue' = Append(queue, x) \/ queue' = queue
    BY DEF Answer
  <2> HIDE DEF R, x
  <2> QED BY <1>4, <2>1
<1>6. OthersOK'
  BY <1>1, <1>2, <1>5 DEF OthersOK
<1> QED BY <1>2, <1>6, AsideKeeps

\* A signature is added.
LEMMA AddSignatureStep ==
  ASSUME IInv, AddSignature
  PROVE  IInv'
<1> DEFINE q == Head(queue)
<1>1. OthersOK /\ queue # <<>>
  BY DEF IInv, AddSignature
<1>2. /\ UNCHANGED <<chain, account, pending, pool, invalid, asked, held, syncing, offered, bounds, dropped, restarted>>
      /\ queue' = Tail(queue)
      /\ signatures' = IF q.tx \in ToSet(pool)
                       THEN [signatures EXCEPT ![q.tx] = Append(@, q.sig)] ELSE signatures
  BY DEF AddSignature
<1>3. q \in [tx : Tx, sig : Signature] /\ queue' \in Seq([tx : Tx, sig : Signature])
  <2> DEFINE R == [tx : Tx, sig : Signature]
  <2>1. queue \in Seq(R) /\ queue # <<>> /\ queue' = Tail(queue)
    BY <1>1, <1>2 DEF OthersOK
  <2> HIDE DEF R
  <2>2. Head(queue) \in R /\ queue' \in Seq(R)
    BY <2>1
  <2> QED BY <2>2 DEF R
<1> HIDE DEF q
<1>4. signatures' \in [Tx -> Seq(Signature)]
  <2>1. q.tx \in Tx /\ q.sig \in Signature /\ signatures \in [Tx -> Seq(Signature)] /\ signatures[q.tx] \in Seq(Signature)
    BY <1>1, <1>3 DEF OthersOK
  <2>2. Append(signatures[q.tx], q.sig) \in Seq(Signature)
    BY <2>1
  <2> QED BY <1>2, <2>1, <2>2
<1>5. OthersOK'
  BY <1>1, <1>2, <1>3, <1>4 DEF OthersOK
<1> QED BY <1>2, <1>5, AsideKeeps

\* A creation that leaves the pool without being undone is loose.
LEMMA RemoveKeeps ==
  ASSUME NEW s \in States, NEW C \in SUBSET Creation, NEW loose \in BOOLEAN,
         NEW old \in BOOLEAN, IsKept(s, C, loose, old), NEW X \in SUBSET ToSet(s.pool),
         NEW r, r = [s EXCEPT !.pool = Without(@, X)],
         NEW then \in BOOLEAN, then <=> loose \/ X \cap Creation # {}
  PROVE  r \in States /\ r.acc = s.acc /\ IsKept(r, C, then, old)
<1> DEFINE p == Without(s.pool, X)
           D == Made(ToSet(s.pool))
<1>1. s.pool \in Seq(Tx) /\ IsInjective(s.pool)
  BY StateTypes DEF IsKept
<1>2. p \in Seq(Tx \ X) /\ ToSet(p) = ToSet(s.pool) \ X /\ IsInjective(p)
  BY <1>1, WithoutIs
<1> HIDE DEF p
<1>3. p \in Seq(Tx) /\ Made(ToSet(p)) = D \ X
  BY <1>2 DEF Made
<1>4. /\ r \in States /\ r.pool = p /\ r.acc = s.acc /\ r.pending = s.pending
  <2>1. r = [s EXCEPT !.pool = p]
    BY DEF p
  <2> QED BY <1>3, <2>1 DEF States
<1>5. X \cap Creation = D \cap X
  BY DEF Made
<1>6. \A c, d \in D : c = d
  BY DEF IsKept
<1>7. CASE D \cap X = {}
  <2>1. (then <=> loose) /\ D \ X = D
    BY <1>5, <1>7
  <2>2. IsKept(r, C, loose, old)
    BY <1>2, <1>3, <1>4, <2>1 DEF IsKept
  <2> QED BY <1>4, <2>1, <2>2 DEF IsKept
<1>8. CASE D \cap X # {}
  <2>1. then /\ D \ X = {} /\ D # {}
    BY <1>5, <1>6, <1>8
  <2>2. s.pending
    BY <2>1 DEF IsKept
  <2> HIDE DEF D
  <2> QED BY <1>2, <1>3, <1>4, <2>1, <2>2 DEF IsKept
<1> QED BY <1>7, <1>8

\* A block is forged.
LEMMA ForgeStep ==
  ASSUME IInv, Forge
  PROVE  IInv'
<1> DEFINE ready == {t \in ToSet(pool) : Ready(t, signatures[t], account)}
           good == {t \in ready : Verify(t, signatures[t], account)}
           bad == ready \ good
           b == [t \in good |-> signatures[t]]
           s == [State EXCEPT !.pool = Without(@, bad)]
           loose == dropped \/ bad \cap Creation # {}
<1>1. ApplyBlock(b, s, loose)
  BY DEF Forge
<1>2. State \in States /\ Creations \in SUBSET Creation /\ dropped \in BOOLEAN /\ restarted \in BOOLEAN
      /\ IsKept(State, Creations, dropped, restarted) /\ OthersOK
  BY CreationsAre DEF IInv, OthersOK
<1>3. State.pool = pool /\ State.acc = account /\ pool \in Seq(Tx)
  BY <1>2, StateIs
<1>4. ToSet(pool) \subseteq Tx
  BY <1>3 DEF ToSet
<1>5. good \in SUBSET Tx /\ bad \in SUBSET ToSet(State.pool)
  BY <1>3, <1>4
<1>6. b \in [good -> Seq(Signature)] /\ DOMAIN b = good /\ \A t \in good : b[t] = signatures[t]
  BY <1>2, <1>5 DEF OthersOK
<1>7. \A t \in good : Verify(t, signatures[t], account)
  OBVIOUS
<1>8. \A t \in DOMAIN b : Verify(t, b[t], account)
  BY <1>6, <1>7
<1> HIDE DEF ready, good, bad, b
<1>9. b \in Block
  BY <1>5, <1>6, BlockIs
<1> DEFINE r == s
           then == loose
           C == Creations
<1>10. r = [State EXCEPT !.pool = Without(@, bad)] /\ (then <=> dropped \/ bad \cap Creation # {})
  OBVIOUS
<1>11. then \in BOOLEAN /\ C \in SUBSET Creation /\ IsKept(State, C, dropped, restarted)
  BY <1>2
<1> HIDE DEF r, then, C
<1>12. r \in States /\ r.acc = State.acc /\ IsKept(r, C, then, restarted)
  BY <1>2, <1>5, <1>10, <1>11, RemoveKeeps
<1>13. ApplyBlock(b, r, then)
  BY <1>1 DEF r, then
<1>14. r \in States /\ r.acc = account /\ then \in BOOLEAN
       /\ IsKept(r, Creations, then, restarted)
  BY <1>3, <1>11, <1>12 DEF C
<1> QED BY <1>8, <1>9, <1>13, <1>14, ApplyBlockKeeps

\* A block comes.
LEMMA ReceiveBlockStep ==
  ASSUME IInv, NEW t \in Tx, NEW S \in SUBSET Signature, ReceiveBlock(t, S)
  PROVE  IInv'
<1> DEFINE b == [u \in {t} |-> SetToSeq(S)]
           s == State
<1>1. Verify(t, b[t], account) /\ ApplyBlock(b, s, dropped)
  BY DEF ReceiveBlock
<1>2. s \in States /\ IsKept(s, Creations, dropped, restarted) /\ dropped \in BOOLEAN
      /\ s.acc = account
  BY <1>1, StateIs DEF IInv, OthersOK
<1>3. SetToSeq(S) \in Seq(Signature)
  BY SignatureList
<1>4. {t} \in SUBSET Tx /\ b \in [{t} -> Seq(Signature)] /\ DOMAIN b = {t}
  BY <1>3
<1>5. b \in Block
  BY <1>4, BlockIs
<1>6. \A u \in DOMAIN b : Verify(u, b[u], account)
  BY <1>1, <1>4
<1> HIDE DEF b, s
<1> QED BY <1>1, <1>2, <1>5, <1>6, ApplyBlockKeeps

\* The pool is undone.
LEMMA StartSyncStep ==
  ASSUME IInv, StartSync
  PROVE  IInv'
<1> DEFINE r == UndoAll(State)
           C == Creations
<1>1. /\ syncing' = TRUE /\ held' = Reverse(pool) /\ Update(r)
      /\ UNCHANGED <<chain, invalid, signatures, asked, queue, offered, submits, dropped, restarted>>
  BY DEF StartSync
<1>2. State \in States /\ C \in SUBSET Creation /\ dropped \in BOOLEAN /\ restarted \in BOOLEAN
      /\ IsKept(State, C, dropped, restarted) /\ OthersOK
  BY CreationsAre DEF IInv, OthersOK
<1>3. held' \in Seq(Tx)
  <2>1. pool \in Seq(Tx)
    BY <1>2, StateIs
  <2> QED BY <1>1, <2>1, ReverseIs
<1> HIDE DEF C
<1>4. r \in States /\ IsKept(r, C, dropped, restarted)
  BY <1>2, UndoAllKeeps
<1>5. OthersOK'
  BY <1>1, <1>2, <1>3 DEF OthersOK
<1> HIDE DEF r
<1> QED BY <1>1, <1>4, <1>5, StateKeeps DEF C

\* A block is popped.
LEMMA PopStep ==
  ASSUME IInv, PopBlock
  PROVE  IInv'
<1> DEFINE D == DOMAIN chain[Top]
           r == FoldLeft(UndoBoth, State, Reverse(Sorted(DOMAIN chain[Top])))
           C == Creations
<1>1. /\ chain # <<>> /\ chain' = Front(chain) /\ Update(r)
      /\ UNCHANGED <<invalid, signatures, asked, queue, held, syncing, offered, bounds, dropped, restarted>>
  BY DEF PopBlock
<1>2. State \in States /\ C \in SUBSET Creation /\ dropped \in BOOLEAN /\ restarted \in BOOLEAN
      /\ IsKept(State, C, dropped, restarted) /\ OthersOK
  BY CreationsAre DEF IInv, OthersOK
<1>3. chain \in Seq(Block) /\ OneBlock /\ \A h \in 1 .. Top : IsSigned(chain, h)
  BY DEF IInv, ChainInv
<1>4. /\ chain' \in Seq(Block) /\ Top \in Nat \ {0} /\ Top' = Top - 1
      /\ \A h \in 1 .. Top - 1 : chain'[h] = chain[h]
      /\ chain[Top] \in Block
      /\ Creations' = C \ Made(D)
      /\ Made(D) \subseteq C
  BY <1>1, <1>3, ChainPopped
<1>5. D \in SUBSET Tx
  BY <1>4, BlockTypes
<1>6. r = FoldLeft(UndoBoth, State, Reverse(Sorted(D)))
  OBVIOUS
<1> HIDE DEF D, r, C
<1>7. r \in States /\ IsKept(r, C \ Made(D), dropped, restarted)
  BY <1>2, <1>4, <1>5, <1>6, PopKeeps
<1>8. ChainInv'
  <2>1. \A h \in 1 .. Top - 1 : h \in 1 .. Top
    BY <1>4
  <2>2. OneBlock'
    BY <1>3, <1>4, <2>1 DEF OneBlock
  <2>3. ASSUME NEW h \in 1 .. Top - 1 PROVE IsSigned(chain', h)
    <3>1. h \in Nat \ {0} /\ \A g \in 1 .. h : g \in 1 .. Top - 1
      BY <1>4
    <3>2. \A g \in 1 .. h : chain'[g] = chain[g]
      BY <1>4, <3>1
    <3>3. IsSigned(chain, h)
      BY <1>3, <2>1
    <3> QED BY <3>1, <3>2, <3>3, SignedKept
  <2> QED BY <1>4, <2>2, <2>3 DEF ChainInv
<1>9. OthersOK'
  BY <1>1, <1>2 DEF OthersOK
<1>10. State' = r /\ dropped' = dropped /\ restarted' = restarted
  BY <1>1, <1>7, UpdateIs
<1> QED BY <1>4, <1>7, <1>8, <1>9, <1>10 DEF IInv

\* The pool is given back.
LEMMA EndSyncStep ==
  ASSUME IInv, EndSync
  PROVE  IInv'
<1> DEFINE l == Without(held, invalid)
           r == ReceiveAll(State, l, {})
           C == Creations
<1>1. /\ syncing' = FALSE /\ held' = <<>> /\ Update(r) /\ Forget
      /\ UNCHANGED <<chain, invalid, asked, queue, offered, bounds, dropped, restarted>>
  BY DEF EndSync
<1>2. State \in States /\ C \in SUBSET Creation /\ dropped \in BOOLEAN /\ restarted \in BOOLEAN
      /\ IsKept(State, C, dropped, restarted) /\ OthersOK /\ held \in Seq(Tx)
  BY CreationsAre DEF IInv, OthersOK
<1> HIDE DEF C
<1>3. r \in States /\ IsKept(r, C, dropped, restarted)
  <2>1. l \in Seq(Tx \ invalid)
    BY <1>2, WithoutIs
  <2> HIDE DEF l
  <2>2. l \in Seq(Tx)
    BY <2>1
  <2> QED BY <1>2, <2>2, ReceiveAllKeeps
<1>4. signatures' \in [Tx -> Seq(Signature)] /\ <<>> \in Seq(Tx)
  BY <1>1, <1>2, ForgetKeeps DEF OthersOK
<1>5. OthersOK'
  BY <1>1, <1>2, <1>4 DEF OthersOK
<1> HIDE DEF r
<1> QED BY <1>1, <1>3, <1>5, StateKeeps DEF C

\* The node starts again.
LEMMA RestartStep ==
  ASSUME IInv, Restart
  PROVE  IInv'
<1> DEFINE r == [acc |-> account, pending |-> FALSE, pool |-> <<>>]
<1>1. /\ pending' = FALSE /\ pool' = <<>> /\ held' = <<>> /\ syncing' = FALSE
      /\ asked' = {} /\ queue' = <<>> /\ invalid' = {} /\ dropped' = FALSE
      /\ restarted' = (restarted \/ pending) /\ Forget
      /\ UNCHANGED <<chain, account, offered, submits>>
  BY DEF Restart
<1>2. IsKept(State, Creations, dropped, restarted) /\ OthersOK
      /\ account \in Account /\ pending \in BOOLEAN /\ restarted \in BOOLEAN
  BY StateIs DEF IInv, OthersOK
<1>3. /\ r \in States /\ r.acc = account /\ r.pending = FALSE /\ r.pool = <<>>
  BY <1>2 DEF States
<1> HIDE DEF r
<1>4. Update(r)
  BY <1>1, <1>3 DEF Update
<1>5. ToSet(<<>>) = {} /\ IsInjective(<<>>) /\ Made(ToSet(<<>>)) = {}
  BY DEF ToSet, Made, IsInjective
<1>6. IsKept(r, Creations, dropped', restarted')
  <2>1. State.acc = account /\ State.pending = pending
    BY StateIs
  <2>2. IsOf(account.group, account.min, Creations)
    BY <1>2, <2>1 DEF IsKept
  <2>3. ~restarted' => IsOf(account.uGroup, account.uMin, Creations \cup Made(ToSet(<<>>)))
    <3> SUFFICES ASSUME ~restarted' PROVE IsOf(account.uGroup, account.uMin, Creations)
      BY <1>5
    <3>1. ~restarted /\ ~pending
      BY <1>1
    <3>2. ~dropped /\ Made(ToSet(State.pool)) = {}
      BY <1>2, <2>1, <3>1 DEF IsKept
    <3>3. Creations \cup Made(ToSet(State.pool)) = Creations
      BY <3>2
    <3> QED BY <1>2, <2>1, <3>1, <3>2, <3>3 DEF IsKept
  <2>4. dropped' = FALSE
    BY <1>1
  <2> QED BY <1>3, <1>5, <2>2, <2>3, <2>4 DEF IsKept
<1>7. signatures' \in [Tx -> Seq(Signature)] /\ <<>> \in Seq(Tx) /\ <<>> \in Seq([tx : Tx, sig : Signature])
  BY <1>1, <1>2, ForgetKeeps DEF OthersOK
<1>8. OthersOK'
  BY <1>1, <1>2, <1>7 DEF OthersOK
<1> QED BY <1>1, <1>3, <1>4, <1>6, <1>8, StateKeeps

\* It is true at first.
LEMMA InitKept ==
  ASSUME Init
  PROVE  IInv
<1>1. ToSet(<<>>) = {} /\ IsInjective(<<>>) /\ Made(ToSet(<<>>)) = {} /\ Len(<<>>) = 0
      /\ 1 .. 0 = {} /\ <<>> \in Seq(Tx) /\ <<>> \in Seq(Signature)
      /\ <<>> \in Seq([tx : Tx, sig : Signature]) /\ <<>> \in Seq(Block)
  BY DEF ToSet, Made, IsInjective
<1>2. Top = 0 /\ chain \in Seq(Block) /\ Creations = {}
  BY <1>1 DEF Init, Top, Creations, Confirmed
<1>3. ChainInv
  BY <1>1, <1>2 DEF ChainInv, OneBlock
<1>4. NoAccount \in Account
  BY DEF NoAccount, Account
<1>5. State \in States /\ State.acc = NoAccount /\ State.pending = FALSE /\ State.pool = <<>>
  BY <1>1, <1>4, StateIs DEF Init
<1>6. State.acc.group = {} /\ State.acc.min = 0 /\ State.acc.uGroup = {} /\ State.acc.uMin = 0
  BY <1>5 DEF NoAccount
<1>7. IsOf({}, 0, {}) /\ {} \cup Made(ToSet(<<>>)) = {}
  BY <1>1 DEF IsOf
<1>8. IsKept(State, Creations, dropped, restarted)
  BY <1>1, <1>2, <1>5, <1>6, <1>7 DEF IsKept, Init
<1>9. OthersOK
  BY <1>1, ConstantsAssumption DEF Init, OthersOK
<1> QED BY <1>3, <1>5, <1>8, <1>9 DEF IInv

\* The inductive invariant: the columns are those of the creation in the chain, at
\* most one is in the chain or in the pool, what is pending is in the pool or was left
\* there by a block, and the blocks are signed.
THEOREM GroupInvariance == Spec => []IInv
<1>1. Init => IInv
  BY InitKept
<1>2. IInv /\ [Next]_vars => IInv'
  <2> SUFFICES ASSUME IInv, [Next]_vars PROVE IInv'
    OBVIOUS
  <2>0. offered \subseteq Tx
    BY DEF IInv, OthersOK
  <2>1. ASSUME NEW t \in offered, NEW S \in SUBSET Signature, ReceiveTransaction(t, S) PROVE IInv'
    BY <2>0, <2>1, ReceiveStep
  <2>2. ASSUME NEW t \in offered, NEW S \in SUBSET Signature, ReceiveBlock(t, S) PROVE IInv'
    BY <2>0, <2>2, ReceiveBlockStep
  <2>3. ASSUME NEW t \in offered, NEW k \in Signature, Submit(t, k) PROVE IInv'
    BY <2>0, <2>3, SubmitStep
  <2>4. ASSUME NEW a \in asked, Answer(a) PROVE IInv'
    BY <2>4, AnswerStep
  <2>5. CASE AddSignature
    BY <2>5, AddSignatureStep
  <2>6. CASE Forge
    BY <2>6, ForgeStep
  <2>7. CASE StartSync
    BY <2>7, StartSyncStep
  <2>8. CASE PopBlock
    BY <2>8, PopStep
  <2>9. CASE EndSync
    BY <2>9, EndSyncStep
  <2>10. CASE Restart
    BY <2>10, RestartStep
  <2>11. CASE UNCHANGED vars
    <3>1. UNCHANGED <<chain, account, pending, pool, dropped, restarted>> /\ OthersOK'
      BY <2>11 DEF vars, IInv, OthersOK
    <3> QED BY <3>1, AsideKeeps
  <2> QED BY <2>1, <2>2, <2>3, <2>4, <2>5, <2>6, <2>7, <2>8, <2>9, <2>10, <2>11 DEF Next
<1> QED BY <1>1, <1>2, PTL DEF Spec

-----------------------------------------------------------------------------
(* The properties *)

\* What has one value at most has a cardinality of one at most.
LEMMA OneAtMost ==
  ASSUME NEW S, \A x, y \in S : x = y
  PROVE  Cardinality(S) <= 1
<1>1. CASE S = {}
  BY <1>1, FS_EmptySet
<1>2. CASE S # {}
  <2>1. PICK x \in S : TRUE
    BY <1>2
  <2>2. S = {x}
    BY <2>1
  <2> QED BY <2>2, FS_Singleton
<1> QED BY <1>1, <1>2

\* The columns of the one creation, as the properties put it.
LEMMA ColumnsOf ==
  ASSUME NEW C \in SUBSET Creation, NEW g, NEW m, IsOf(g, m, C)
  PROVE  /\ g = UNION {Group[c] : c \in C}
         /\ m = IF C = {} THEN 0 ELSE Minimum[CHOOSE c \in C : TRUE]
<1>1. CASE C = {}
  BY <1>1 DEF IsOf
<1>2. CASE C # {}
  <2> DEFINE c == CHOOSE c \in C : TRUE
  <2>1. c \in C
    BY <1>2
  <2> HIDE DEF c
  <2>2. C = {c} /\ g = Group[c] /\ m = Minimum[c]
    BY <2>1 DEF IsOf
  <2>3. UNION {Group[d] : d \in C} = Group[c]
    BY <2>2
  <2> QED BY <1>2, <2>2, <2>3 DEF c
<1> QED BY <1>1, <1>2

\* Every value is of its type.
LEMMA TypesOK ==
  ASSUME IInv
  PROVE  TypeOK
<1>1. ChainInv /\ State \in States /\ IsKept(State, Creations, dropped, restarted) /\ OthersOK
  BY DEF IInv
<1>2. account \in Account /\ pending \in BOOLEAN /\ pool \in Seq(Tx) /\ IsInjective(pool)
  BY <1>1, StateIs DEF IsKept
<1>3. ASSUME NEW h \in 1 .. Top
      PROVE  DOMAIN chain[h] \subseteq Tx /\ chain[h] \in [DOMAIN chain[h] -> Seq(Signature)]
  <2>1. chain[h] \in Block
    BY <1>1 DEF ChainInv, Top
  <2> QED BY <2>1, BlockTypes
<1> QED BY <1>1, <1>2, <1>3 DEF TypeOK, OthersOK

\* The account has the group and the minimum of the creation in the chain: undo in
\* multisignatures.js takes off what apply put on, whatever fails in between.
THEOREM GroupsSound == Spec => []GroupReflectsChain
<1>1. IInv => GroupReflectsChain
  <2> SUFFICES ASSUME IInv PROVE GroupReflectsChain
    OBVIOUS
  <2>1. IsOf(account.group, account.min, Creations) /\ Creations \in SUBSET Creation
    BY StateIs, CreationsAre DEF IInv, IsKept
  <2>2. Cardinality(Creations) <= 1
    BY <2>1, OneAtMost DEF IsOf
  <2>3. /\ account.group = UNION {Group[c] : c \in Creations}
        /\ account.min = IF Creations = {} THEN 0 ELSE Minimum[CHOOSE c \in Creations : TRUE]
    BY <2>1, ColumnsOf
  <2> QED BY <2>2, <2>3, TypesOK DEF GroupReflectsChain
<1> QED BY <1>1, GroupInvariance, PTL

\* A creation in the pool is pending; what is pending is in the pool, with its members
\* and its minimum in the unconfirmed columns, but for what generateBlock drops, a block
\* that fails leaves or a restart forgets.
THEOREM PendingSound == Spec => []PendingReflectsPool
<1>1. IInv => PendingReflectsPool
  <2> SUFFICES ASSUME IInv PROVE PendingReflectsPool
    OBVIOUS
  <2>1. IsKept(State, Creations, dropped, restarted) /\ Creations \in SUBSET Creation
        /\ State.acc = account /\ State.pending = pending /\ State.pool = pool
    BY StateIs, CreationsAre DEF IInv
  <2>2. Made(ToSet(pool)) = InPool /\ InPool \in SUBSET Creation
    BY DEF Made, InPool
  <2>3. (InPool # {} => pending) /\ (~dropped /\ pending => InPool # {})
    BY <2>1, <2>2 DEF IsKept
  <2>4. ASSUME ~dropped, ~restarted
        PROVE  /\ account.uGroup = account.group \cup UNION {Group[c] : c \in InPool}
               /\ account.uMin = account.min
                    + IF InPool = {} THEN 0 ELSE Minimum[CHOOSE c \in InPool : TRUE]
    <3>1. /\ IsOf(account.uGroup, account.uMin, Creations \cup InPool)
          /\ IsOf(account.group, account.min, Creations)
          /\ InPool # {} => Creations = {}
      BY <2>1, <2>2, <2>3, <2>4 DEF IsKept
    <3>2. CASE InPool = {}
      <4>1. account.uGroup = account.group /\ account.uMin = account.min
        <5>1. Creations \cup InPool = Creations
          BY <3>2
        <5> QED BY <3>1, <5>1 DEF IsOf
      <4>2. account.min \in Int
        BY StateIs, StateTypes DEF IInv
      <4>3. UNION {Group[c] : c \in InPool} = {}
        BY <3>2
      <4> QED BY <3>2, <4>1, <4>2, <4>3
    <3>3. CASE InPool # {}
      <4>1. Creations = {} /\ Creations \cup InPool = InPool
        BY <3>1, <3>3
      <4>2. account.group = {} /\ account.min = 0
        BY <3>1, <4>1 DEF IsOf
      <4>3. IsOf(account.uGroup, account.uMin, InPool)
        BY <3>1, <4>1
      <4>4. /\ account.uGroup = UNION {Group[c] : c \in InPool}
            /\ account.uMin = Minimum[CHOOSE c \in InPool : TRUE]
        BY <2>2, <3>3, <4>3, ColumnsOf
      <4>5. Minimum[CHOOSE c \in InPool : TRUE] \in Int
        <5>1. (CHOOSE c \in InPool : TRUE) \in Creation
          BY <2>2, <3>3
        <5> QED BY <5>1, CreationTypes
      <4> QED BY <3>3, <4>2, <4>4, <4>5
    <3> QED BY <3>2, <3>3
  <2> QED BY <2>3, <2>4 DEF PendingReflectsPool
<1> QED BY <1>1, GroupInvariance, PTL

\* What is forged has the signatures that verify and Ready ask for, however late and
\* often they came in: those of every member for a creation, min - 1 different strings
\* of those who may sign for what comes after it.
THEOREM SignedSound == Spec => []ForgedAreSigned
<1>1. IInv => ForgedAreSigned
  BY DEF IInv, ChainInv, IsSigned, SignedFor, ForgedAreSigned
<1> QED BY <1>1, GroupInvariance, PTL

=============================================================================
