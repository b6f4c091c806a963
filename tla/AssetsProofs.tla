---------------------------- MODULE AssetsProofs ----------------------------
(***************************************************************************)
(* The approvals, the supply and the cache of Assets.tla are those of the  *)
(* chain, for any assets, issues, delegates, lists of active ones, blocks  *)
(* and bounds.                                                             *)
(*                                                                         *)
(* The votes for a value v are counted by place: At(A, R, b, v, p) is how  *)
(* many there are, of the delegates A, among the transactions R of earlier *)
(* blocks and the first p of the block b.  A block applied to its place p  *)
(* has counted At(p) - At(0) of them in oneoff, one undone to its place p  *)
(* At(p) - At(Len(b)), so either compares the same number with the         *)
(* threshold (ApplyStep, UndoStep).  The number grows at each approval of  *)
(* v, so it is reached once (GainedMore, Once), and the undo takes back    *)
(* what that block had made complete.  It cannot fail for want of a        *)
(* balance, as there was enough at each place when the block was applied.  *)
(***************************************************************************)
EXTENDS Assets, ListsProofs

-----------------------------------------------------------------------------
(* What a transaction does to the tables *)

Money == [issuer : Int, pool : Int, total : Int]
States ==
  [ok : BOOLEAN, approved : SUBSET Value, quantity : [Asset -> Int],
   balance : [Asset -> Nat], minted : Money, cache : [Asset -> Int],
   memCount : [Value -> Int]]

\* The constants have the types that the proofs need.
LEMMA Constants ==
  /\ ChainLevel \subseteq Asset /\ Approved \subseteq Asset /\ Asset \cap Issue = {}
  /\ IsFiniteSet(Asset) /\ IsFiniteSet(Issue)
  /\ Currency \in [Issue -> Asset] /\ Amount \in [Issue -> Nat] /\ Acc \in [Issue -> Nat]
  /\ LockedOf \in [Issue -> Nat] /\ \A i \in Issue : LockedOf[i] = Locked(i)
  /\ \A b \in Block : b \in Seq(Transaction)
<1>1. \A i \in Issue : Acc[i] \in Nat
  BY ConstantsAssumption
<1>2. \A i \in Issue : Locked(i) \in Nat
  BY <1>1 DEF Locked
<1> QED BY ConstantsAssumption, <1>2 DEF LockedOf

\* A transaction is of one of four types.
LEMMA Types ==
  ASSUME NEW t \in Transaction
  PROVE  /\ t.type = "approval" <=> t \in Approval
         /\ t.type = "exercise" <=> t \in Exercise
         /\ t.type = "issue" <=> t \in IssueOf
         /\ t.type = "asset" <=> t \in Registration
         /\ t \in Approval => t.by \in Delegate /\ t.value \in Value
         /\ t \in Exercise => t.asset \in Asset /\ t.asset \notin ChainLevel /\ t.amount \in Nat
         /\ t \in IssueOf => t.id \in Issue /\ t = [type |-> "issue", id |-> t.id]
         /\ t \in Registration => t.asset \in Asset /\ t = [type |-> "asset", asset |-> t.asset]
BY DEF Transaction, Approval, Registration, IssueOf, Exercise

\* A number is added at one place.
LEMMA PlusIs ==
  ASSUME NEW D, NEW f \in [D -> Int], NEW x \in D, NEW n \in Int
  PROVE  /\ Plus(f, x, n) \in [D -> Int] /\ Plus(f, x, n)[x] = f[x] + n
         /\ \A y \in D : y # x => Plus(f, x, n)[y] = f[y]
BY DEF Plus

\* The ACC of an issue is created, or goes.
LEMMA MintIs ==
  ASSUME NEW m \in Money, NEW i \in Issue
  PROVE  /\ Mint(m, i, 1) \in Money /\ Mint(m, i, -1) \in Money
         /\ Mint(m, i, 1).issuer = m.issuer + Acc[i]
         /\ Mint(m, i, 1).pool = m.pool + LockedOf[i]
         /\ Mint(m, i, 1).total = m.total + (Acc[i] + LockedOf[i])
         /\ Mint(m, i, -1).issuer = m.issuer - Acc[i]
         /\ Mint(m, i, -1).pool = m.pool - LockedOf[i]
         /\ Mint(m, i, -1).total = m.total - (Acc[i] + LockedOf[i])
<1> DEFINE x == Acc[i]
           y == Locked(i)
           u == m.issuer
           v == m.pool
           w == m.total
<1>1. x \in Nat /\ y \in Nat /\ LockedOf[i] = y
  BY Constants
<1>2. u \in Int /\ v \in Int /\ w \in Int
  BY DEF Money
<1>3. /\ Mint(m, i, 1) = [issuer |-> u + 1 * x, pool |-> v + 1 * y, total |-> w + 1 * (x + y)]
      /\ Mint(m, i, -1) = [issuer |-> u + (-1) * x, pool |-> v + (-1) * y,
                           total |-> w + (-1) * (x + y)]
  BY DEF Mint, Unlocked
<1> HIDE DEF x, y, u, v, w
<1>4. /\ u + 1 * x = u + x /\ v + 1 * y = v + y /\ w + 1 * (x + y) = w + (x + y)
      /\ u + (-1) * x = u - x /\ v + (-1) * y = v - y /\ w + (-1) * (x + y) = w - (x + y)
      /\ {u + x, v + y, w + (x + y), u - x, v - y, w - (x + y)} \subseteq Int
  BY <1>1, <1>2
<1>5. /\ Mint(m, i, 1) = [issuer |-> u + x, pool |-> v + y, total |-> w + (x + y)]
      /\ Mint(m, i, -1) = [issuer |-> u - x, pool |-> v - y, total |-> w - (x + y)]
  BY <1>3, <1>4
<1>6. Mint(m, i, 1) \in Money /\ Mint(m, i, -1) \in Money
  BY <1>4, <1>5 DEF Money
<1> QED BY <1>1, <1>5, <1>6 DEF x, y, u, v, w

RowOf(i) == [type |-> "issue", id |-> i]

\* The money in u is that in s, but for the cache.
Same(s, u) == u.quantity = s.quantity /\ u.balance = s.balance /\ u.minted = s.minted

\* u is s with the issue i approved, but for the cache.
Gains(s, u, i) ==
  /\ \A a \in Asset : LET n == IF a = Currency[i] THEN Amount[i] ELSE 0
                      IN  /\ u.quantity[a] = s.quantity[a] + n
                          /\ u.balance[a] = s.balance[a] + n
  /\ LET on == Currency[i] \in ChainLevel
         x == IF on THEN Acc[i] ELSE 0
         y == IF on THEN LockedOf[i] ELSE 0
     IN  /\ u.minted.issuer = s.minted.issuer + x /\ u.minted.pool = s.minted.pool + y
         /\ u.minted.total = s.minted.total + (x + y)

\* u is s with the exercise e, but for the cache.
Spends(s, u, e) ==
  /\ \A a \in Asset : LET n == IF a = e.asset THEN e.amount ELSE 0
                      IN  /\ u.quantity[a] = s.quantity[a] - n
                          /\ u.balance[a] = s.balance[a] - n
  /\ u.minted = s.minted

\* The tables with an amount of one asset more, or less, and its ACC.
Changed(s, u, i, k) ==
  /\ u.quantity = Plus(s.quantity, Currency[i], k * Amount[i])
  /\ u.balance = Plus(s.balance, Currency[i], k * Amount[i])
  /\ u.minted = IF Currency[i] \in ChainLevel THEN Mint(s.minted, i, k) ELSE s.minted

\* An issue gained is what an approval changes, and lost, what its undo changes.
LEMMA ChangedIs ==
  ASSUME NEW s \in States, NEW u \in States, NEW i \in Issue
  PROVE  /\ Changed(s, u, i, 1) => Gains(s, u, i)
         /\ Changed(s, u, i, -1) => Gains(u, s, i)
<1> DEFINE a == Currency[i]
           n == Amount[i]
           A == Acc[i]
           L == LockedOf[i]
           sm == s.minted
           um == u.minted
           sq == s.quantity
           uq == u.quantity
           sb == s.balance
           ub == u.balance
<1>1. a \in Asset /\ n \in Nat /\ A \in Nat /\ L \in Nat
  BY Constants
<1>2. /\ sq \in [Asset -> Int] /\ uq \in [Asset -> Int]
      /\ sb \in [Asset -> Int] /\ ub \in [Asset -> Int] /\ sm \in Money /\ um \in Money
  BY DEF States
<1>3. /\ sm.issuer \in Int /\ sm.pool \in Int /\ sm.total \in Int
      /\ um.issuer \in Int /\ um.pool \in Int /\ um.total \in Int
  BY <1>2 DEF Money
<1>4. /\ Mint(sm, i, 1).issuer = sm.issuer + A /\ Mint(sm, i, 1).pool = sm.pool + L
      /\ Mint(sm, i, 1).total = sm.total + (A + L)
      /\ Mint(sm, i, -1).issuer = sm.issuer - A /\ Mint(sm, i, -1).pool = sm.pool - L
      /\ Mint(sm, i, -1).total = sm.total - (A + L)
  BY <1>2, MintIs
<1>5. 1 * n = n /\ (-1) * n = -n /\ n \in Int /\ -n \in Int
  BY <1>1
<1>6. ASSUME Changed(s, u, i, 1)
      PROVE  Gains(s, u, i)
  <2>1. /\ uq = Plus(sq, a, n) /\ ub = Plus(sb, a, n)
        /\ um = IF a \in ChainLevel THEN Mint(sm, i, 1) ELSE sm
    BY <1>5, <1>6 DEF Changed
  <2>2. /\ uq[a] = sq[a] + n /\ \A y \in Asset : y # a => uq[y] = sq[y]
        /\ ub[a] = sb[a] + n /\ \A y \in Asset : y # a => ub[y] = sb[y]
    <3> DEFINE k == n
    <3>1. k \in Int
      BY <1>5
    <3> HIDE DEF a, n, sq, uq, sb, ub, um, sm, k
    <3>2. /\ Plus(sq, a, k)[a] = sq[a] + k
          /\ \A y \in Asset : y # a => Plus(sq, a, k)[y] = sq[y]
      BY <1>1, <1>2, <3>1 DEF Plus
    <3>3. /\ Plus(sb, a, k)[a] = sb[a] + k
          /\ \A y \in Asset : y # a => Plus(sb, a, k)[y] = sb[y]
      BY <1>1, <1>2, <3>1 DEF Plus
    <3> QED BY <2>1, <3>2, <3>3 DEF k
  <2>3. a \in ChainLevel => /\ um.issuer = sm.issuer + A /\ um.pool = sm.pool + L
                            /\ um.total = sm.total + (A + L)
    BY <1>4, <2>1
  <2>4. a \notin ChainLevel => um = sm
    BY <2>1
  <2> HIDE DEF sq, uq, sb, ub, um, sm, a, n, A, L
  <2>5. \A y \in Asset : /\ uq[y] = sq[y] + (IF y = a THEN n ELSE 0)
                         /\ ub[y] = sb[y] + (IF y = a THEN n ELSE 0)
    BY <1>1, <1>2, <2>2
  <2>6. /\ um.issuer = sm.issuer + (IF a \in ChainLevel THEN A ELSE 0)
        /\ um.pool = sm.pool + (IF a \in ChainLevel THEN L ELSE 0)
        /\ um.total = sm.total + ((IF a \in ChainLevel THEN A ELSE 0)
                                  + (IF a \in ChainLevel THEN L ELSE 0))
    BY <1>1, <1>3, <2>3, <2>4
  <2> QED BY <2>5, <2>6 DEF Gains, sq, uq, sb, ub, um, sm, a, n, A, L
<1>7. ASSUME Changed(s, u, i, -1)
      PROVE  Gains(u, s, i)
  <2>1. /\ uq = Plus(sq, a, -n) /\ ub = Plus(sb, a, -n)
        /\ um = IF a \in ChainLevel THEN Mint(sm, i, -1) ELSE sm
    BY <1>5, <1>7 DEF Changed
  <2>2. /\ uq[a] = sq[a] + (-n) /\ \A y \in Asset : y # a => uq[y] = sq[y]
        /\ ub[a] = sb[a] + (-n) /\ \A y \in Asset : y # a => ub[y] = sb[y]
    <3> DEFINE k == -n
    <3>1. k \in Int
      BY <1>5
    <3> HIDE DEF a, n, sq, uq, sb, ub, um, sm, k
    <3>2. /\ Plus(sq, a, k)[a] = sq[a] + k
          /\ \A y \in Asset : y # a => Plus(sq, a, k)[y] = sq[y]
      BY <1>1, <1>2, <3>1 DEF Plus
    <3>3. /\ Plus(sb, a, k)[a] = sb[a] + k
          /\ \A y \in Asset : y # a => Plus(sb, a, k)[y] = sb[y]
      BY <1>1, <1>2, <3>1 DEF Plus
    <3> QED BY <2>1, <3>2, <3>3 DEF k
  <2>3. a \in ChainLevel => /\ um.issuer = sm.issuer - A /\ um.pool = sm.pool - L
                            /\ um.total = sm.total - (A + L)
    BY <1>4, <2>1
  <2>4. a \notin ChainLevel => um = sm
    BY <2>1
  <2> HIDE DEF sq, uq, sb, ub, um, sm, a, n, A, L
  <2>5. \A y \in Asset : /\ sq[y] = uq[y] + (IF y = a THEN n ELSE 0)
                         /\ sb[y] = ub[y] + (IF y = a THEN n ELSE 0)
    BY <1>1, <1>2, <2>2
  <2>6. /\ sm.issuer = um.issuer + (IF a \in ChainLevel THEN A ELSE 0)
        /\ sm.pool = um.pool + (IF a \in ChainLevel THEN L ELSE 0)
        /\ sm.total = um.total + ((IF a \in ChainLevel THEN A ELSE 0)
                                  + (IF a \in ChainLevel THEN L ELSE 0))
    BY <1>1, <1>3, <2>3, <2>4
  <2> QED BY <2>5, <2>6 DEF Gains, sq, uq, sb, ub, um, sm, a, n, A, L
<1> QED BY <1>6, <1>7

\* An issue is approved unless it was, or the block fails.
LEMMA ApproveIssueIs ==
  ASSUME NEW s \in States, s.ok, NEW i \in Issue, NEW x, x = ApproveIssue(s, i)
  PROVE  /\ x \in States
         /\ x.ok => /\ RowOf(i) \in rows /\ x.memCount = s.memCount
                    /\ x.approved = s.approved \cup {i}
                    /\ i \in s.approved => Same(s, x) /\ x.cache = s.cache
                    /\ i \notin s.approved => Gains(s, x, i)
                    /\ s.cache = s.balance => x.cache = x.balance
<1> DEFINE a == Currency[i]
           n == Amount[i]
           q == Plus(s.quantity, a, n)
           e == Plus(s.balance, a, n)
           c == Plus(s.cache, a, n)
           m == IF a \in ChainLevel THEN Mint(s.minted, i, 1) ELSE s.minted
           u == [s EXCEPT !.approved = s.approved \cup {i}, !.quantity = q, !.balance = e,
                          !.cache = c, !.minted = m]
<1>1. a \in Asset /\ n \in Nat /\ n \in Int /\ i \in Value
  BY Constants DEF Value
<1>2. /\ s.quantity \in [Asset -> Int] /\ s.balance \in [Asset -> Nat]
      /\ s.balance \in [Asset -> Int]
      /\ s.cache \in [Asset -> Int] /\ s.minted \in Money /\ s.approved \in SUBSET Value
  BY DEF States
<1>3. q \in [Asset -> Int] /\ c \in [Asset -> Int] /\ e \in [Asset -> Int]
  BY <1>1, <1>2, PlusIs
<1>4. m \in Money
  BY <1>2, MintIs
<1>5. e \in [Asset -> Nat]
  <2> DEFINE sb == s.balance
  <2>1. e[a] = sb[a] + n /\ \A y \in Asset : y # a => e[y] = sb[y]
    <3>1. e = Plus(sb, a, n) /\ sb \in [Asset -> Int]
      BY <1>2
    <3> HIDE DEF a, n, sb, e
    <3> QED BY <1>1, <3>1 DEF Plus
  <2> HIDE DEF e, n, a
  <2>2. \A y \in Asset : e[y] \in Nat
    BY <1>1, <1>2, <2>1
  <2> QED BY <1>3, <2>2
<1>6. \/ x = Failed(s)
      \/ RowOf(i) \in rows /\ i \in s.approved /\ x = s
      \/ RowOf(i) \in rows /\ i \notin s.approved /\ x = u
  BY DEF ApproveIssue, RowOf
<1> HIDE DEF q, e, c, m
<1>7. Failed(s) \in States /\ ~Failed(s).ok
  BY DEF Failed, States
<1>8. /\ u \in States /\ u.balance = e /\ u.quantity = q /\ u.cache = c /\ u.minted = m
      /\ u.approved = s.approved \cup {i} /\ u.memCount = s.memCount
  BY <1>1, <1>2, <1>3, <1>4, <1>5 DEF States
<1> HIDE DEF u
<1>9. CASE x = Failed(s)
  BY <1>7, <1>9
<1>10. CASE RowOf(i) \in rows /\ i \in s.approved /\ x = s
  BY <1>10 DEF Same
<1>11. CASE RowOf(i) \in rows /\ i \notin s.approved /\ x = u
  <2>1. 1 * n = n
    BY <1>1
  <2>2. Changed(s, u, i, 1)
    BY <1>8, <2>1 DEF Changed, q, e, m
  <2>3. Gains(s, u, i)
    BY <1>8, <2>2, ChangedIs
  <2>4. s.cache = s.balance => u.cache = u.balance
    BY <1>8 DEF c, e
  <2> QED BY <1>8, <1>11, <2>3, <2>4
<1> QED BY <1>6, <1>9, <1>10, <1>11


\* What applying t to x gives, if it does not fail: y.
Applied(x, t, y) ==
  /\ t \in Approval =>
       LET v == t.value
           full == ActiveVotes(v, x.memCount[v] + 1) = Threshold
       IN  /\ y.memCount = Plus(x.memCount, v, 1)
           /\ ~full => y.approved = x.approved /\ Same(x, y)
           /\ full /\ v \in Issue =>
                /\ RowOf(v) \in rows /\ y.approved = x.approved \cup {v}
                /\ v \in x.approved => Same(x, y)
                /\ v \notin x.approved => Gains(x, y, v)
           /\ full /\ v \notin Issue =>
                y.approved = x.approved \cup ({v} \cap Registered) /\ Same(x, y)
  /\ t \in Exercise => /\ y.memCount = x.memCount /\ y.approved = x.approved
                       /\ Spends(x, y, t)
  /\ t \notin Approval \cup Exercise => y = x
  /\ x.cache = x.balance => y.cache = y.balance

\* An amount is taken from the tables, or put back.
LEMMA SpendIs ==
  ASSUME NEW s \in States, s.ok, NEW e \in Exercise, NEW k \in {1, -1},
         NEW x, x = Spend(s, e.asset, k * e.amount)
  PROVE  /\ x \in States
         /\ k = -1 => x.ok
         /\ x.ok => /\ x.memCount = s.memCount /\ x.approved = s.approved /\ x.cache = s.cache
                    /\ x.balance = Plus(s.balance, e.asset, -(k * e.amount))
                    /\ k = 1 => Spends(s, x, e)
                    /\ k = -1 => Spends(x, s, e)
<1> DEFINE a == e.asset
           n == k * e.amount
           q == Plus(s.quantity, a, -n)
           d == Plus(s.balance, a, -n)
           u == [s EXCEPT !.balance = d, !.quantity = q]
<1>1. a \in Asset /\ e.amount \in Nat /\ n \in Int /\ -n \in Int
  <2>1. a \in Asset /\ e.amount \in Nat
    BY DEF Exercise
  <2> HIDE DEF a
  <2> QED BY <2>1
<1>2. /\ s.quantity \in [Asset -> Int] /\ s.balance \in [Asset -> Nat]
      /\ s.balance \in [Asset -> Int]
  BY DEF States
<1>3. /\ q \in [Asset -> Int] /\ d \in [Asset -> Int]
      /\ q[a] = s.quantity[a] + (-n) /\ \A y \in Asset : y # a => q[y] = s.quantity[y]
      /\ d[a] = s.balance[a] + (-n) /\ \A y \in Asset : y # a => d[y] = s.balance[y]
  <2> DEFINE m == -n
             sq == s.quantity
             sb == s.balance
  <2>1. m \in Int /\ sq \in [Asset -> Int] /\ sb \in [Asset -> Int]
    BY <1>1, <1>2
  <2> HIDE DEF a, n, m, sq, sb
  <2>2. /\ Plus(sq, a, m) \in [Asset -> Int] /\ Plus(sq, a, m)[a] = sq[a] + m
        /\ \A y \in Asset : y # a => Plus(sq, a, m)[y] = sq[y]
    BY <1>1, <2>1 DEF Plus
  <2>3. /\ Plus(sb, a, m) \in [Asset -> Int] /\ Plus(sb, a, m)[a] = sb[a] + m
        /\ \A y \in Asset : y # a => Plus(sb, a, m)[y] = sb[y]
    BY <1>1, <2>1 DEF Plus
  <2> QED BY <2>2, <2>3 DEF m, sq, sb
<1>4. \/ x = Failed(s) /\ s.balance[a] < n
      \/ x = u /\ ~(s.balance[a] < n)
  BY DEF Spend
<1>5. Failed(s) \in States /\ ~Failed(s).ok
  BY DEF Failed, States
<1>6. k = -1 => ~(s.balance[a] < n)
  BY <1>1, <1>2
<1>7. CASE x = u /\ ~(s.balance[a] < n)
  <2>1. d \in [Asset -> Nat]
    <3> HIDE DEF a, n, d
    <3>1. \A y \in Asset : d[y] \in Nat
      BY <1>1, <1>2, <1>3, <1>7
    <3> QED BY <1>3, <3>1
  <2> HIDE DEF q, d
  <2>2. /\ u \in States /\ u.ok /\ u.memCount = s.memCount /\ u.approved = s.approved
        /\ u.cache = s.cache /\ u.balance = d /\ u.quantity = q /\ u.minted = s.minted
    BY <1>3, <2>1 DEF States
  <2> HIDE DEF u
  <2>3. ASSUME k = 1
        PROVE  Spends(s, u, e)
    <3> DEFINE m == e.amount
    <3>1. n = m /\ m \in Nat
      BY <1>1, <2>3
    <3> HIDE DEF m, n
    <3>2. \A y \in Asset : /\ q[y] = s.quantity[y] - (IF y = a THEN m ELSE 0)
                           /\ d[y] = s.balance[y] - (IF y = a THEN m ELSE 0)
      <4> HIDE DEF a
      <4> QED BY <1>2, <1>3, <3>1
    <3> QED BY <2>2, <3>2 DEF Spends, m
  <2>4. ASSUME k = -1
        PROVE  Spends(u, s, e)
    <3> DEFINE m == e.amount
    <3>1. -n = m /\ m \in Nat
      BY <1>1, <2>4
    <3> HIDE DEF m, n
    <3>2. \A y \in Asset : /\ s.quantity[y] = q[y] - (IF y = a THEN m ELSE 0)
                           /\ s.balance[y] = d[y] - (IF y = a THEN m ELSE 0)
      <4> HIDE DEF a
      <4> QED BY <1>2, <1>3, <3>1
    <3> QED BY <2>2, <3>2 DEF Spends, m
  <2> QED BY <1>7, <2>2, <2>3, <2>4 DEF d
<1>8. CASE x = Failed(s) /\ s.balance[a] < n
  BY <1>5, <1>6, <1>8
<1> QED BY <1>4, <1>7, <1>8

\* A count goes up or down by one.
LEMMA CountedIs ==
  ASSUME NEW s \in States, s.ok, NEW v \in Value, NEW k \in {1, -1},
         NEW x, x = [s EXCEPT !.memCount = Plus(s.memCount, v, k)]
  PROVE  /\ x \in States /\ x.ok /\ x.memCount = Plus(s.memCount, v, k)
         /\ x.memCount[v] = s.memCount[v] + k
         /\ x.approved = s.approved /\ x.cache = s.cache /\ Same(s, x)
<1>1. s.memCount \in [Value -> Int] /\ k \in Int
  BY DEF States
<1>2. /\ Plus(s.memCount, v, k) \in [Value -> Int]
      /\ Plus(s.memCount, v, k)[v] = s.memCount[v] + k
  BY <1>1, PlusIs
<1> DEFINE m == Plus(s.memCount, v, k)
<1>3. x = [s EXCEPT !.memCount = m] /\ m \in [Value -> Int]
  BY <1>2
<1> HIDE DEF m
<1>4. x \in States /\ x.ok /\ x.memCount = m /\ x.approved = s.approved
      /\ x.cache = s.cache /\ Same(s, x)
  BY <1>3 DEF States, Same
<1> QED BY <1>2, <1>4 DEF m

\* What a transaction does to the tables.
LEMMA ApplyIs ==
  ASSUME NEW x \in States, NEW t \in Transaction, NEW y, y = Apply(x, t)
  PROVE  y \in States /\ (y.ok => x.ok /\ Applied(x, t, y))
<1>1. CASE ~x.ok
  BY <1>1 DEF Apply
<1>2. CASE x.ok /\ t \in Approval
  <2> DEFINE v == t.value
             c == [x EXCEPT !.memCount = Plus(x.memCount, v, 1)]
             full == ActiveVotes(v, x.memCount[v] + 1) = Threshold
             r == [c EXCEPT !.approved = c.approved \cup ({v} \cap Registered)]
  <2>1. v \in Value /\ t.type = "approval"
    BY <1>2, Types
  <2>2. /\ c \in States /\ c.ok /\ c.memCount = Plus(x.memCount, v, 1)
        /\ c.memCount[v] = x.memCount[v] + 1
        /\ c.approved = x.approved /\ c.cache = x.cache /\ Same(x, c)
    <3> HIDE DEF v
    <3> QED BY <1>2, <2>1, CountedIs
  <2>3. y = ApplyApproval(x, v)
    BY <1>2, <2>1 DEF Apply
  <2>4. \/ ~full /\ y = c
        \/ full /\ v \in Issue /\ y = ApproveIssue(c, v)
        \/ full /\ v \notin Issue /\ y = r
    <3>1. y = IF ActiveVotes(v, c.memCount[v]) # Threshold THEN c
              ELSE IF v \in Issue THEN ApproveIssue(c, v) ELSE r
      BY <2>3 DEF ApplyApproval
    <3> HIDE DEF c, r
    <3> QED BY <2>2, <3>1
  <2>5. t \notin Exercise
    BY <1>2, <2>1, Types
  <2> HIDE DEF c
  <2>6. CASE ~full /\ y = c
    BY <1>2, <2>2, <2>5, <2>6 DEF Applied, Same
  <2>7. CASE full /\ v \in Issue /\ y = ApproveIssue(c, v)
    <3> HIDE DEF v, full
    <3>1. /\ y \in States
          /\ y.ok => /\ RowOf(v) \in rows /\ y.memCount = c.memCount
                     /\ y.approved = c.approved \cup {v}
                     /\ v \in c.approved => Same(c, y)
                     /\ v \notin c.approved => Gains(c, y, v)
                     /\ c.cache = c.balance => y.cache = y.balance
      BY <2>2, <2>7, ApproveIssueIs
    <3>2. /\ Same(c, y) => Same(x, y)
          /\ Gains(c, y, v) => Gains(x, y, v)
          /\ x.cache = x.balance => c.cache = c.balance
      BY <2>2 DEF Same, Gains
    <3>3. ASSUME y.ok
          PROVE  Applied(x, t, y)
      BY <1>2, <2>2, <2>5, <2>7, <3>1, <3>2, <3>3 DEF Applied, v, full
    <3> QED BY <1>2, <3>1, <3>3
  <2>8. CASE full /\ v \notin Issue /\ y = r
    <3>1. /\ r \in States /\ r.ok /\ r.memCount = c.memCount /\ Same(c, r)
          /\ r.approved = c.approved \cup ({v} \cap Registered) /\ r.cache = c.cache
      <4> HIDE DEF v
      <4> QED BY <2>1, <2>2 DEF States, Same
    <3> HIDE DEF r
    <3> QED BY <1>2, <2>2, <2>5, <2>8, <3>1 DEF Applied, Same
  <2> HIDE DEF full, r
  <2> QED BY <2>4, <2>6, <2>7, <2>8
<1>3. CASE x.ok /\ t \in Exercise
  <2> DEFINE a == t.asset
             n == t.amount
             d == Plus(x.cache, a, -n)
             w == [x EXCEPT !.cache = d]
  <2>1. a \in Asset /\ n \in Nat /\ -n \in Int /\ t.type = "exercise" /\ t \notin Approval
        /\ 1 * n = n
    BY <1>3, Types
  <2>2. x.cache \in [Asset -> Int]
    BY DEF States
  <2>3. d \in [Asset -> Int]
    <3> HIDE DEF a, n
    <3> QED BY <2>1, <2>2, PlusIs
  <2>4. \/ y = Failed(x)
        \/ y = Spend(w, a, n)
    BY <1>3, <2>1 DEF Apply
  <2> HIDE DEF d
  <2>5. /\ w \in States /\ w.ok /\ w.memCount = x.memCount /\ w.approved = x.approved
        /\ Same(x, w) /\ w.cache = d
    BY <1>3, <2>3 DEF States, Same
  <2>6. Failed(x) \in States /\ ~Failed(x).ok
    BY DEF Failed, States
  <2> HIDE DEF w
  <2>7. CASE y = Spend(w, a, n)
    <3>1. y = Spend(w, t.asset, 1 * t.amount)
      BY <2>1, <2>7
    <3>2. /\ y \in States
          /\ y.ok => /\ y.memCount = w.memCount /\ y.approved = w.approved
                     /\ y.cache = w.cache
                     /\ y.balance = Plus(w.balance, t.asset, -(1 * t.amount))
                     /\ Spends(w, y, t)
      BY <1>3, <2>5, <3>1, SpendIs
    <3>3. Spends(w, y, t) => Spends(x, y, t)
      BY <2>5 DEF Same, Spends
    <3>4. y.ok /\ x.cache = x.balance => y.cache = y.balance
      BY <2>1, <2>5, <3>2 DEF Same, d
    <3> QED BY <1>3, <2>1, <2>5, <3>2, <3>3, <3>4 DEF Applied
  <2> QED BY <2>4, <2>6, <2>7
<1>4. CASE x.ok /\ t \notin Approval \cup Exercise
  <2>1. t.type # "approval" /\ t.type # "exercise"
    BY <1>4, Types
  <2>2. y = x
    BY <1>4, <2>1 DEF Apply
  <2> QED BY <1>4, <2>2 DEF Applied
<1> QED BY <1>1, <1>2, <1>3, <1>4

\* t can be taken back from x: there is enough left of an issue.
Revocable(x, t) ==
  t \in Approval /\ t.value \in Issue /\ ActiveVotes(t.value, x.memCount[t.value]) = Threshold
    => RowOf(t.value) \in rows /\ x.balance[Currency[t.value]] >= Amount[t.value]

\* What taking t back from x gives: y.
Reverted(x, t, y) ==
  /\ y.ok
  /\ t \in Approval =>
       LET v == t.value
           full == ActiveVotes(v, x.memCount[v]) = Threshold
       IN  /\ y.memCount = Plus(x.memCount, v, -1)
           /\ ~full => y.approved = x.approved /\ Same(x, y)
           /\ full => y.approved = x.approved \ {v}
           /\ full /\ v \in Issue => Gains(y, x, v)
           /\ full /\ v \notin Issue => Same(x, y)
           /\ x.cache = x.balance =>
                \/ full /\ v \in Issue /\ Currency[v] \notin ChainLevel
                \/ y.cache = y.balance
  /\ t \in Exercise => /\ y.memCount = x.memCount /\ y.approved = x.approved
                       /\ Spends(y, x, t)
                       /\ x.cache = x.balance => y.cache = y.balance
  /\ t \notin Approval \cup Exercise => y = x

\* The approval of an issue is taken back, if there is enough left of it.
LEMMA RevokeIssueIs ==
  ASSUME NEW s \in States, s.ok, NEW i \in Issue, NEW x, x = RevokeIssue(s, i)
  PROVE  /\ x \in States /\ x.approved \subseteq s.approved
         /\ RowOf(i) \in rows /\ s.balance[Currency[i]] >= Amount[i] =>
              /\ x.ok /\ x.memCount = s.memCount /\ x.approved = s.approved \ {i}
              /\ Gains(x, s, i)
              /\ Currency[i] \in ChainLevel /\ s.cache = s.balance => x.cache = x.balance
<1> DEFINE a == Currency[i]
           n == Amount[i]
           q == Plus(s.quantity, a, -n)
           d == Plus(s.balance, a, -n)
           c == IF a \in ChainLevel THEN Plus(s.cache, a, -n) ELSE s.cache
           m == IF a \in ChainLevel THEN Mint(s.minted, i, -1) ELSE s.minted
           w == [s EXCEPT !.approved = s.approved \ {i}, !.quantity = q, !.cache = c]
           u == [w EXCEPT !.balance = d, !.minted = m]
<1>1. a \in Asset /\ n \in Nat /\ n \in Int /\ -n \in Int
  BY Constants
<1>2. /\ s.quantity \in [Asset -> Int] /\ s.balance \in [Asset -> Nat]
      /\ s.balance \in [Asset -> Int]
      /\ s.cache \in [Asset -> Int] /\ s.minted \in Money /\ s.approved \in SUBSET Value
  BY DEF States
<1>3. /\ q \in [Asset -> Int] /\ c \in [Asset -> Int] /\ d \in [Asset -> Int]
      /\ d[a] = s.balance[a] + (-n) /\ \A y \in Asset : y # a => d[y] = s.balance[y]
  <2> DEFINE k == -n
             sq == s.quantity
             sb == s.balance
             sc == s.cache
  <2>1. /\ k \in Int /\ sq \in [Asset -> Int] /\ sb \in [Asset -> Int]
        /\ sc \in [Asset -> Int]
    BY <1>1, <1>2
  <2> HIDE DEF a, n, k, sq, sb, sc
  <2>2. Plus(sq, a, k) \in [Asset -> Int]
    BY <1>1, <2>1, PlusIs
  <2>3. /\ Plus(sb, a, k) \in [Asset -> Int] /\ Plus(sb, a, k)[a] = sb[a] + k
        /\ \A y \in Asset : y # a => Plus(sb, a, k)[y] = sb[y]
    BY <1>1, <2>1 DEF Plus
  <2>4. Plus(sc, a, k) \in [Asset -> Int]
    BY <1>1, <2>1, PlusIs
  <2> QED BY <1>2, <2>2, <2>3, <2>4 DEF k, sq, sb, sc
<1>4. m \in Money
  BY <1>2, MintIs
<1>5. s.balance[a] >= n => d \in [Asset -> Nat]
  <2> HIDE DEF a, n, d
  <2>1. s.balance[a] >= n => \A y \in Asset : d[y] \in Nat
    BY <1>1, <1>2, <1>3
  <2> QED BY <1>3, <2>1
<1>6. x = IF RowOf(i) \notin rows THEN Failed(s)
          ELSE IF s.balance[a] < n THEN Failed(w) ELSE u
  BY DEF RevokeIssue, RowOf
<1>7. s.balance[a] >= n <=> ~(s.balance[a] < n)
  <2> HIDE DEF a, n
  <2> QED BY <1>1, <1>2
<1>8. d = Plus(s.balance, a, -n) /\ (a \in ChainLevel => c = Plus(s.cache, a, -n))
  OBVIOUS
<1>9. /\ q = Plus(s.quantity, a, -n)
      /\ m = IF a \in ChainLevel THEN Mint(s.minted, i, -1) ELSE s.minted
  OBVIOUS
<1> HIDE DEF q, d, c, m
<1>10. Failed(s) \in States /\ Failed(s).approved = s.approved
  BY DEF Failed, States
<1>11. /\ w \in States /\ w.approved = s.approved \ {i} /\ w.memCount = s.memCount /\ w.ok
       /\ w.quantity = q /\ w.cache = c
  BY <1>2, <1>3 DEF States
<1>12. Failed(w) \in States /\ Failed(w).approved = s.approved \ {i}
  <2> HIDE DEF w
  <2> QED BY <1>11 DEF Failed, States
<1>13. CASE RowOf(i) \in rows /\ s.balance[a] >= n
  <2>1. x = u
    BY <1>6, <1>7, <1>13
  <2>2. d \in [Asset -> Nat]
    BY <1>5, <1>13
  <2>3. /\ u \in States /\ u.approved = s.approved \ {i} /\ u.memCount = s.memCount /\ u.ok
        /\ u.quantity = q /\ u.cache = c /\ u.balance = d /\ u.minted = m
    <3> HIDE DEF w
    <3> QED BY <1>4, <1>11, <2>2 DEF States
  <2> HIDE DEF u
  <2>4. Changed(s, u, i, -1)
    <3>1. (-1) * n = -n
      BY <1>1
    <3> QED BY <1>8, <1>9, <2>3, <3>1 DEF Changed
  <2>5. Gains(u, s, i)
    BY <2>3, <2>4, ChangedIs
  <2>6. a \in ChainLevel /\ s.cache = s.balance => u.cache = u.balance
    BY <1>8, <2>3
  <2> QED BY <2>1, <2>3, <2>5, <2>6
<1>14. CASE ~(RowOf(i) \in rows /\ s.balance[a] >= n)
  <2>1. x = Failed(s) \/ x = Failed(w)
    BY <1>6, <1>7, <1>14
  <2>2. x \in States /\ x.approved \subseteq s.approved
    BY <1>10, <1>12, <2>1
  <2> QED BY <1>14, <2>2
<1> QED BY <1>13, <1>14

\* What the undo of a transaction does to the tables.
LEMMA UndoIs ==
  ASSUME NEW x \in States, NEW t \in Transaction, NEW y, y = Undo(x, t)
  PROVE  /\ y \in States /\ y.approved \subseteq x.approved
         /\ x.ok /\ Revocable(x, t) => Reverted(x, t, y)
<1>1. CASE ~x.ok
  BY <1>1 DEF Undo
<1>2. CASE x.ok /\ t \in Approval
  <2> DEFINE v == t.value
             c == [x EXCEPT !.memCount = Plus(x.memCount, v, -1)]
             full == ActiveVotes(v, x.memCount[v]) = Threshold
             r == [c EXCEPT !.approved = c.approved \ {v}]
  <2>1. v \in Value /\ t.type = "approval" /\ t \notin Exercise
    BY <1>2, Types
  <2>2. /\ c \in States /\ c.ok /\ c.memCount = Plus(x.memCount, v, -1)
        /\ c.memCount[v] = x.memCount[v] + (-1)
        /\ c.approved = x.approved /\ c.cache = x.cache /\ Same(x, c)
    <3> HIDE DEF v
    <3> QED BY <1>2, <2>1, CountedIs
  <2>3. y = UndoApproval(x, v)
    BY <1>2, <2>1 DEF Undo
  <2>4. c.memCount[v] + 1 = x.memCount[v]
    <3>1. x.memCount[v] \in Int
      BY <2>1 DEF States
    <3> QED BY <2>2, <3>1
  <2>5. \/ ~full /\ y = c
        \/ full /\ v \in Issue /\ y = RevokeIssue(c, v)
        \/ full /\ v \notin Issue /\ y = r
    <3>1. y = IF ActiveVotes(v, c.memCount[v] + 1) # Threshold THEN c
              ELSE IF v \in Issue THEN RevokeIssue(c, v) ELSE r
      BY <2>3 DEF UndoApproval
    <3> HIDE DEF c, r
    <3> QED BY <2>4, <3>1
  <2>6. v \in Issue => Currency[v] \in Asset
    BY Constants
  <2> HIDE DEF c
  <2>7. CASE ~full /\ y = c
    BY <1>2, <2>1, <2>2, <2>7 DEF Reverted, Same
  <2>8. CASE full /\ v \in Issue /\ y = RevokeIssue(c, v)
    <3> HIDE DEF v, full
    <3>1. /\ y \in States /\ y.approved \subseteq c.approved
          /\ RowOf(v) \in rows /\ c.balance[Currency[v]] >= Amount[v] =>
              /\ y.ok /\ y.memCount = c.memCount /\ y.approved = c.approved \ {v}
              /\ Gains(y, c, v)
              /\ Currency[v] \in ChainLevel /\ c.cache = c.balance => y.cache = y.balance
      BY <2>2, <2>8, RevokeIssueIs
    <3>2. /\ Gains(y, c, v) => Gains(y, x, v)
          /\ x.cache = x.balance => c.cache = c.balance
          /\ c.balance = x.balance
      BY <2>2 DEF Same, Gains
    <3>3. ASSUME Revocable(x, t)
          PROVE  Reverted(x, t, y)
      <4>1. RowOf(v) \in rows /\ c.balance[Currency[v]] >= Amount[v]
        BY <1>2, <2>8, <3>2, <3>3 DEF Revocable, v, full
      <4> QED BY <1>2, <2>1, <2>2, <2>8, <3>1, <3>2, <4>1 DEF Reverted, v, full
    <3> QED BY <2>2, <3>1, <3>3
  <2>9. CASE full /\ v \notin Issue /\ y = r
    <3>1. /\ r \in States /\ r.ok /\ r.memCount = c.memCount /\ Same(c, r)
          /\ r.approved = c.approved \ {v} /\ r.cache = c.cache
      <4> HIDE DEF v
      <4> QED BY <2>1, <2>2 DEF States, Same
    <3> HIDE DEF r
    <3> QED BY <1>2, <2>1, <2>2, <2>9, <3>1 DEF Reverted, Same
  <2> HIDE DEF full, r
  <2> QED BY <2>5, <2>7, <2>8, <2>9
<1>3. CASE x.ok /\ t \in Exercise
  <2> DEFINE a == t.asset
             n == t.amount
             s == Spend(x, a, -n)
             d == Plus(s.cache, a, n)
  <2>1. a \in Asset /\ n \in Nat /\ n \in Int /\ t.type = "exercise" /\ t \notin Approval
        /\ -n = (-1) * n /\ -(-n) = n
    BY <1>3, Types
  <2>2. y = [s EXCEPT !.cache = d]
    BY <1>3, <2>1 DEF Undo
  <2>3. s = Spend(x, t.asset, (-1) * t.amount)
    BY <2>1
  <2> HIDE DEF s
  <2>4. /\ s \in States /\ s.ok /\ s.memCount = x.memCount /\ s.approved = x.approved
        /\ s.cache = x.cache /\ s.balance = Plus(x.balance, t.asset, -((-1) * t.amount))
        /\ Spends(s, x, t)
    BY <1>3, <2>3, SpendIs
  <2>5. d \in [Asset -> Int]
    <3>1. s.cache \in [Asset -> Int]
      BY <2>4 DEF States
    <3> HIDE DEF a, n
    <3> QED BY <2>1, <3>1, PlusIs
  <2>6. x.cache = x.balance => d = s.balance
    BY <2>1, <2>4
  <2> HIDE DEF d
  <2>7. /\ y \in States /\ y.ok /\ y.memCount = s.memCount /\ y.approved = s.approved
        /\ Same(s, y) /\ y.cache = d
    BY <2>2, <2>4, <2>5 DEF States, Same
  <2>8. Spends(y, x, t)
    BY <2>4, <2>7 DEF Spends, Same
  <2> QED BY <1>3, <2>1, <2>4, <2>6, <2>7, <2>8 DEF Reverted, Same
<1>4. CASE x.ok /\ t \notin Approval \cup Exercise
  <2>1. t.type # "approval" /\ t.type # "exercise"
    BY <1>4, Types
  <2>2. y = x
    BY <1>4, <2>1 DEF Undo
  <2> QED BY <1>4, <2>2 DEF Reverted
<1> QED BY <1>1, <1>2, <1>3, <1>4

-----------------------------------------------------------------------------
(* What there should be *)

IssuesOf(D, S) == {i \in Issue : i \in D /\ Currency[i] \in S}
WorthOf(X) == [t \in X |-> t.amount]
Taken(X, a) == Total(WorthOf(X), {t \in X : t.asset = a})

\* What there is of a if the issues in D are approved and X was exercised.
Qty(D, X, a) == Total(Amount, IssuesOf(D, {a})) - Taken(X, a)

\* The tables are those of D and X.
Books(s, D, X) ==
  /\ \A a \in Asset : s.quantity[a] = Qty(D, X, a) /\ s.balance[a] = Qty(D, X, a)
  /\ s.minted.issuer = Total(Acc, IssuesOf(D, ChainLevel))
  /\ s.minted.pool = Total(LockedOf, IssuesOf(D, ChainLevel))
  /\ s.minted.total = s.minted.issuer + s.minted.pool

\* f is added for one issue more if its asset is in S.
OneMore(f, D, i, S) ==
  /\ Total(f, IssuesOf(D, S)) \in Nat
  /\ Total(f, IssuesOf(D \cup {i}, S))
       = Total(f, IssuesOf(D, S)) + (IF Currency[i] \in S THEN f[i] ELSE 0)

\* One more issue counts if its asset does.
LEMMA IssuesMore ==
  ASSUME NEW f \in [Issue -> Nat], NEW D, NEW i \in Issue, i \notin D, NEW S
  PROVE  OneMore(f, D, i, S)
<1> DEFINE V == IssuesOf(D, S)
           W == IssuesOf(D \cup {i}, S)
<1>1. IsFiniteSet(Issue) /\ f \in [Issue -> Int]
  BY Constants
<1>2. V \in SUBSET Issue /\ i \in Issue \ V
  BY DEF IssuesOf
<1>3. W = IF Currency[i] \in S THEN V \cup {i} ELSE V
  BY DEF IssuesOf
<1> HIDE DEF V, W
<1>4. Total(f, V) \in Nat /\ Total(f, V \cup {i}) = Total(f, V) + f[i]
  BY <1>1, <1>2, TotalMore, TotalNat
<1>5. Total(f, W) = Total(f, V) + (IF Currency[i] \in S THEN f[i] ELSE 0)
  BY <1>3, <1>4
<1> QED BY <1>4, <1>5 DEF V, W, OneMore

\* So does one more exercise.
LEMMA TakenMore ==
  ASSUME NEW X \in SUBSET Exercise, IsFiniteSet(X), NEW e \in Exercise, e \notin X, NEW a
  PROVE  /\ Taken(X, a) \in Int
         /\ Taken(X \cup {e}, a) = Taken(X, a) + (IF e.asset = a THEN e.amount ELSE 0)
<1> DEFINE Y == X \cup {e}
           f == WorthOf(X)
           h == WorthOf(Y)
           V == {t \in X : t.asset = a}
           W == {t \in Y : t.asset = a}
<1>1. \A t \in Exercise : t.amount \in Int
  BY DEF Exercise
<1>2. IsFiniteSet(Y) /\ X \subseteq Y /\ Y \subseteq Exercise /\ e \in Y
  BY FS_AddElement
<1>3. f \in [X -> Int] /\ h \in [Y -> Int] /\ h[e] = e.amount /\ \A t \in X : h[t] = f[t]
  <2> HIDE DEF Y
  <2> QED BY <1>1, <1>2 DEF WorthOf
<1>4. V \in SUBSET X /\ V \in SUBSET Y /\ e \in Y \ V /\ W = IF e.asset = a THEN V \cup {e} ELSE V
  BY <1>2
<1>5. Taken(X, a) = Total(f, V) /\ Taken(Y, a) = Total(h, W)
  BY DEF Taken
<1> HIDE DEF Y, f, h, V, W
<1>6. Total(f, V) \in Int
  BY <1>3, <1>4, TotalMore
<1>7. Total(f, V) = Total(h, V)
  BY <1>2, <1>3, <1>4, TotalAgrees
<1>8. Total(h, V \cup {e}) = Total(h, V) + h[e]
  BY <1>2, <1>3, <1>4, TotalMore
<1>9. Taken(Y, a) = Taken(X, a) + (IF e.asset = a THEN e.amount ELSE 0)
  BY <1>3, <1>4, <1>5, <1>6, <1>7, <1>8
<1> QED BY <1>5, <1>6, <1>9 DEF Y

\* The exercises of any asset are a number.
LEMMA TakenType ==
  ASSUME NEW X \in SUBSET Exercise, IsFiniteSet(X), NEW a
  PROVE  Taken(X, a) \in Int
<1> DEFINE f == WorthOf(X)
           V == {t \in X : t.asset = a}
<1>1. \A t \in X : t.amount \in Int
  BY DEF Exercise
<1>2. f \in [X -> Int] /\ V \in SUBSET X
  BY <1>1 DEF WorthOf
<1>3. Taken(X, a) = Total(f, V)
  BY DEF Taken
<1> HIDE DEF f, V
<1> QED BY <1>2, <1>3, TotalMore

\* What there is changes with D and X by what is added to them.
QtyAdds(D, X) ==
  /\ \A a \in Asset : Qty(D, X, a) \in Int
  /\ \A i \in Issue \ D : \A a \in Asset :
       Qty(D \cup {i}, X, a) = Qty(D, X, a) + (IF a = Currency[i] THEN Amount[i] ELSE 0)
  /\ \A e \in Exercise \ X : \A a \in Asset :
       Qty(D, X \cup {e}, a) = Qty(D, X, a) - (IF a = e.asset THEN e.amount ELSE 0)

\* What there is, with one more issue, and with one more exercise.
LEMMA QtyIs ==
  ASSUME NEW X \in SUBSET Exercise, IsFiniteSet(X), NEW D
  PROVE  QtyAdds(D, X)
<1>1. ASSUME NEW a \in Asset
      PROVE  /\ Total(Amount, IssuesOf(D, {a})) \in Int /\ Taken(X, a) \in Int
             /\ Qty(D, X, a) \in Int
  <2> DEFINE V == IssuesOf(D, {a})
  <2>1. V \in SUBSET Issue /\ IsFiniteSet(Issue) /\ Amount \in [Issue -> Int]
    BY Constants DEF IssuesOf
  <2> HIDE DEF V
  <2>2. Total(Amount, V) \in Int
    BY <2>1, TotalMore
  <2>3. Taken(X, a) \in Int
    BY TakenType
  <2> QED BY <2>2, <2>3 DEF Qty, V
<1>2. ASSUME NEW i \in Issue \ D, NEW a \in Asset
      PROVE  Qty(D \cup {i}, X, a) = Qty(D, X, a) + (IF a = Currency[i] THEN Amount[i] ELSE 0)
  <2> DEFINE p == Total(Amount, IssuesOf(D, {a}))
             q == Total(Amount, IssuesOf(D \cup {i}, {a}))
             r == Taken(X, a)
             n == Amount[i]
  <2>1. q = p + (IF Currency[i] \in {a} THEN n ELSE 0)
    <3>1. Amount \in [Issue -> Nat] /\ i \in Issue /\ i \notin D
      BY Constants
    <3> DEFINE S == {a}
    <3> HIDE DEF S
    <3>2. OneMore(Amount, D, i, S)
      BY <3>1, IssuesMore
    <3> QED BY <3>2 DEF S, OneMore
  <2>2. p \in Int /\ r \in Int /\ n \in Int
    BY <1>1, Constants
  <2> HIDE DEF p, q, r, n
  <2>3. q - r = (p - r) + (IF a = Currency[i] THEN n ELSE 0)
    BY <2>1, <2>2
  <2> QED BY <2>3 DEF Qty, p, q, r, n
<1>3. ASSUME NEW e \in Exercise \ X, NEW a \in Asset
      PROVE  Qty(D, X \cup {e}, a) = Qty(D, X, a) - (IF a = e.asset THEN e.amount ELSE 0)
  <2> DEFINE p == Total(Amount, IssuesOf(D, {a}))
             q == Taken(X \cup {e}, a)
             r == Taken(X, a)
             n == e.amount
  <2>1. q = r + (IF e.asset = a THEN n ELSE 0)
    BY TakenMore
  <2>2. p \in Int /\ r \in Int /\ n \in Int
    BY <1>1 DEF Exercise
  <2> HIDE DEF p, q, r, n
  <2>3. p - q = (p - r) - (IF a = e.asset THEN n ELSE 0)
    BY <2>1, <2>2
  <2> QED BY <2>3 DEF Qty, p, q, r, n
<1> QED BY <1>1, <1>2, <1>3 DEF QtyAdds

\* The books with an issue more are those of the tables that have gained it.
LEMMA BooksGain ==
  ASSUME NEW s \in States, NEW u \in States, NEW i \in Issue, Gains(s, u, i),
         NEW X \in SUBSET Exercise, IsFiniteSet(X), NEW D, i \notin D
  PROVE  Books(s, D, X) <=> Books(u, D \cup {i}, X)
<1> DEFINE E == D \cup {i}
<1>1. ASSUME NEW a \in Asset
      PROVE  /\ s.quantity[a] = Qty(D, X, a) <=> u.quantity[a] = Qty(E, X, a)
             /\ s.balance[a] = Qty(D, X, a) <=> u.balance[a] = Qty(E, X, a)
  <2> DEFINE n == IF a = Currency[i] THEN Amount[i] ELSE 0
             q == s.quantity[a]
             b == s.balance[a]
             w == Qty(D, X, a)
  <2>1. w \in Int /\ Qty(E, X, a) = w + n
    <3>1. QtyAdds(D, X)
      BY QtyIs
    <3> QED BY <3>1 DEF QtyAdds
  <2>2. n \in Int /\ q \in Int /\ b \in Int
    BY Constants DEF States
  <2>3. u.quantity[a] = q + n /\ u.balance[a] = b + n
    BY DEF Gains
  <2> HIDE DEF n, q, b, w, E
  <2>4. (q = w <=> q + n = w + n) /\ (b = w <=> b + n = w + n)
    BY <2>1, <2>2
  <2> QED BY <2>1, <2>3, <2>4 DEF q, b, w
<1>2. /\ s.minted.issuer = Total(Acc, IssuesOf(D, ChainLevel))
           <=> u.minted.issuer = Total(Acc, IssuesOf(E, ChainLevel))
      /\ s.minted.pool = Total(LockedOf, IssuesOf(D, ChainLevel))
           <=> u.minted.pool = Total(LockedOf, IssuesOf(E, ChainLevel))
      /\ s.minted.total = s.minted.issuer + s.minted.pool
           <=> u.minted.total = u.minted.issuer + u.minted.pool
  <2> DEFINE x == IF Currency[i] \in ChainLevel THEN Acc[i] ELSE 0
             y == IF Currency[i] \in ChainLevel THEN LockedOf[i] ELSE 0
             si == s.minted.issuer
             sp == s.minted.pool
             st == s.minted.total
             ta == Total(Acc, IssuesOf(D, ChainLevel))
             tl == Total(LockedOf, IssuesOf(D, ChainLevel))
  <2>1. ta \in Nat /\ Total(Acc, IssuesOf(E, ChainLevel)) = ta + x
    <3>1. Acc \in [Issue -> Nat]
      BY Constants
    <3>2. OneMore(Acc, D, i, ChainLevel)
      BY <3>1, IssuesMore
    <3> QED BY <3>2 DEF OneMore
  <2>2. tl \in Nat /\ Total(LockedOf, IssuesOf(E, ChainLevel)) = tl + y
    <3>1. LockedOf \in [Issue -> Nat]
      BY Constants
    <3>2. OneMore(LockedOf, D, i, ChainLevel)
      BY <3>1, IssuesMore
    <3> QED BY <3>2 DEF OneMore
  <2>3. x \in Int /\ y \in Int /\ si \in Int /\ sp \in Int /\ st \in Int
    BY Constants DEF States, Money
  <2>4. u.minted.issuer = si + x /\ u.minted.pool = sp + y /\ u.minted.total = st + (x + y)
    BY DEF Gains
  <2> HIDE DEF x, y, si, sp, st, ta, tl, E
  <2>5. /\ si = ta <=> si + x = ta + x
        /\ sp = tl <=> sp + y = tl + y
        /\ st = si + sp <=> st + (x + y) = (si + x) + (sp + y)
    BY <2>1, <2>2, <2>3
  <2> QED BY <2>1, <2>2, <2>4, <2>5 DEF si, sp, st, ta, tl
<1> HIDE DEF E
<1> QED BY <1>1, <1>2 DEF Books, E

\* The books with an exercise more are those of the tables that have spent it.
LEMMA BooksSpend ==
  ASSUME NEW s \in States, NEW u \in States, NEW e \in Exercise, Spends(s, u, e),
         NEW X \in SUBSET Exercise, IsFiniteSet(X), NEW D, e \notin X
  PROVE  Books(s, D, X) <=> Books(u, D, X \cup {e})
<1> DEFINE Y == X \cup {e}
<1>1. ASSUME NEW a \in Asset
      PROVE  /\ s.quantity[a] = Qty(D, X, a) <=> u.quantity[a] = Qty(D, Y, a)
             /\ s.balance[a] = Qty(D, X, a) <=> u.balance[a] = Qty(D, Y, a)
  <2> DEFINE n == IF a = e.asset THEN e.amount ELSE 0
             q == s.quantity[a]
             b == s.balance[a]
             w == Qty(D, X, a)
  <2>1. w \in Int /\ Qty(D, Y, a) = w - n
    <3>1. QtyAdds(D, X)
      BY QtyIs
    <3> QED BY <3>1 DEF QtyAdds
  <2>2. n \in Int /\ q \in Int /\ b \in Int
    BY DEF States, Exercise
  <2>3. u.quantity[a] = q - n /\ u.balance[a] = b - n
    BY DEF Spends
  <2> HIDE DEF n, q, b, w, Y
  <2>4. (q = w <=> q - n = w - n) /\ (b = w <=> b - n = w - n)
    BY <2>1, <2>2
  <2> QED BY <2>1, <2>3, <2>4 DEF q, b, w
<1>2. u.minted = s.minted
  BY DEF Spends
<1> HIDE DEF Y
<1> QED BY <1>1, <1>2 DEF Books, Y

\* Only the issues count.
LEMMA BooksSame ==
  ASSUME NEW s, NEW u, Same(s, u), NEW X, NEW D, NEW E, D \cap Issue = E \cap Issue
  PROVE  Books(s, D, X) <=> Books(u, E, X)
<1>1. \A S : IssuesOf(D, S) = IssuesOf(E, S)
  BY DEF IssuesOf
<1> QED BY <1>1 DEF Books, Qty, Same

-----------------------------------------------------------------------------
(* Votes *)

\* The approvals of v in S that count if A is active.
Votes(A, S, v) == {t \in Approvals(S, v) : t.by \in A}

\* How many there are with the block b after R, up to its place p.
At(A, R, b, v, p) == Cardinality(Votes(A, R \cup First(b, p), v))

\* The approval at p makes the votes for v complete.
Passes(A, R, b, v, p) ==
  /\ b[p] \in Approval /\ b[p].value = v
  /\ v \in Issue \cup RegisteredIn(R) /\ At(A, R, b, v, p) = Threshold
Gained(A, R, b, p) == {v \in Value : \E q \in 1 .. p : Passes(A, R, b, v, q)}

\* What was exercised.
Spent(R, b, p) == (R \cup First(b, p)) \cap Exercise

\* A block of active delegates can be put after R.
PlacedIn(A, R, b) ==
  /\ b \in Seq(Transaction) /\ IsInjective(b)
  /\ R \in SUBSET Transaction /\ IsFiniteSet(R)
  /\ \A t \in ToSet(b) : t \notin R /\ (t \in Approval => t.by \in A)

\* More transactions have no fewer votes, and more if there is one among them.
LEMMA VotesMore ==
  ASSUME NEW W, IsFiniteSet(W), NEW S \in SUBSET W, NEW A, NEW v
  PROVE  /\ Cardinality(Votes(A, S, v)) \in Nat /\ Cardinality(Votes(A, W, v)) \in Nat
         /\ Cardinality(Votes(A, S, v)) <= Cardinality(Votes(A, W, v))
         /\ \A t \in Votes(A, W, v) :
              t \notin S => Cardinality(Votes(A, S, v)) < Cardinality(Votes(A, W, v))
<1> DEFINE P == Votes(A, S, v)
           Q == Votes(A, W, v)
<1>1. P \in SUBSET S /\ P \in SUBSET Q /\ Q \in SUBSET W
  BY DEF Votes, Approvals
<1> HIDE DEF P, Q
<1>2. IsFiniteSet(Q) /\ IsFiniteSet(P)
  BY <1>1, FS_Subset
<1>3. Cardinality(P) \in Nat /\ Cardinality(Q) \in Nat
  BY <1>2, FS_CardinalityType
<1>4. Cardinality(P) <= Cardinality(Q) /\ (Cardinality(P) = Cardinality(Q) => P = Q)
  BY <1>1, <1>2, FS_Subset
<1>5. ASSUME NEW t \in Q, t \notin S
      PROVE  Cardinality(P) < Cardinality(Q)
  <2>1. P # Q
    BY <1>1, <1>5
  <2> QED BY <1>3, <1>4, <2>1
<1> QED BY <1>3, <1>4, <1>5 DEF P, Q

\* b[p] is what the place p adds to what there is before it.
IsPlace(A, R, b, p) ==
  /\ b[p] \in Transaction /\ b[p] \in ToSet(b) /\ p - 1 \in 0 .. Len(b)
  /\ R \cup First(b, p) = (R \cup First(b, p - 1)) \cup {b[p]}
  /\ b[p] \notin R \cup First(b, p - 1)
  /\ IsFiniteSet(R \cup First(b, p - 1)) /\ IsFiniteSet(R \cup First(b, p))
  /\ R \cup First(b, p - 1) \subseteq Transaction
  /\ \A v : At(A, R, b, v, p - 1) \in Nat /\ At(A, R, b, v, p) \in Nat

\* What there is up to one place more of the block.
LEMMA PlaceIs ==
  ASSUME NEW A, NEW R, NEW b, PlacedIn(A, R, b), NEW p \in 1 .. Len(b)
  PROVE  IsPlace(A, R, b, p)
<1>1. b \in Seq(Transaction) /\ IsInjective(b) /\ IsFiniteSet(R) /\ R \in SUBSET Transaction
  BY DEF PlacedIn
<1>2. /\ b[p] \in Transaction /\ First(b, p) = First(b, p - 1) \cup {b[p]}
      /\ b[p] \notin First(b, p - 1) /\ First(b, p - 1) \in SUBSET Transaction
  BY <1>1, FirstIs
<1>3. b[p] \in ToSet(b)
  BY <1>1 DEF ToSet
<1>4. b[p] \notin R
  BY <1>3 DEF PlacedIn
<1>5. p - 1 \in 0 .. Len(b)
  BY <1>1
<1>6. IsFiniteSet(First(b, p - 1))
  <2> DEFINE k == p - 1
  <2>1. k \in 0 .. Len(b)
    BY <1>5
  <2> HIDE DEF k
  <2>2. IsFiniteSet(First(b, k))
    BY <1>1, <2>1, FirstFinite
  <2> QED BY <2>2 DEF k
<1> DEFINE S == R \cup First(b, p - 1)
           W == R \cup First(b, p)
<1>7. W = S \cup {b[p]}
  BY <1>2
<1>8. IsFiniteSet(S)
  BY <1>1, <1>6, FS_Union
<1>9. IsFiniteSet(W)
  <2> HIDE DEF S, W
  <2> QED BY <1>7, <1>8, FS_AddElement
<1>10. \A v : At(A, R, b, v, p - 1) = Cardinality(Votes(A, S, v))
              /\ At(A, R, b, v, p) = Cardinality(Votes(A, W, v))
  BY DEF At
<1>11. S \subseteq Transaction /\ b[p] \notin S
  BY <1>1, <1>2, <1>4
<1> HIDE DEF S, W
<1>12. \A v : At(A, R, b, v, p - 1) \in Nat /\ At(A, R, b, v, p) \in Nat
  BY <1>7, <1>8, <1>9, <1>10, VotesMore
<1> QED BY <1>2, <1>3, <1>5, <1>7, <1>8, <1>9, <1>11, <1>12 DEF S, W, IsPlace

\* An approval is a vote more for its value.
LEMMA AtMore ==
  ASSUME NEW A, NEW R, NEW b, PlacedIn(A, R, b), NEW p \in 1 .. Len(b), NEW v
  PROVE  At(A, R, b, v, p)
           = At(A, R, b, v, p - 1)
               + (IF b[p] \in Approval /\ b[p].value = v THEN 1 ELSE 0)
<1> DEFINE S == R \cup First(b, p - 1)
           W == R \cup First(b, p)
           t == b[p]
           P == Votes(A, S, v)
           Q == Votes(A, W, v)
<1>1. /\ t \in Transaction /\ t \in ToSet(b) /\ W = S \cup {t} /\ t \notin S
      /\ IsFiniteSet(S) /\ IsFiniteSet(W) /\ S \subseteq Transaction
  <2>1. IsPlace(A, R, b, p)
    BY PlaceIs
  <2> QED BY <2>1 DEF IsPlace
<1>2. At(A, R, b, v, p - 1) = Cardinality(P) /\ At(A, R, b, v, p) = Cardinality(Q)
  BY DEF At
<1>3. t \in Approval => t.by \in A
  BY <1>1 DEF PlacedIn
<1> HIDE DEF S, W, t
<1>4. t.type = "approval" <=> t \in Approval
  BY <1>1, Types
<1>5. Q = IF t \in Approval /\ t.value = v THEN P \cup {t} ELSE P
  BY <1>1, <1>3, <1>4 DEF Votes, Approvals
<1>6. t \notin P /\ P \in SUBSET S
  BY <1>1 DEF Votes, Approvals
<1> HIDE DEF P, Q
<1>7. IsFiniteSet(P)
  BY <1>1, <1>6, FS_Subset
<1>8. Cardinality(P) \in Nat /\ Cardinality(P \cup {t}) = Cardinality(P) + 1
  BY <1>6, <1>7, FS_CardinalityType, FS_AddElement
<1>9. Cardinality(Q) = Cardinality(P) + (IF t \in Approval /\ t.value = v THEN 1 ELSE 0)
  BY <1>5, <1>8
<1> QED BY <1>2, <1>9 DEF t

\* The votes for v before the block, and with all of it.
Ends(A, R, b, v) ==
  /\ At(A, R, b, v, 0) = Cardinality(Votes(A, R, v))
  /\ At(A, R, b, v, Len(b)) = Cardinality(Votes(A, R \cup ToSet(b), v))
  /\ At(A, R, b, v, 0) \in Nat /\ At(A, R, b, v, Len(b)) \in Nat

\* The votes are those of the places 0 and Len(b).
LEMMA AtEnds ==
  ASSUME NEW A, NEW R, NEW b, PlacedIn(A, R, b), NEW v
  PROVE  Ends(A, R, b, v)
<1>1. b \in Seq(Transaction) /\ IsFiniteSet(R)
  BY DEF PlacedIn
<1>2. First(b, 0) = {} /\ First(b, Len(b)) = ToSet(b)
  BY <1>1, FirstIs
<1>3. R \cup {} = R
  OBVIOUS
<1> DEFINE W == R \cup ToSet(b)
<1>4. IsFiniteSet(W)
  <2>1. 0 \in 0 .. Len(b)
    BY <1>1
  <2>2. IsFiniteSet(ToSet(b))
    BY <1>1, <2>1, FirstFinite
  <2> QED BY <1>1, <2>2, FS_Union
<1>5. At(A, R, b, v, 0) = Cardinality(Votes(A, R, v))
  BY <1>2, <1>3 DEF At
<1>6. At(A, R, b, v, Len(b)) = Cardinality(Votes(A, W, v))
  BY <1>2 DEF At
<1>7. R \in SUBSET W
  OBVIOUS
<1> HIDE DEF W
<1>8. Cardinality(Votes(A, R, v)) \in Nat /\ Cardinality(Votes(A, W, v)) \in Nat
  BY <1>4, <1>7, VotesMore
<1> QED BY <1>5, <1>6, <1>8 DEF W, Ends

\* The votes for a value are complete at one place of a block at most.
LEMMA GainedMore ==
  ASSUME NEW A, NEW R, NEW b, PlacedIn(A, R, b), NEW p \in 1 .. Len(b)
  PROVE  /\ Gained(A, R, b, p)
              = Gained(A, R, b, p - 1) \cup {v \in Value : Passes(A, R, b, v, p)}
         /\ \A v : b[p] \in Approval /\ b[p].value = v /\ At(A, R, b, v, p) = Threshold
                     => v \notin Gained(A, R, b, p - 1)
<1>1. b \in Seq(Transaction) /\ Len(b) \in Nat
  BY DEF PlacedIn
<1>2. 1 .. p = (1 .. p - 1) \cup {p}
  BY <1>1
<1>3. Gained(A, R, b, p) = Gained(A, R, b, p - 1) \cup {v \in Value : Passes(A, R, b, v, p)}
  BY <1>2 DEF Gained
<1>4. ASSUME NEW v, b[p] \in Approval, b[p].value = v, At(A, R, b, v, p) = Threshold,
             NEW q \in 1 .. p - 1, At(A, R, b, v, q) = Threshold
      PROVE  FALSE
  <2> DEFINE S == R \cup First(b, q)
             W == R \cup First(b, p - 1)
  <2>1. At(A, R, b, v, p) = At(A, R, b, v, p - 1) + 1
    BY <1>4, AtMore
  <2>2. At(A, R, b, v, p - 1) \in Nat /\ IsFiniteSet(W)
    BY PlaceIs DEF IsPlace
  <2>3. S \in SUBSET W
    <3>1. 1 .. q \subseteq 1 .. p - 1
      BY <1>1
    <3> QED BY <3>1 DEF First
  <2>4. At(A, R, b, v, q) = Cardinality(Votes(A, S, v))
        /\ At(A, R, b, v, p - 1) = Cardinality(Votes(A, W, v))
    BY DEF At
  <2> HIDE DEF S, W
  <2>5. At(A, R, b, v, q) <= At(A, R, b, v, p - 1) /\ At(A, R, b, v, q) \in Nat
    BY <2>2, <2>3, <2>4, VotesMore
  <2> QED BY <1>4, <2>1, <2>2, <2>5
<1>5. \A v : b[p] \in Approval /\ b[p].value = v /\ At(A, R, b, v, p) = Threshold
               => v \notin Gained(A, R, b, p - 1)
  BY <1>4 DEF Gained, Passes
<1> QED BY <1>3, <1>5

\* What was exercised up to one place more.
LEMMA SpentMore ==
  ASSUME NEW A, NEW R, NEW b, PlacedIn(A, R, b), NEW p \in 1 .. Len(b)
  PROVE  /\ Spent(R, b, p - 1) \in SUBSET Exercise /\ IsFiniteSet(Spent(R, b, p - 1))
         /\ Spent(R, b, p) \in SUBSET Exercise /\ IsFiniteSet(Spent(R, b, p))
         /\ b[p] \notin Spent(R, b, p - 1)
         /\ Spent(R, b, p) = IF b[p] \in Exercise THEN Spent(R, b, p - 1) \cup {b[p]}
                             ELSE Spent(R, b, p - 1)
<1> DEFINE S == R \cup First(b, p - 1)
           W == R \cup First(b, p)
           t == b[p]
<1>1. W = S \cup {t} /\ t \notin S /\ IsFiniteSet(S) /\ IsFiniteSet(W)
  <2>1. IsPlace(A, R, b, p)
    BY PlaceIs
  <2> QED BY <2>1 DEF IsPlace
<1>2. Spent(R, b, p - 1) = S \cap Exercise /\ Spent(R, b, p) = W \cap Exercise
  BY DEF Spent
<1> HIDE DEF S, W, t
<1>3. IsFiniteSet(S \cap Exercise) /\ IsFiniteSet(W \cap Exercise)
  BY <1>1, FS_Intersection
<1>4. W \cap Exercise = IF t \in Exercise THEN (S \cap Exercise) \cup {t} ELSE S \cap Exercise
  BY <1>1
<1> QED BY <1>1, <1>2, <1>3, <1>4 DEF t

-----------------------------------------------------------------------------
(* A block is applied *)

\* The transactions of a block are applied one by one.
LEMMA ApplyFold ==
  ASSUME NEW s \in States, NEW l \in Seq(Transaction), NEW J, s \in J[0],
         \A i \in 1 .. Len(l) : \A x \in States : x \in J[i - 1] => Apply(x, l[i]) \in J[i]
  PROVE  FoldLeft(Apply, s, l) \in States /\ FoldLeft(Apply, s, l) \in J[Len(l)]
<1> DEFINE One(x, t) == Apply(x, t)
           G == [p \in States \X Transaction |-> One(p[1], p[2])]
           Body(it) == [P \in SUBSET (DOMAIN l) |->
                         IF P = {} THEN s ELSE One(it[P \ {Max(P)}], l[Max(P)])]
           it == CHOOSE it : it = Body(it)
<1>1. \A x \in States, t \in Transaction : One(x, t) \in States
  BY ApplyIs
<1>2. FoldLeft(Apply, s, l) = it[DOMAIN l]
  BY DEF FoldLeft, MapThenFoldSet
<1>3. \A i \in 1 .. Len(l) : \A x \in States : x \in J[i - 1] => One(x, l[i]) \in J[i]
  OBVIOUS
<1> HIDE DEF One
<1>4. /\ G \in [States \X Transaction -> States]
      /\ \A x \in States, t \in Transaction : G[<<x, t>>] = One(x, t)
  BY <1>1
<1> HIDE DEF G
<1>5. PICK jt : IsFold(jt, s, G, l, States, Transaction)
  BY <1>4, FoldExists
<1>6. jt = Body(jt)
  BY <1>4, <1>5 DEF IsFold
<1>7. it = Body(it)
  BY <1>6
<1> HIDE DEF it
<1>8. Follows(it, s, G, l, States)
  <2>1. ASSUME NEW P \in SUBSET (DOMAIN l), P # {}, it[P \ {Max(P)}] \in States
        PROVE  it[P] = G[<<it[P \ {Max(P)}], l[Max(P)]>>]
    <3>1. l[Max(P)] \in Transaction
      BY <1>5, <2>1 DEF IsFold
    <3>2. it[P] = One(it[P \ {Max(P)}], l[Max(P)])
      BY <1>7, <2>1
    <3> QED BY <1>4, <2>1, <3>1, <3>2
  <2>2. it[{}] = s
    BY <1>7
  <2> QED BY <2>1, <2>2 DEF Follows
<1>9. Keeps(G, l, States, J)
  BY <1>3, <1>4 DEF Keeps
<1>10. it[DOMAIN l] \in States /\ it[DOMAIN l] \in J[Len(l)]
  BY <1>4, <1>8, <1>9, FoldWithin
<1> QED BY <1>2, <1>10

\* There is no less than nothing of any asset, up to place p of the block.
SolventTo(A, R, D, b, p) ==
  \A q \in 0 .. p : \A a \in Asset : Qty(D \cup Gained(A, R, b, q), Spent(R, b, q), a) >= 0

\* The block is applied up to its place p.
AppliedTo(b, p, x) ==
  LET D == approved \cup Gained(active, rows, b, p)
  IN  /\ x.approved = D
      /\ \A v \in Value : x.memCount[v] + At(active, rows, b, v, 0) = At(active, rows, b, v, p)
      /\ \A i \in Issue : i \in Gained(active, rows, b, p) => RowOf(i) \in rows
      /\ Books(State, approved, rows \cap Exercise) =>
           Books(x, D, Spent(rows, b, p)) /\ SolventTo(active, rows, approved, b, p)
      /\ cache = balance => x.cache = x.balance

\* One more transaction is applied.
LEMMA ApplyStep ==
  ASSUME NEW b, PlacedIn(active, rows, b), NEW p \in 1 .. Len(b),
         NEW x \in States, NEW y \in States, AppliedTo(b, p - 1, x), Applied(x, b[p], y)
  PROVE  AppliedTo(b, p, y)
<1> DEFINE t == b[p]
           v == t.value
           g == Gained(active, rows, b, p - 1)
           h == Gained(active, rows, b, p)
           D == approved \cup g
           E == approved \cup h
           X == Spent(rows, b, p - 1)
           Y == Spent(rows, b, p)
           N(w, q) == At(active, rows, b, w, q)
           H == Books(State, approved, rows \cap Exercise)
           sum == \A w \in Value : y.memCount[w] + N(w, 0) = N(w, p)
           gain == \A i \in Issue : i \in h => RowOf(i) \in rows
           kept == Books(x, D, X) => Books(y, E, Y)
<1>1. /\ x.approved = D
      /\ \A w \in Value : x.memCount[w] + N(w, 0) = N(w, p - 1)
      /\ \A i \in Issue : i \in g => RowOf(i) \in rows
      /\ H => Books(x, D, X) /\ SolventTo(active, rows, approved, b, p - 1)
      /\ cache = balance => x.cache = x.balance
  BY DEF AppliedTo
<1>2. /\ t \in Transaction
      /\ \A w : N(w, p - 1) \in Nat /\ N(w, p) \in Nat
  BY PlaceIs DEF IsPlace
<1>3. \A w : N(w, p) = N(w, p - 1) + (IF t \in Approval /\ t.value = w THEN 1 ELSE 0)
  BY AtMore
<1>4. \A w : N(w, 0) = Cardinality(Votes(active, rows, w)) /\ N(w, 0) \in Nat
  <2>1. ASSUME NEW w
        PROVE  Ends(active, rows, b, w)
    BY AtEnds
  <2> QED BY <2>1 DEF Ends
<1>5. /\ h = g \cup {w \in Value : Passes(active, rows, b, w, p)}
      /\ \A w : t \in Approval /\ t.value = w /\ N(w, p) = Threshold => w \notin g
  BY GainedMore
<1>6. /\ X \in SUBSET Exercise /\ IsFiniteSet(X) /\ t \notin X
      /\ Y = IF t \in Exercise THEN X \cup {t} ELSE X
  BY SpentMore
<1>7. /\ x.memCount \in [Value -> Int] /\ y.memCount \in [Value -> Int]
      /\ y.balance \in [Asset -> Nat]
  BY DEF States
<1>8. Applied(x, t, y)
  OBVIOUS
<1>9. \A w : Passes(active, rows, b, w, p) <=>
              t \in Approval /\ v = w /\ w \in Issue \cup Registered /\ N(w, p) = Threshold
  BY DEF Passes, Registered
<1>10. Asset \cap Issue = {} /\ (t \in Approval => v \in Value /\ t \notin Exercise)
       /\ (t \in Exercise => t \notin Approval)
  BY <1>2, Constants, Types
<1>11. h \subseteq Value /\ g \subseteq Value
  BY DEF Gained
<1> HIDE DEF N, t, v, g, h, X, Y, H
<1>12. ASSUME t \in Approval
       PROVE  /\ sum /\ gain /\ y.approved = E /\ kept
              /\ x.cache = x.balance => y.cache = y.balance
  <2>1. ActiveVotes(v, x.memCount[v] + 1) = N(v, p)
    <3>1. ActiveVotes(v, x.memCount[v] + 1) = x.memCount[v] + 1 + N(v, 0)
      BY <1>4 DEF ActiveVotes, Votes
    <3>2. v \in Value /\ x.memCount[v] \in Int /\ N(v, 0) \in Nat /\ N(v, p - 1) \in Nat
      BY <1>2, <1>4, <1>7, <1>10, <1>12
    <3>3. x.memCount[v] + N(v, 0) = N(v, p - 1) /\ N(v, p) = N(v, p - 1) + 1
      BY <1>1, <1>3, <1>12, <3>2 DEF v
    <3> QED BY <3>1, <3>2, <3>3
  <2> DEFINE full == N(v, p) = Threshold
  <2>2. /\ y.memCount = Plus(x.memCount, v, 1)
        /\ ~full => y.approved = x.approved /\ Same(x, y)
        /\ full /\ v \in Issue =>
             /\ RowOf(v) \in rows /\ y.approved = x.approved \cup {v}
             /\ v \in x.approved => Same(x, y)
             /\ v \notin x.approved => Gains(x, y, v)
        /\ full /\ v \notin Issue =>
             y.approved = x.approved \cup ({v} \cap Registered) /\ Same(x, y)
        /\ x.cache = x.balance => y.cache = y.balance
    BY <1>8, <1>12, <2>1 DEF Applied, v
  <2>3. v \in Value /\ Y = X
    BY <1>6, <1>10, <1>12
  <2>4. h = IF full /\ v \in Issue \cup Registered THEN g \cup {v} ELSE g
    BY <1>5, <1>9, <1>12, <2>3
  <2>5. sum
    <3>1. ASSUME NEW w \in Value
          PROVE  y.memCount[w] = x.memCount[w] + (IF v = w THEN 1 ELSE 0)
      BY <1>7, <2>2, <2>3 DEF Plus
    <3>2. ASSUME NEW w \in Value
          PROVE  y.memCount[w] + N(w, 0) = N(w, p)
      <4>1. x.memCount[w] \in Int /\ N(w, 0) \in Nat /\ N(w, p - 1) \in Nat
        BY <1>2, <1>4, <1>7
      <4>2. N(w, p) = N(w, p - 1) + (IF v = w THEN 1 ELSE 0)
        BY <1>3, <1>12 DEF v
      <4> QED BY <1>1, <3>1, <4>1, <4>2
    <3> QED BY <3>2
  <2>6. gain
    BY <1>1, <2>2, <2>4
  <2>7. y.approved = E
    <3>1. Registered \cap Issue = {}
      BY <1>10 DEF Registered, RegisteredIn
    <3> QED BY <1>1, <2>2, <2>4, <3>1
  <2>8. kept
    <3>1. CASE full /\ v \in Issue /\ v \notin x.approved
      <4>1. E = D \cup {v} /\ v \notin D
        BY <1>1, <2>4, <3>1
      <4> HIDE DEF D, E
      <4>2. Books(x, D, X) <=> Books(y, D \cup {v}, X)
        BY <1>6, <2>2, <3>1, <4>1, BooksGain
      <4> QED BY <2>3, <4>1, <4>2
    <3>2. CASE ~(full /\ v \in Issue /\ v \notin x.approved)
      <4>1. Same(x, y) /\ D \cap Issue = E \cap Issue
        BY <1>1, <2>2, <2>4, <3>2
      <4> HIDE DEF D, E
      <4>2. Books(x, D, X) <=> Books(y, E, X)
        BY <4>1, BooksSame
      <4> QED BY <2>3, <4>2
    <3> QED BY <3>1, <3>2
  <2> QED BY <2>2, <2>5, <2>6, <2>7, <2>8
<1>13. ASSUME t \notin Approval
       PROVE  /\ sum /\ gain /\ y.approved = E /\ kept
              /\ x.cache = x.balance => y.cache = y.balance
  <2>1. h = g
    BY <1>5, <1>9, <1>13
  <2>2. y.memCount = x.memCount /\ y.approved = x.approved
        /\ (x.cache = x.balance => y.cache = y.balance)
    BY <1>8, <1>13 DEF Applied
  <2>3. sum
    BY <1>1, <1>2, <1>3, <1>13, <2>2
  <2>4. kept
    <3>1. CASE t \in Exercise
      <4>1. Spends(x, y, t) /\ Y = X \cup {t}
        BY <1>6, <1>8, <3>1 DEF Applied
      <4> HIDE DEF D, E
      <4>2. Books(x, D, X) <=> Books(y, D, X \cup {t})
        BY <1>6, <3>1, <4>1, BooksSpend
      <4> QED BY <2>1, <4>1, <4>2 DEF D, E
    <3>2. CASE t \notin Exercise
      <4>1. y = x /\ Y = X
        BY <1>6, <1>8, <1>13, <3>2 DEF Applied
      <4> QED BY <2>1, <4>1
    <3> QED BY <3>1, <3>2
  <2> QED BY <1>1, <2>1, <2>2, <2>3, <2>4
<1>14. /\ sum /\ gain /\ y.approved = E /\ kept
       /\ x.cache = x.balance => y.cache = y.balance
  BY <1>12, <1>13
<1>15. ASSUME H
       PROVE  Books(y, E, Y) /\ SolventTo(active, rows, approved, b, p)
  <2>1. Books(y, E, Y)
    BY <1>1, <1>14, <1>15
  <2>2. \A a \in Asset : Qty(E, Y, a) >= 0
    <3> HIDE DEF E
    <3> QED BY <1>7, <2>1 DEF Books
  <2>3. SolventTo(active, rows, approved, b, p - 1)
    BY <1>1, <1>15
  <2>4. \A q \in 0 .. p : q \in 0 .. p - 1 \/ q = p
    OBVIOUS
  <2> QED BY <2>1, <2>2, <2>3, <2>4 DEF SolventTo, E, h, Y
<1> QED BY <1>1, <1>14, <1>15 DEF AppliedTo, h, N, H, Y

\* What a block that is applied makes of the tables.
LEMMA ApplyRun ==
  ASSUME State \in States, NEW b, NEW s,
         s = FoldLeft(Apply, [State EXCEPT !.memCount = NoCount], b),
         b \in Seq(Transaction)
  PROVE  /\ s \in States
         /\ s.ok /\ PlacedIn(active, rows, b) => AppliedTo(b, Len(b), s)
<1> DEFINE z == [State EXCEPT !.memCount = NoCount]
           P == PlacedIn(active, rows, b)
           J == [i \in 0 .. Len(b) |-> {x \in States : x.ok /\ P => AppliedTo(b, i, x)}]
<1>1. Len(b) \in Nat
  OBVIOUS
<1>2. /\ z \in States /\ z.approved = approved /\ z.memCount = NoCount
      /\ Same(State, z) /\ z.cache = cache /\ z.balance = balance
  <2>1. NoCount \in [Value -> Int]
    BY DEF NoCount
  <2>2. z \in States
    BY <2>1 DEF States
  <2>3. /\ State.approved = approved /\ State.quantity = quantity /\ State.balance = balance
        /\ State.minted = minted /\ State.cache = cache
    BY DEF State
  <2>4. /\ z.approved = State.approved /\ z.quantity = State.quantity
        /\ z.balance = State.balance /\ z.minted = State.minted
        /\ z.cache = State.cache /\ z.memCount = NoCount
    BY DEF States
  <2> QED BY <2>2, <2>3, <2>4 DEF Same
<1> HIDE DEF z
<1>3. P => AppliedTo(b, 0, z)
  <2> SUFFICES ASSUME PlacedIn(active, rows, b)
               PROVE  AppliedTo(b, 0, z)
    OBVIOUS
  <2>1. First(b, 0) = {}
    BY FirstIs
  <2>2. Gained(active, rows, b, 0) = {}
    BY DEF Gained
  <2>3. Spent(rows, b, 0) = rows \cap Exercise
    BY <2>1 DEF Spent
  <2>4. \A v \in Value : z.memCount[v] + At(active, rows, b, v, 0) = At(active, rows, b, v, 0)
    <3>1. \A v \in Value : z.memCount[v] = 0 /\ At(active, rows, b, v, 0) \in Nat
      BY <1>2, AtEnds DEF NoCount, Ends
    <3> QED BY <3>1
  <2> DEFINE D == approved \cup Gained(active, rows, b, 0)
             X == Spent(rows, b, 0)
  <2>5. D = approved
    BY <2>2
  <2>6. Books(State, approved, X) => Books(z, D, X)
    <3> HIDE DEF D, X
    <3> QED BY <1>2, <2>5, BooksSame
  <2>7. ASSUME Books(z, D, X)
        PROVE  SolventTo(active, rows, approved, b, 0)
    <3>1. z.balance \in [Asset -> Nat]
      BY <1>2 DEF States
    <3>2. \A a \in Asset : Qty(D, X, a) >= 0
      <4> HIDE DEF D, X
      <4> QED BY <2>7, <3>1 DEF Books
    <3>3. \A q \in 0 .. 0 : q = 0
      OBVIOUS
    <3> QED BY <3>2, <3>3 DEF SolventTo
  <2>8. Books(State, approved, rows \cap Exercise) =>
          Books(z, D, X) /\ SolventTo(active, rows, approved, b, 0)
    BY <2>3, <2>6, <2>7
  <2>9. z.approved = D /\ (cache = balance => z.cache = z.balance)
    BY <1>2, <2>5
  <2>10. \A i \in Issue : i \in Gained(active, rows, b, 0) => RowOf(i) \in rows
    BY <2>2
  <2> QED BY <2>4, <2>8, <2>9, <2>10 DEF AppliedTo
<1>4. z \in J[0]
  BY <1>1, <1>2, <1>3
<1>5. ASSUME NEW i \in 1 .. Len(b), NEW x \in States, x \in J[i - 1]
      PROVE  Apply(x, b[i]) \in J[i]
  <2> DEFINE y == Apply(x, b[i])
  <2>1. b[i] \in Transaction
    OBVIOUS
  <2> HIDE DEF y
  <2>2. y \in States /\ (y.ok => x.ok /\ Applied(x, b[i], y))
    BY <2>1, ApplyIs DEF y
  <2>3. i - 1 \in 0 .. Len(b) /\ i \in 0 .. Len(b)
    BY <1>1
  <2>4. x.ok /\ P => AppliedTo(b, i - 1, x)
    BY <1>5, <2>3
  <2>5. ASSUME y.ok, P
        PROVE  AppliedTo(b, i, y)
    <3>1. AppliedTo(b, i - 1, x) /\ Applied(x, b[i], y) /\ PlacedIn(active, rows, b)
      BY <2>2, <2>4, <2>5
    <3> QED BY <2>2, <3>1, ApplyStep
  <2>6. y \in J[i]
    BY <2>2, <2>3, <2>5
  <2> QED BY <2>6 DEF y
<1> HIDE DEF J
<1>6. s \in States /\ s \in J[Len(b)]
  <2>1. s = FoldLeft(Apply, z, b)
    BY DEF z
  <2> QED BY <1>2, <1>4, <1>5, <2>1, ApplyFold
<1> QED BY <1>1, <1>6 DEF J

-----------------------------------------------------------------------------
(* A block is undone *)

\* The transactions of a block are undone one by one.
LEMMA UndoFold ==
  ASSUME NEW s \in States, NEW l \in Seq(Transaction), NEW J, s \in J[0],
         \A i \in 1 .. Len(l) : \A x \in States : x \in J[i - 1] => Undo(x, l[i]) \in J[i]
  PROVE  FoldLeft(Undo, s, l) \in States /\ FoldLeft(Undo, s, l) \in J[Len(l)]
<1> DEFINE One(x, t) == Undo(x, t)
           G == [p \in States \X Transaction |-> One(p[1], p[2])]
           Body(it) == [P \in SUBSET (DOMAIN l) |->
                         IF P = {} THEN s ELSE One(it[P \ {Max(P)}], l[Max(P)])]
           it == CHOOSE it : it = Body(it)
<1>1. \A x \in States, t \in Transaction : One(x, t) \in States
  BY UndoIs
<1>2. FoldLeft(Undo, s, l) = it[DOMAIN l]
  BY DEF FoldLeft, MapThenFoldSet
<1>3. \A i \in 1 .. Len(l) : \A x \in States : x \in J[i - 1] => One(x, l[i]) \in J[i]
  OBVIOUS
<1> HIDE DEF One
<1>4. /\ G \in [States \X Transaction -> States]
      /\ \A x \in States, t \in Transaction : G[<<x, t>>] = One(x, t)
  BY <1>1
<1> HIDE DEF G
<1>5. PICK jt : IsFold(jt, s, G, l, States, Transaction)
  BY <1>4, FoldExists
<1>6. jt = Body(jt)
  BY <1>4, <1>5 DEF IsFold
<1>7. it = Body(it)
  BY <1>6
<1> HIDE DEF it
<1>8. Follows(it, s, G, l, States)
  <2>1. ASSUME NEW P \in SUBSET (DOMAIN l), P # {}, it[P \ {Max(P)}] \in States
        PROVE  it[P] = G[<<it[P \ {Max(P)}], l[Max(P)]>>]
    <3>1. l[Max(P)] \in Transaction
      BY <1>5, <2>1 DEF IsFold
    <3>2. it[P] = One(it[P \ {Max(P)}], l[Max(P)])
      BY <1>7, <2>1
    <3> QED BY <1>4, <2>1, <3>1, <3>2
  <2>2. it[{}] = s
    BY <1>7
  <2> QED BY <2>1, <2>2 DEF Follows
<1>9. Keeps(G, l, States, J)
  BY <1>3, <1>4 DEF Keeps
<1>10. it[DOMAIN l] \in States /\ it[DOMAIN l] \in J[Len(l)]
  BY <1>4, <1>8, <1>9, FoldWithin
<1> QED BY <1>2, <1>10

\* The block b on top of R can be undone: what it was applied to had the assets and
\* issues D, no vote of it is counted, and what it made complete was not before.
UndoReady(b, R, D) ==
  /\ PlacedIn(active, R, b) /\ rows = R \cup ToSet(b)
  /\ Approved \subseteq D /\ D \cap Asset \subseteq RegisteredIn(R)
  /\ approved = D \cup Gained(active, R, b, Len(b))
  /\ Books(State, approved, rows \cap Exercise)
  /\ SolventTo(active, R, D, b, Len(b))
  /\ \A i \in Issue : i \in Gained(active, R, b, Len(b)) => RowOf(i) \in rows
  /\ \A v \in Gained(active, R, b, Len(b)) : v \notin Approved => v \notin D
  /\ \A t \in ToSet(b) : t \in Approval => memCount[t.value] = 0

\* The block is undone down to its place p.
UndoneTo(b, R, D, p, x) ==
  LET E == D \cup Gained(active, R, b, p)
  IN  /\ x.ok
      /\ x.approved \ Approved = E \ Approved
      /\ \A t \in ToSet(b) : t \in Approval =>
           x.memCount[t.value] + At(active, R, b, t.value, Len(b))
             = At(active, R, b, t.value, p)
      /\ Books(x, E, Spent(R, b, p))
      /\ cache = balance =>
           \/ x.cache = x.balance
           \/ \E i \in Issue : i \in approved \ x.approved /\ Currency[i] \notin ChainLevel

\* One more transaction is undone.
LEMMA UndoStep ==
  ASSUME NEW b, NEW R, NEW D, UndoReady(b, R, D), NEW p \in 1 .. Len(b),
         NEW x \in States, NEW y \in States, UndoneTo(b, R, D, p, x),
         y.approved \subseteq x.approved,
         Revocable(x, b[p]) => Reverted(x, b[p], y)
  PROVE  UndoneTo(b, R, D, p - 1, y)
<1> DEFINE t == b[p]
           v == t.value
           n == Len(b)
           g == Gained(active, R, b, p - 1)
           h == Gained(active, R, b, p)
           k == Gained(active, R, b, n)
           E == D \cup h
           F == D \cup g
           X == Spent(R, b, p - 1)
           Y == Spent(R, b, p)
           N(w, q) == At(active, R, b, w, q)
           lost(z) == \E i \in Issue : i \in approved \ z.approved /\ Currency[i] \notin ChainLevel
           sum == \A u \in ToSet(b) : u \in Approval =>
                    y.memCount[u.value] + N(u.value, n) = N(u.value, p - 1)
           full == N(v, p) = Threshold
<1>1. /\ x.ok /\ x.approved \ Approved = E \ Approved
      /\ \A u \in ToSet(b) : u \in Approval => x.memCount[u.value] + N(u.value, n) = N(u.value, p)
      /\ Books(x, E, Y)
      /\ cache = balance => x.cache = x.balance \/ lost(x)
  BY DEF UndoneTo
<1>2. /\ PlacedIn(active, R, b) /\ rows = R \cup ToSet(b)
      /\ Approved \subseteq D /\ D \cap Asset \subseteq RegisteredIn(R)
      /\ approved = D \cup k /\ SolventTo(active, R, D, b, n)
      /\ \A i \in Issue : i \in k => RowOf(i) \in rows
      /\ \A w \in k : w \notin Approved => w \notin D
  BY DEF UndoReady
<1>3. /\ t \in Transaction /\ t \in ToSet(b) /\ p - 1 \in 0 .. n /\ p \in 0 .. n
      /\ \A w : N(w, p - 1) \in Nat /\ N(w, p) \in Nat
  <2>1. IsPlace(active, R, b, p)
    BY <1>2, PlaceIs
  <2> QED BY <2>1 DEF IsPlace
<1>4. \A w : N(w, p) = N(w, p - 1) + (IF t \in Approval /\ t.value = w THEN 1 ELSE 0)
  BY <1>2, AtMore
<1>5. \A w : N(w, n) = Cardinality(Votes(active, rows, w)) /\ N(w, n) \in Nat
  <2>1. ASSUME NEW w
        PROVE  Ends(active, R, b, w)
    BY <1>2, AtEnds
  <2> QED BY <1>2, <2>1 DEF Ends
<1>6. /\ h = g \cup {w \in Value : Passes(active, R, b, w, p)}
      /\ \A w : t \in Approval /\ t.value = w /\ N(w, p) = Threshold => w \notin g
  BY <1>2, GainedMore
<1>7. /\ X \in SUBSET Exercise /\ IsFiniteSet(X) /\ t \notin X
      /\ Y = IF t \in Exercise THEN X \cup {t} ELSE X
  BY <1>2, SpentMore
<1>8. /\ x.memCount \in [Value -> Int] /\ y.memCount \in [Value -> Int]
      /\ x.balance \in [Asset -> Nat]
  BY DEF States
<1>9. \A w : Passes(active, R, b, w, p) <=>
              t \in Approval /\ v = w /\ w \in Issue \cup RegisteredIn(R) /\ N(w, p) = Threshold
  BY DEF Passes
<1>10. /\ Asset \cap Issue = {} /\ Approved \subseteq Asset
       /\ t \in Approval => v \in Value /\ t \notin Exercise
       /\ t \in Exercise => t \notin Approval
       /\ \A u \in ToSet(b) : u \in Approval => u.value \in Value
  <2>1. \A u \in ToSet(b) : u \in Transaction
    BY <1>2 DEF PlacedIn, ToSet
  <2>2. \A u \in ToSet(b) : u \in Approval => u.value \in Value
    BY <2>1, Types
  <2> QED BY <1>3, <2>2, Constants, Types
<1>11. h \subseteq k /\ g \subseteq Issue \cup RegisteredIn(R) /\ RegisteredIn(R) \subseteq Asset
  <2>1. 1 .. p \subseteq 1 .. n
    OBVIOUS
  <2>2. h \subseteq k
    BY <2>1 DEF Gained
  <2> QED BY <2>2 DEF Gained, Passes, RegisteredIn
<1>12. Revocable(x, t) => Reverted(x, t, y)
  OBVIOUS
<1>13. \A a \in Asset : Qty(F, X, a) >= 0
  BY <1>2, <1>3 DEF SolventTo
<1>14. lost(x) => lost(y)
  OBVIOUS
<1> HIDE DEF N, t, v, n, g, h, k, X, Y, lost
<1>15. ASSUME t \in Approval
       PROVE  /\ sum /\ y.ok /\ y.approved \ Approved = F \ Approved /\ Books(y, F, X)
              /\ x.cache = x.balance => y.cache = y.balance \/ lost(y)
  <2>1. ActiveVotes(v, x.memCount[v]) = N(v, p)
    <3>1. ActiveVotes(v, x.memCount[v]) = x.memCount[v] + N(v, n)
      BY <1>5 DEF ActiveVotes, Votes
    <3>2. x.memCount[v] + N(v, n) = N(v, p)
      BY <1>1, <1>3, <1>15 DEF v
    <3> QED BY <3>1, <3>2
  <2>2. v \in Value /\ Y = X
    BY <1>7, <1>10, <1>15
  <2>3. h = IF full /\ v \in Issue \cup RegisteredIn(R) THEN g \cup {v} ELSE g
    BY <1>6, <1>9, <1>15, <2>2
  <2>4. full => v \notin g
    BY <1>6, <1>15 DEF v
  <2>5. full /\ v \in Issue \cup RegisteredIn(R) /\ v \notin Approved => v \notin D
    BY <1>2, <1>11, <2>3
  <2>6. ASSUME full, v \in Issue
        PROVE  /\ RowOf(v) \in rows /\ x.balance[Currency[v]] >= Amount[v]
               /\ E = F \cup {v} /\ v \notin F /\ v \notin Approved
    <3>1. v \notin Approved /\ v \in h /\ v \in k
      BY <1>10, <1>11, <2>3, <2>6
    <3>2. E = F \cup {v} /\ v \notin F
      BY <2>3, <2>4, <2>5, <2>6, <3>1
    <3> DEFINE a == Currency[v]
               q == Qty(F, X, a)
               m == Amount[v]
    <3>3. a \in Asset /\ m \in Nat
      BY <2>6, Constants
    <3>4. x.balance[a] = Qty(E, X, a)
      <4> HIDE DEF E, a
      <4> QED BY <1>1, <2>2, <3>3 DEF Books
    <3>5. q \in Int /\ Qty(E, X, a) = q + m
      <4> HIDE DEF E, F
      <4>1. QtyAdds(F, X)
        BY <1>7, QtyIs
      <4> QED BY <2>6, <3>2, <3>3, <4>1 DEF QtyAdds
    <3>6. q >= 0
      BY <1>13, <3>3
    <3> HIDE DEF q, m, E, F
    <3>7. x.balance[a] >= m
      BY <3>3, <3>4, <3>5, <3>6
    <3> QED BY <1>2, <2>6, <3>1, <3>2, <3>7 DEF m
  <2>7. Reverted(x, t, y)
    <3>1. Revocable(x, t)
      BY <2>1, <2>6 DEF Revocable, v
    <3> QED BY <1>12, <3>1
  <2>8. /\ y.memCount = Plus(x.memCount, v, -1)
        /\ ~full => y.approved = x.approved /\ Same(x, y)
        /\ full => y.approved = x.approved \ {v}
        /\ full /\ v \in Issue => Gains(y, x, v)
        /\ full /\ v \notin Issue => Same(x, y)
        /\ x.cache = x.balance =>
             \/ full /\ v \in Issue /\ Currency[v] \notin ChainLevel
             \/ y.cache = y.balance
    BY <1>15, <2>1, <2>7 DEF Reverted, v
  <2>9. sum
    <3>1. ASSUME NEW w \in Value
          PROVE  y.memCount[w] = x.memCount[w] - (IF v = w THEN 1 ELSE 0)
      BY <1>8, <2>2, <2>8 DEF Plus
    <3>2. ASSUME NEW u \in ToSet(b), u \in Approval
          PROVE  y.memCount[u.value] + N(u.value, n) = N(u.value, p - 1)
      <4> DEFINE w == u.value
      <4>1. w \in Value /\ x.memCount[w] \in Int /\ N(w, n) \in Nat /\ N(w, p - 1) \in Nat
        BY <1>3, <1>5, <1>8, <1>10, <3>2
      <4>2. N(w, p) = N(w, p - 1) + (IF v = w THEN 1 ELSE 0)
        BY <1>4, <1>15 DEF v
      <4>3. x.memCount[w] + N(w, n) = N(w, p)
        BY <1>1, <3>2
      <4>4. y.memCount[w] = x.memCount[w] - (IF v = w THEN 1 ELSE 0)
        BY <3>1, <4>1
      <4> HIDE DEF w
      <4>5. y.memCount[w] + N(w, n) = N(w, p - 1)
        BY <4>1, <4>2, <4>3, <4>4
      <4> QED BY <4>5 DEF w
    <3> QED BY <3>2
  <2>10. y.approved \ Approved = F \ Approved
    <3>1. CASE ~full
      BY <1>1, <2>3, <2>8, <3>1
    <3>2. CASE full /\ v \in Issue \cup RegisteredIn(R)
      BY <1>1, <2>3, <2>4, <2>5, <2>8, <3>2
    <3>3. CASE full /\ v \notin Issue \cup RegisteredIn(R)
      <4>1. v \in Asset
        BY <2>2, <3>3 DEF Value
      <4>2. v \notin D
        BY <1>2, <3>3, <4>1
      <4> QED BY <1>1, <2>3, <2>4, <2>8, <3>3, <4>2
    <3> QED BY <3>1, <3>2, <3>3
  <2>11. Books(y, F, X)
    <3>1. CASE full /\ v \in Issue
      <4>1. E = F \cup {v} /\ v \notin F /\ Gains(y, x, v)
        BY <2>6, <2>8, <3>1
      <4> HIDE DEF E, F
      <4>2. Books(y, F, X) <=> Books(x, F \cup {v}, X)
        BY <1>7, <3>1, <4>1, BooksGain
      <4> QED BY <1>1, <2>2, <4>1, <4>2
    <3>2. CASE ~(full /\ v \in Issue)
      <4>1. Same(x, y) /\ E \cap Issue = F \cap Issue
        BY <2>3, <2>8, <3>2
      <4> HIDE DEF E, F
      <4>2. Books(x, E, X) <=> Books(y, F, X)
        BY <4>1, BooksSame
      <4> QED BY <1>1, <2>2, <4>2
    <3> QED BY <3>1, <3>2
  <2>12. full /\ v \in Issue /\ Currency[v] \notin ChainLevel => lost(y)
    <3>1. full /\ v \in Issue => v \in approved /\ v \notin y.approved
      BY <1>2, <1>11, <2>3, <2>8
    <3> QED BY <3>1 DEF lost
  <2>13. y.ok
    BY <2>7 DEF Reverted
  <2> QED BY <2>8, <2>9, <2>10, <2>11, <2>12, <2>13
<1>16. ASSUME t \notin Approval
       PROVE  /\ sum /\ y.ok /\ y.approved \ Approved = F \ Approved /\ Books(y, F, X)
              /\ x.cache = x.balance => y.cache = y.balance \/ lost(y)
  <2>1. h = g
    BY <1>6, <1>9, <1>16
  <2>2. Reverted(x, t, y)
    BY <1>12, <1>16 DEF Revocable
  <2>3. /\ y.ok /\ y.memCount = x.memCount /\ y.approved = x.approved
        /\ x.cache = x.balance => y.cache = y.balance
    BY <1>1, <1>16, <2>2 DEF Reverted
  <2>4. sum
    BY <1>1, <1>3, <1>4, <1>16, <2>3
  <2>5. Books(y, F, X)
    <3>1. CASE t \in Exercise
      <4>1. Spends(y, x, t) /\ Y = X \cup {t}
        BY <1>7, <2>2, <3>1 DEF Reverted
      <4> HIDE DEF E, F
      <4>2. Books(y, E, X) <=> Books(x, E, X \cup {t})
        BY <1>7, <3>1, <4>1, BooksSpend
      <4>3. Books(y, E, X)
        BY <1>1, <4>1, <4>2
      <4> QED BY <2>1, <4>3 DEF E, F
    <3>2. CASE t \notin Exercise
      <4>1. y = x /\ Y = X
        BY <1>7, <1>16, <2>2, <3>2 DEF Reverted
      <4> QED BY <1>1, <2>1, <4>1
    <3> QED BY <3>1, <3>2
  <2> QED BY <1>1, <2>1, <2>3, <2>4, <2>5
<1>17. /\ sum /\ y.ok /\ y.approved \ Approved = F \ Approved /\ Books(y, F, X)
       /\ x.cache = x.balance => y.cache = y.balance \/ lost(y)
  BY <1>15, <1>16
<1>18. cache = balance => y.cache = y.balance \/ lost(y)
  BY <1>1, <1>14, <1>17
<1> QED BY <1>17, <1>18 DEF UndoneTo, g, n, N, X, lost

\* What a block that is undone leaves of the tables.
LEMMA UndoRun ==
  ASSUME State \in States, NEW b \in Seq(Transaction), NEW s,
         s = FoldLeft(Undo, State, Reverse(b)), NEW R, NEW D
  PROVE  /\ s \in States /\ s.approved \subseteq approved
         /\ UndoReady(b, R, D) => UndoneTo(b, R, D, 0, s)
<1> DEFINE n == Len(b)
           l == Reverse(b)
           P == UndoReady(b, R, D)
           J == [i \in 0 .. n |-> {x \in States : /\ x.approved \subseteq approved
                                                  /\ P => UndoneTo(b, R, D, n - i, x)}]
           z == State
<1>1. n \in Nat
  OBVIOUS
<1>2. l \in Seq(Transaction) /\ Len(l) = n /\ \A i \in 1 .. n : l[i] = b[n - i + 1]
  BY ReverseIs DEF Reverse
<1>3. z.approved = approved /\ z.cache = cache /\ z.balance = balance /\ z.memCount = memCount
      /\ z.ok
  BY DEF State
<1>4. z \in States
  OBVIOUS
<1>5. P => UndoneTo(b, R, D, n, z)
  <2> SUFFICES ASSUME UndoReady(b, R, D)
               PROVE  UndoneTo(b, R, D, n, z)
    OBVIOUS
  <2> DEFINE E == D \cup Gained(active, R, b, n)
  <2>1. PlacedIn(active, R, b) /\ rows = R \cup ToSet(b) /\ approved = E
        /\ Books(z, approved, rows \cap Exercise)
        /\ \A t \in ToSet(b) : t \in Approval => memCount[t.value] = 0
    BY DEF UndoReady
  <2>2. Spent(R, b, n) = rows \cap Exercise
    <3>1. First(b, n) = ToSet(b)
      BY FirstIs
    <3> QED BY <2>1, <3>1 DEF Spent
  <2>3. ASSUME NEW t \in ToSet(b), t \in Approval
        PROVE  z.memCount[t.value] + At(active, R, b, t.value, n) = At(active, R, b, t.value, n)
    <3> DEFINE v == t.value
    <3> HIDE DEF v
    <3>1. Ends(active, R, b, v)
      BY <2>1, AtEnds
    <3>2. At(active, R, b, v, n) \in Nat
      BY <3>1 DEF Ends
    <3>3. z.memCount[v] = 0
      BY <1>3, <2>1, <2>3 DEF v
    <3> HIDE DEF z
    <3>4. z.memCount[v] + At(active, R, b, v, n) = At(active, R, b, v, n)
      BY <3>2, <3>3
    <3> QED BY <3>4 DEF v
  <2> HIDE DEF z, n
  <2>4. z.ok /\ z.approved = E
    BY <1>3, <2>1
  <2>5. Books(z, E, Spent(R, b, n)) /\ (cache = balance => z.cache = z.balance)
    BY <1>3, <2>1, <2>2
  <2> HIDE DEF E
  <2>6. z.approved \ Approved = E \ Approved
    BY <2>4
  <2> QED BY <2>3, <2>4, <2>5, <2>6 DEF UndoneTo, E, n
<1> HIDE DEF z
<1>6. z \in J[0]
  <2>1. n - 0 = n /\ 0 \in 0 .. n
    BY <1>1
  <2> QED BY <1>3, <1>4, <1>5, <2>1
<1>7. ASSUME NEW i \in 1 .. Len(l), NEW x \in States, x \in J[i - 1]
      PROVE  Undo(x, l[i]) \in J[i]
  <2> DEFINE p == n - i + 1
             y == Undo(x, l[i])
  <2>1. p \in 1 .. n /\ i - 1 \in 0 .. n /\ i \in 0 .. n /\ n - (i - 1) = p /\ n - i = p - 1
    BY <1>1, <1>2
  <2>2. l[i] = b[p]
    BY <1>2
  <2> HIDE DEF p
  <2>3. x.approved \subseteq approved /\ (P => UndoneTo(b, R, D, p, x))
    BY <1>7, <2>1
  <2>4. b[p] \in Transaction
    BY <2>1
  <2>5. y = Undo(x, b[p])
    BY <2>2
  <2> HIDE DEF y
  <2>6. /\ y \in States /\ y.approved \subseteq x.approved
        /\ x.ok /\ Revocable(x, b[p]) => Reverted(x, b[p], y)
    BY <2>4, <2>5, UndoIs
  <2>7. ASSUME P
        PROVE  UndoneTo(b, R, D, p - 1, y)
    <3>1. UndoneTo(b, R, D, p, x) /\ x.ok /\ UndoReady(b, R, D)
      BY <2>3, <2>7 DEF UndoneTo
    <3>2. Revocable(x, b[p]) => Reverted(x, b[p], y)
      BY <2>6, <3>1
    <3> QED BY <2>1, <2>6, <3>1, <3>2, UndoStep
  <2>8. y \in J[i]
    BY <2>1, <2>3, <2>6, <2>7
  <2> QED BY <2>8 DEF y
<1>8. s = FoldLeft(Undo, z, l)
  BY DEF z
<1> HIDE DEF J, l, n
<1>9. s \in States /\ s \in J[Len(l)]
  BY <1>2, <1>4, <1>6, <1>7, <1>8, UndoFold
<1>10. n \in 0 .. n /\ n - n = 0
  BY <1>1
<1> QED BY <1>2, <1>9, <1>10 DEF J

-----------------------------------------------------------------------------
(* What the chain says *)

\* The transactions before height h.
Earlier(c, h) == Genesis \cup UNION {ToSet(c[k]) : k \in 1 .. h - 1}

\* What the votes for were made complete at height h, and before it.
New(c, l, h) == Gained(l[h], Earlier(c, h), c[h], Len(c[h]))
VotedBy(c, l, h) == Approved \cup UNION {New(c, l, k) : k \in 1 .. h - 1}

\* What is issued or exercised has been registered, what is approved has been issued.
Placed(c, l, h) ==
  LET R == Earlier(c, h)
  IN  /\ PlacedIn(l[h], R, c[h])
      /\ \A t \in ToSet(c[h]) : /\ t \in IssueOf => Currency[t.id] \in RegisteredIn(R)
                                /\ t \in Exercise => t.asset \in RegisteredIn(R)
      /\ \A i \in Issue : i \in New(c, l, h) => RowOf(i) \in R

\* The chains c and d have the same first n blocks, applied with the same lists.
Agree(c, l, d, m, n) == \A k \in 1 .. n : c[k] = d[k] /\ l[k] = m[k]

\* What the chain says at height h.
Alike(c, l, d, m, h) ==
  /\ Earlier(d, h) = Earlier(c, h) /\ VotedBy(d, m, h) = VotedBy(c, l, h)

\* Chains that agree up to a height say the same of it.
LEMMA AgreeIs ==
  ASSUME NEW c, NEW l, NEW d, NEW m, NEW n \in Nat, Agree(c, l, d, m, n)
  PROVE  /\ \A h \in 1 .. n + 1 : Alike(c, l, d, m, h)
         /\ \A h \in 1 .. n : Placed(c, l, h) => Placed(d, m, h)
<1>1. \A k \in 1 .. n : c[k] = d[k] /\ l[k] = m[k]
  BY DEF Agree
<1>2. ASSUME NEW h \in 1 .. n + 1
      PROVE  Earlier(d, h) = Earlier(c, h)
  <2>1. \A k \in 1 .. h - 1 : k \in 1 .. n
    OBVIOUS
  <2> QED BY <1>1, <2>1 DEF Earlier
<1>3. ASSUME NEW h \in 1 .. n
      PROVE  New(d, m, h) = New(c, l, h) /\ (Placed(c, l, h) => Placed(d, m, h))
  <2>1. Earlier(d, h) = Earlier(c, h) /\ c[h] = d[h] /\ l[h] = m[h]
    BY <1>1, <1>2
  <2>2. New(d, m, h) = New(c, l, h)
    BY <2>1 DEF New
  <2> QED BY <2>1, <2>2 DEF Placed
<1>4. ASSUME NEW h \in 1 .. n + 1
      PROVE  VotedBy(d, m, h) = VotedBy(c, l, h)
  <2>1. \A k \in 1 .. h - 1 : k \in 1 .. n
    OBVIOUS
  <2> QED BY <1>3, <2>1 DEF VotedBy
<1> QED BY <1>2, <1>3, <1>4 DEF Alike

\* One height more has one block more.
LEMMA NextHeight ==
  ASSUME NEW c, NEW l, NEW h \in Nat \ {0}
  PROVE  /\ Earlier(c, h + 1) = Earlier(c, h) \cup ToSet(c[h])
         /\ VotedBy(c, l, h + 1) = VotedBy(c, l, h) \cup New(c, l, h)
<1>1. 1 .. (h + 1) - 1 = (1 .. h - 1) \cup {h}
  OBVIOUS
<1> QED BY <1>1 DEF Earlier, VotedBy

\* Before height k there is no more than before a greater one.
LEMMA EarlierGrows ==
  ASSUME NEW c, NEW h \in Nat, NEW k \in 1 .. h
  PROVE  Earlier(c, k) \subseteq Earlier(c, h)
         /\ (k < h => Earlier(c, k) \cup ToSet(c[k]) \subseteq Earlier(c, h))
<1>1. 1 .. k - 1 \subseteq 1 .. h - 1 /\ (k < h => k \in 1 .. h - 1)
  OBVIOUS
<1> QED BY <1>1 DEF Earlier

\* What was registered at first is an asset, and no approval.
LEMMA GenesisIs ==
  /\ Genesis \subseteq Registration /\ IsFiniteSet(Genesis) /\ RegisteredIn(Genesis) = Approved
<1>1. Approved \subseteq Asset /\ IsFiniteSet(Approved)
  BY Constants, FS_Subset
<1> DEFINE f == [a \in Approved |-> [type |-> "asset", asset |-> a]]
<1>2. f \in Surjection(Approved, Genesis)
  BY DEF Surjection, Genesis
<1> HIDE DEF f
<1>3. IsFiniteSet(Genesis)
  BY <1>1, <1>2, FS_Surjection
<1>4. Genesis \subseteq Registration
  BY <1>1 DEF Genesis, Registration
<1>5. RegisteredIn(Genesis) = Approved
  BY <1>1 DEF RegisteredIn, Genesis
<1> QED BY <1>3, <1>4, <1>5

\* What was approved before height h is registered or issued there.
LEMMA VotedRows ==
  ASSUME NEW c, NEW l, NEW h \in Nat, \A k \in 1 .. h - 1 : Placed(c, l, k)
  PROVE  /\ Approved \subseteq VotedBy(c, l, h)
         /\ VotedBy(c, l, h) \cap Asset \subseteq RegisteredIn(Earlier(c, h))
         /\ \A i \in Issue : i \in VotedBy(c, l, h) => RowOf(i) \in Earlier(c, h)
<1>1. Approved \cap Issue = {} /\ Asset \cap Issue = {}
  BY Constants
<1>2. ASSUME NEW k \in 1 .. h - 1
      PROVE  /\ New(c, l, k) \cap Asset \subseteq RegisteredIn(Earlier(c, h))
             /\ \A i \in Issue : i \in New(c, l, k) => RowOf(i) \in Earlier(c, h)
  <2>1. Placed(c, l, k) /\ k \in 1 .. h
    OBVIOUS
  <2>2. Earlier(c, k) \subseteq Earlier(c, h)
    BY <2>1, EarlierGrows
  <2>3. New(c, l, k) \cap Asset \subseteq RegisteredIn(Earlier(c, k))
    BY <1>1 DEF New, Gained, Passes
  <2>4. RegisteredIn(Earlier(c, k)) \subseteq RegisteredIn(Earlier(c, h))
    BY <2>2 DEF RegisteredIn
  <2> QED BY <2>1, <2>2, <2>3, <2>4 DEF Placed
<1>3. Approved \subseteq RegisteredIn(Earlier(c, h))
  BY GenesisIs DEF RegisteredIn, Earlier
<1> QED BY <1>1, <1>2, <1>3 DEF VotedBy

\* What is issued or exercised before height h is registered there.
LEMMA RowsAssets ==
  ASSUME NEW c, NEW l, NEW h \in Nat, \A k \in 1 .. h - 1 : Placed(c, l, k)
  PROVE  /\ \A i \in Issue : RowOf(i) \in Earlier(c, h) =>
                               Currency[i] \in RegisteredIn(Earlier(c, h))
         /\ \A e \in Exercise : e \in Earlier(c, h) => e.asset \in RegisteredIn(Earlier(c, h))
<1>1. ASSUME NEW t, t \in Earlier(c, h), t \in IssueOf \cup Exercise
      PROVE  /\ t \in IssueOf => Currency[t.id] \in RegisteredIn(Earlier(c, h))
             /\ t \in Exercise => t.asset \in RegisteredIn(Earlier(c, h))
  <2>1. t \notin Genesis
    BY <1>1, GenesisIs DEF IssueOf, Exercise, Registration
  <2>2. PICK k \in 1 .. h - 1 : t \in ToSet(c[k])
    BY <1>1, <2>1 DEF Earlier
  <2>3. k \in 1 .. h /\ Placed(c, l, k)
    OBVIOUS
  <2>4. Earlier(c, k) \subseteq Earlier(c, h)
    BY <2>3, EarlierGrows
  <2>5. RegisteredIn(Earlier(c, k)) \subseteq RegisteredIn(Earlier(c, h))
    BY <2>4 DEF RegisteredIn
  <2> QED BY <2>2, <2>3, <2>5 DEF Placed
<1>2. \A i \in Issue : RowOf(i) \in IssueOf /\ RowOf(i).id = i
  BY DEF RowOf, IssueOf
<1> QED BY <1>1, <1>2

\* With the same delegates active, the votes for v are complete once.
LEMMA Once ==
  ASSUME NEW c, NEW A, NEW n \in Nat \ {0}, NEW k \in 1 .. n - 1,
         PlacedIn(A, Earlier(c, k), c[k]), PlacedIn(A, Earlier(c, n), c[n]),
         NEW v, v \in Gained(A, Earlier(c, k), c[k], Len(c[k])),
         v \in Gained(A, Earlier(c, n), c[n], Len(c[n]))
  PROVE  FALSE
<1> DEFINE Q == Earlier(c, k)
           R == Earlier(c, n)
           a == c[k]
           b == c[n]
<1>1. PlacedIn(A, Q, a) /\ PlacedIn(A, R, b)
  OBVIOUS
<1>2. PICK p \in 1 .. Len(a) : Passes(A, Q, a, v, p)
  BY DEF Gained
<1>3. PICK q \in 1 .. Len(b) : Passes(A, R, b, v, q)
  BY DEF Gained
<1>4. Q \cup ToSet(a) \subseteq R
  BY EarlierGrows
<1> HIDE DEF Q, R, a, b
<1> DEFINE S == Q \cup First(a, p)
           W == R \cup First(b, q - 1)
<1>5. First(a, p) \subseteq ToSet(a)
  BY DEF First, ToSet, PlacedIn
<1>6. S \in SUBSET W
  BY <1>4, <1>5
<1>7. /\ IsFiniteSet(W) /\ At(A, R, b, v, q - 1) \in Nat
  <2>1. IsPlace(A, R, b, q)
    BY <1>1, PlaceIs
  <2> QED BY <2>1 DEF IsPlace
<1>8. At(A, R, b, v, q) = At(A, R, b, v, q - 1) + 1
  BY <1>1, <1>3, AtMore DEF Passes
<1>9. At(A, Q, a, v, p) = Cardinality(Votes(A, S, v))
      /\ At(A, R, b, v, q - 1) = Cardinality(Votes(A, W, v))
  BY DEF At
<1> HIDE DEF S, W
<1>10. /\ Cardinality(Votes(A, S, v)) <= Cardinality(Votes(A, W, v))
       /\ Cardinality(Votes(A, S, v)) \in Nat
  BY <1>6, <1>7, VotesMore
<1>11. At(A, Q, a, v, p) = Threshold /\ At(A, R, b, v, q) = Threshold
  BY <1>2, <1>3 DEF Passes
<1> QED BY <1>7, <1>8, <1>9, <1>10, <1>11

-----------------------------------------------------------------------------
(* The invariant *)

\* The tables have what the chain has, and a registration for each asset approved.
Shape ==
  /\ \A h \in 1 .. Top : Placed(chain, lists, h)
  /\ rows = Earlier(chain, Top + 1) /\ IsFiniteSet(rows)
  /\ approved \cap Asset \subseteq Registered

\* What is approved is what the votes of the chain say, the books are those of it,
\* and they were solvent all along.
Sound ==
  ~miscounted =>
    /\ approved = VotedBy(chain, lists, Top + 1)
    /\ Books(State, approved, rows \cap Exercise)
    /\ \A h \in 1 .. Top :
         SolventTo(lists[h], Earlier(chain, h), VotedBy(chain, lists, h), chain[h],
                   Len(chain[h]))

AssetsInv == TypeOK /\ Shape /\ Sound /\ CacheReflectsTables

\* The tables are a state of what a transaction is applied to.
LEMMA StateIs ==
  ASSUME TypeOK
  PROVE  /\ State \in States /\ minted \in Money
         /\ {quantity, cache, saved} \subseteq [Asset -> Int]
         /\ balance \in [Asset -> Nat] /\ approved \in SUBSET Value
<1>1. /\ {quantity, balance, cache, saved} \subseteq [Asset -> Int]
      /\ \A a \in Asset : balance[a] >= 0
      /\ minted \in Money /\ approved \in SUBSET Value /\ memCount \in [Value -> Int]
  BY DEF TypeOK, Money
<1>2. balance \in [Asset -> Nat]
  <2>1. \A a \in Asset : balance[a] \in Nat
    BY <1>1
  <2> QED BY <1>1, <2>1
<1>3. State \in States
  BY <1>1, <1>2 DEF State, States
<1> QED BY <1>1, <1>2, <1>3

\* A state gives the tables the types they need.
LEMMA TypesAre ==
  ASSUME NEW s \in States
  PROVE  /\ s.approved \subseteq Value /\ s.quantity \in [Asset -> Int]
         /\ s.balance \in [Asset -> Int] /\ s.cache \in [Asset -> Int]
         /\ \A a \in Asset : s.balance[a] >= 0
         /\ s.minted \in [issuer : Int, pool : Int, total : Int]
         /\ s.memCount \in [Value -> Int]
<1> DEFINE e == s.balance
<1>1. /\ s.approved \in SUBSET Value /\ s.quantity \in [Asset -> Int]
      /\ e \in [Asset -> Nat] /\ s.cache \in [Asset -> Int]
      /\ s.minted \in [issuer : Int, pool : Int, total : Int]
      /\ s.memCount \in [Value -> Int]
  BY DEF States, Money
<1> HIDE DEF e
<1>2. e \in [Asset -> Int] /\ \A a \in Asset : e[a] >= 0
  BY <1>1
<1> QED BY <1>1, <1>2 DEF e

\* The heights of the chain.
LEMMA ChainIs ==
  ASSUME TypeOK
  PROVE  /\ Top \in Nat /\ chain \in Seq(Block) /\ lists \in Seq(Lists) /\ Len(lists) = Top
         /\ Len(chain) = Top /\ \A h \in 1 .. Top : chain[h] \in Seq(Transaction)
         /\ rows \subseteq Transaction
BY Constants DEF TypeOK, Top

\* A block whose transactions are all verified, without a double, can be placed.
LEMMA VerifiedPlaced ==
  ASSUME TypeOK, Shape, NEW b \in Block, \A i \in DOMAIN b : Verified(b[i]), ~Doubled(b)
  PROVE  /\ PlacedIn(active, rows, b)
         /\ \A t \in ToSet(b) : /\ t \in IssueOf => Currency[t.id] \in Registered
                                /\ t \in Exercise => t.asset \in Registered
<1>1. b \in Seq(Transaction) /\ rows \subseteq Transaction
  BY Constants, ChainIs
<1>2. IsInjective(b)
  <2>1. SUFFICES ASSUME NEW i \in DOMAIN b, NEW j \in DOMAIN b, i < j, b[i] = b[j]
                 PROVE  FALSE
    <3>1. DOMAIN b = 1 .. Len(b)
      BY <1>1
    <3>2. \A i, j \in DOMAIN b : i # j => i < j \/ j < i
      BY <3>1
    <3> QED BY <3>2 DEF IsInjective
  <2> DEFINE t == b[i]
             u == b[j]
  <2>2. t \in Transaction /\ t = u
    BY <1>1, <2>1
  <2>3. i # j
    BY <1>1, <2>1
  <2>4. t \notin Exercise
    <3>1. \A p, q \in DOMAIN b : b[p] \in Exercise /\ p # q => b[p] # b[q]
      BY ConstantsAssumption
    <3> QED BY <2>1, <2>3, <3>1
  <2>5. t.type \in {"asset", "approval"} \/ t.type = "issue"
    <3> HIDE DEF t
    <3> QED BY <2>2, <2>4 DEF Transaction, Approval, Registration, IssueOf
  <2>6. Clash(t, u)
    <3> HIDE DEF t, u
    <3> QED BY <2>2, <2>5 DEF Clash
  <2> QED BY <2>1, <2>6 DEF Doubled
<1>3. ASSUME NEW t \in ToSet(b)
      PROVE  /\ t \notin rows /\ (t \in Approval => t.by \in active)
             /\ t \in IssueOf => Currency[t.id] \in Registered
             /\ t \in Exercise => t.asset \in Registered
  <2>1. Verified(t)
    BY <1>3 DEF ToSet
  <2>2. t \in Transaction
    BY <1>1, <1>3 DEF ToSet
  <2>3. /\ t \in Approval => t.type = "approval"
        /\ t \in IssueOf => t.type = "issue" /\ t.id \in Issue
        /\ t \in Exercise => t.type = "exercise" /\ t.asset \in Asset
    BY <2>2, Types
  <2>4. approved \cap Asset \subseteq Registered
    BY DEF Shape
  <2>5. t \in IssueOf => Currency[t.id] \in approved /\ Currency[t.id] \in Asset
    BY <2>1, <2>3, Constants DEF Verified
  <2> QED BY <2>1, <2>3, <2>4, <2>5 DEF Verified
<1>4. IsFiniteSet(rows)
  BY DEF Shape
<1> QED BY <1>1, <1>2, <1>3, <1>4 DEF PlacedIn

\* The invariant holds at first.
LEMMA AssetsStart ==
  ASSUME Init
  PROVE  AssetsInv
<1>1. /\ chain = <<>> /\ rows = Genesis /\ approved = Approved
      /\ quantity = [a \in Asset |-> 0] /\ balance = [a \in Asset |-> 0]
      /\ minted = [issuer |-> 0, pool |-> 0, total |-> 0]
      /\ cache = balance /\ saved = cache /\ memCount = NoCount /\ active \in Lists
      /\ lists = <<>> /\ miscounted = FALSE /\ drifted = FALSE
  BY DEF Init
<1>2. TypeOK
  <2>1. rows \subseteq Transaction
    BY <1>1, GenesisIs DEF Transaction
  <2>2. approved \subseteq Value
    BY <1>1, Constants DEF Value
  <2>3. /\ {quantity, balance, cache, saved} \subseteq [Asset -> Int]
        /\ \A a \in Asset : balance[a] >= 0
    BY <1>1
  <2>4. memCount \in [Value -> Int] /\ minted \in [issuer : Int, pool : Int, total : Int]
    BY <1>1 DEF NoCount
  <2>5. chain \in Seq(Block) /\ lists \in Seq(Lists) /\ Len(lists) = Top
    BY <1>1 DEF Top
  <2> QED BY <1>1, <2>1, <2>2, <2>3, <2>4, <2>5 DEF TypeOK
<1>3. Top = 0 /\ Top + 1 = 1
  BY <1>1 DEF Top
<1>4. Earlier(chain, 1) = Genesis /\ VotedBy(chain, lists, 1) = Approved
  <2>1. 1 .. 1 - 1 = {}
    OBVIOUS
  <2> QED BY <2>1 DEF Earlier, VotedBy
<1>5. Shape
  <2>1. Registered = Approved
    BY <1>1, GenesisIs DEF Registered
  <2> QED BY <1>1, <1>3, <1>4, <2>1, GenesisIs DEF Shape
<1>6. rows \cap Exercise = {}
  BY <1>1, GenesisIs DEF Registration, Exercise
<1>7. Books(State, approved, {})
  <2>1. \A S : IssuesOf(Approved, S) = {}
    BY Constants DEF IssuesOf
  <2>2. IsFiniteSet(Issue) /\ Amount \in [Issue -> Int] /\ Acc \in [Issue -> Int]
        /\ LockedOf \in [Issue -> Int]
    BY Constants
  <2>3. Total(Amount, {}) = 0 /\ Total(Acc, {}) = 0 /\ Total(LockedOf, {}) = 0
    BY <2>2, TotalMore
  <2> DEFINE f == WorthOf({})
  <2>4. f \in [{} -> Int] /\ \A a : {t \in {} : t.asset = a} = {}
    BY DEF WorthOf
  <2> HIDE DEF f
  <2>5. Total(f, {}) = 0
    BY <2>4, TotalMore, FS_EmptySet
  <2>6. \A a : Taken({}, a) = 0
    BY <2>4, <2>5 DEF Taken, f
  <2>7. \A a : Qty(Approved, {}, a) = 0
    BY <2>1, <2>3, <2>6 DEF Qty
  <2>8. /\ State.quantity = quantity /\ State.balance = balance /\ State.minted = minted
    BY DEF State
  <2>9. /\ \A a \in Asset : State.quantity[a] = 0 /\ State.balance[a] = 0
        /\ State.minted.issuer = 0 /\ State.minted.pool = 0 /\ State.minted.total = 0
    BY <1>1, <2>8
  <2> DEFINE z == State
             u == z.minted
  <2> HIDE DEF z
  <2>10. \A a \in Asset : /\ z.quantity[a] = Qty(Approved, {}, a)
                          /\ z.balance[a] = Qty(Approved, {}, a)
    BY <2>7, <2>9 DEF z
  <2>11. /\ u.issuer = Total(Acc, IssuesOf(Approved, ChainLevel))
         /\ u.pool = Total(LockedOf, IssuesOf(Approved, ChainLevel))
         /\ u.issuer = 0 /\ u.pool = 0 /\ u.total = 0
    BY <2>1, <2>3, <2>9 DEF z
  <2> HIDE DEF u
  <2>12. u.total = u.issuer + u.pool
    BY <2>11
  <2>13. Books(z, Approved, {})
    BY <2>10, <2>11, <2>12 DEF Books, u
  <2> QED BY <1>1, <2>13 DEF z
<1>8. Sound
  <2>1. Books(State, approved, rows \cap Exercise)
    BY <1>6, <1>7
  <2>2. approved = VotedBy(chain, lists, Top + 1)
    BY <1>1, <1>3, <1>4
  <2>3. 1 .. Top = {}
    BY <1>3
  <2> QED BY <2>1, <2>2, <2>3 DEF Sound
<1>9. CacheReflectsTables
  BY <1>1 DEF CacheReflectsTables
<1> QED BY <1>2, <1>5, <1>8, <1>9 DEF AssetsInv

\* The block b is applied, and makes s of the tables.
Appended(b, s) ==
  /\ s = FoldLeft(Apply, [State EXCEPT !.memCount = NoCount], b) /\ s.ok /\ ~Doubled(b)
  /\ \A i \in DOMAIN b : Verified(b[i])
  /\ Update(s) /\ cache' = s.cache /\ saved' = s.cache /\ memCount' = NoCount
  /\ chain' = Append(chain, b) /\ lists' = Append(lists, active) /\ rows' = rows \cup ToSet(b)
  /\ active' = active /\ miscounted' = miscounted /\ drifted' = drifted

\* A block that is applied keeps the invariant.
LEMMA AppendKeeps ==
  ASSUME AssetsInv, NEW b \in Block, NEW s, Appended(b, s)
  PROVE  AssetsInv'
<1> DEFINE n == Top
           c == chain'
           l == lists'
           D == approved \cup Gained(active, rows, b, Len(b))
           X == Spent(rows, b, Len(b))
           z == State'
<1>1. TypeOK /\ Shape /\ Sound /\ CacheReflectsTables
  BY DEF AssetsInv
<1>2. /\ s = FoldLeft(Apply, [State EXCEPT !.memCount = NoCount], b) /\ s.ok
      /\ \A i \in DOMAIN b : Verified(b[i])
      /\ ~Doubled(b)
  BY DEF Appended
<1>3. /\ c = Append(chain, b) /\ l = Append(lists, active) /\ rows' = rows \cup ToSet(b)
      /\ active' = active /\ miscounted' = miscounted /\ drifted' = drifted
      /\ cache' = s.cache /\ saved' = s.cache /\ memCount' = NoCount
      /\ approved' = s.approved /\ quantity' = s.quantity /\ balance' = s.balance
      /\ minted' = s.minted
  BY DEF Appended, Update
<1>4. /\ n \in Nat /\ chain \in Seq(Block) /\ lists \in Seq(Lists) /\ Len(lists) = n
      /\ Len(chain) = n /\ rows \subseteq Transaction
  BY <1>1, ChainIs
<1>5. b \in Seq(Transaction)
  BY Constants
<1>6. /\ PlacedIn(active, rows, b)
      /\ \A t \in ToSet(b) : /\ t \in IssueOf => Currency[t.id] \in Registered
                             /\ t \in Exercise => t.asset \in Registered
  BY <1>1, <1>2, VerifiedPlaced
<1>7. s \in States /\ AppliedTo(b, Len(b), s)
  <2>1. State \in States
    BY <1>1, StateIs
  <2> QED BY <1>2, <1>5, <1>6, <2>1, ApplyRun
<1>8. active \in Lists /\ {miscounted, drifted} \subseteq BOOLEAN
  BY <1>1 DEF TypeOK
<1>9. /\ s.approved = D
      /\ \A i \in Issue : i \in Gained(active, rows, b, Len(b)) => RowOf(i) \in rows
      /\ Books(State, approved, rows \cap Exercise) =>
           Books(s, D, X) /\ SolventTo(active, rows, approved, b, Len(b))
      /\ cache = balance => s.cache = s.balance
  BY <1>7 DEF AppliedTo
<1>10. /\ c \in Seq(Block) /\ Len(c) = n + 1 /\ c[n + 1] = b /\ \A k \in 1 .. n : c[k] = chain[k]
  <2> HIDE DEF c, n
  <2> QED BY <1>3, <1>4, AppendIs
<1>11. /\ l \in Seq(Lists) /\ Len(l) = n + 1 /\ l[n + 1] = active
       /\ \A k \in 1 .. n : l[k] = lists[k]
  <2> HIDE DEF l, n
  <2> QED BY <1>3, <1>4, <1>8, AppendIs
<1>12. /\ \A h \in 1 .. n : Placed(chain, lists, h)
       /\ rows = Earlier(chain, n + 1) /\ IsFiniteSet(rows)
       /\ approved \cap Asset \subseteq Registered
  BY <1>1 DEF Shape
<1>13. Top' = n + 1
  <2>1. Top' = Len(c)
    BY DEF Top
  <2> HIDE DEF c, n
  <2> QED BY <1>10, <2>1
<1> HIDE DEF n, c, l
<1>14. /\ \A h \in 1 .. n + 1 : Alike(chain, lists, c, l, h)
       /\ \A h \in 1 .. n : Placed(chain, lists, h) => Placed(c, l, h)
  <2>1. Agree(chain, lists, c, l, n)
    BY <1>10, <1>11 DEF Agree
  <2> QED BY <1>4, <2>1, AgreeIs
<1>15. \A h \in 1 .. n + 1 : Earlier(c, h) = Earlier(chain, h)
                             /\ VotedBy(c, l, h) = VotedBy(chain, lists, h)
  BY <1>14 DEF Alike
<1>16. n + 1 \in 1 .. n + 1 /\ n + 1 \in Nat \ {0}
  BY <1>4
<1>17. Earlier(c, n + 1) = rows /\ New(c, l, n + 1) = Gained(active, rows, b, Len(b))
  BY <1>10, <1>11, <1>12, <1>15, <1>16 DEF New
<1>18. Placed(c, l, n + 1)
  BY <1>6, <1>9, <1>10, <1>11, <1>17 DEF Placed, Registered
<1>19. /\ Earlier(c, (n + 1) + 1) = rows \cup ToSet(b)
       /\ VotedBy(c, l, (n + 1) + 1)
            = VotedBy(chain, lists, n + 1) \cup Gained(active, rows, b, Len(b))
  <2>1. /\ Earlier(c, (n + 1) + 1) = Earlier(c, n + 1) \cup ToSet(c[n + 1])
        /\ VotedBy(c, l, (n + 1) + 1) = VotedBy(c, l, n + 1) \cup New(c, l, n + 1)
    BY <1>16, NextHeight
  <2> QED BY <1>10, <1>15, <1>16, <1>17, <2>1
<1>20. Registered' = RegisteredIn(rows \cup ToSet(b))
  BY <1>3 DEF Registered, RegisteredIn
<1>21. Shape'
  <2>1. \A h \in 1 .. n + 1 : Placed(c, l, h)
    BY <1>4, <1>12, <1>14, <1>18
  <2>2. IsFiniteSet(rows \cup ToSet(b))
    <3>1. 0 \in 0 .. Len(b)
      BY <1>5
    <3>2. IsFiniteSet(ToSet(b))
      BY <1>5, <3>1, FirstFinite
    <3> QED BY <1>12, <3>2, FS_Union
  <2>3. D \cap Asset \subseteq RegisteredIn(rows \cup ToSet(b))
    <3>1. Gained(active, rows, b, Len(b)) \subseteq Issue \cup RegisteredIn(rows)
      BY DEF Gained, Passes
    <3>2. RegisteredIn(rows) \subseteq RegisteredIn(rows \cup ToSet(b))
      BY DEF RegisteredIn
    <3> QED BY <1>12, <3>1, <3>2, Constants DEF Registered
  <2>4. (\A h \in 1 .. Top : Placed(chain, lists, h))'
    BY <1>13, <2>1 DEF c, l
  <2>5. rows' = Earlier(chain, Top + 1)'
    <3>1. Earlier(chain, Top + 1)' = Earlier(c, Top' + 1)
      BY DEF Earlier, c
    <3> QED BY <1>3, <1>13, <1>19, <3>1
  <2>6. approved' \cap Asset \subseteq Registered'
    BY <1>3, <1>9, <1>20, <2>3
  <2> QED BY <1>3, <2>2, <2>4, <2>5, <2>6 DEF Shape
<1>22. z.quantity = s.quantity /\ z.balance = s.balance /\ z.minted = s.minted
  BY <1>3 DEF State
<1>23. X = rows' \cap Exercise
  <2>1. First(b, Len(b)) = ToSet(b)
    BY <1>5, FirstIs
  <2> QED BY <1>3, <2>1 DEF Spent
<1>24. Sound'
  <2> DEFINE N(h) == SolventTo(l[h], Earlier(c, h), VotedBy(c, l, h), c[h], Len(c[h]))
  <2>1. SUFFICES ASSUME ~miscounted'
                 PROVE  /\ approved' = VotedBy(chain, lists, Top + 1)'
                        /\ Books(State, approved, rows \cap Exercise)'
                        /\ \A h \in 1 .. n + 1 : N(h)
    <3>1. (\A h \in 1 .. Top : SolventTo(lists[h], Earlier(chain, h), VotedBy(chain, lists, h),
                                         chain[h], Len(chain[h])))'
          <=> \A h \in 1 .. n + 1 : N(h)
      <4>1. (\A h \in 1 .. Top : SolventTo(lists[h], Earlier(chain, h), VotedBy(chain, lists, h),
                                           chain[h], Len(chain[h])))'
            <=> \A h \in 1 .. Top' : N(h)
        BY DEF c, l
      <4> HIDE DEF N
      <4> QED BY <1>13, <4>1
    <3> HIDE DEF N
    <3> QED BY <3>1 DEF Sound
  <2>2. /\ approved = VotedBy(chain, lists, n + 1)
        /\ Books(State, approved, rows \cap Exercise)
        /\ \A h \in 1 .. n :
             SolventTo(lists[h], Earlier(chain, h), VotedBy(chain, lists, h), chain[h],
                       Len(chain[h]))
    BY <1>1, <1>3, <2>1 DEF Sound, n
  <2>3. Books(s, D, X) /\ SolventTo(active, rows, approved, b, Len(b))
    BY <1>9, <2>2
  <2>4. approved' = VotedBy(chain, lists, Top + 1)'
    <3>1. VotedBy(chain, lists, Top + 1)' = VotedBy(c, l, Top' + 1)
      BY DEF c, l
    <3> QED BY <1>3, <1>9, <1>13, <1>19, <2>2, <3>1
  <2>5. Books(State, approved, rows \cap Exercise)'
    <3>1. Books(z, approved', rows' \cap Exercise)
      <4> HIDE DEF z, X, D
      <4> QED BY <1>3, <1>9, <1>22, <1>23, <2>3 DEF Books
    <3> QED BY <3>1
  <2>6. N(n + 1)
    BY <1>10, <1>11, <1>15, <1>16, <1>17, <2>2, <2>3
  <2>7. ASSUME NEW h \in 1 .. n
        PROVE  N(h)
    <3>1. h \in 1 .. n + 1
      BY <1>4
    <3> QED BY <1>10, <1>11, <1>15, <2>2, <3>1
  <2> HIDE DEF N
  <2>8. \A h \in 1 .. n + 1 : h \in 1 .. n \/ h = n + 1
    BY <1>4
  <2> QED BY <2>4, <2>5, <2>6, <2>7, <2>8
<1>25. TypeOK'
  <2>1. /\ s.approved \subseteq Value /\ s.quantity \in [Asset -> Int]
        /\ s.balance \in [Asset -> Int] /\ s.cache \in [Asset -> Int]
        /\ \A a \in Asset : s.balance[a] >= 0
        /\ s.minted \in [issuer : Int, pool : Int, total : Int]
    BY <1>7, TypesAre
  <2>2. NoCount \in [Value -> Int]
    BY DEF NoCount
  <2>3. rows' \subseteq Transaction
    BY <1>3, <1>4, <1>5 DEF ToSet
  <2>4. c \in Seq(Block) /\ l \in Seq(Lists) /\ Len(l) = Top'
    BY <1>10, <1>11, <1>13
  <2> QED BY <1>3, <1>8, <2>1, <2>2, <2>3, <2>4 DEF TypeOK, c, l
<1>26. CacheReflectsTables'
  BY <1>1, <1>3, <1>9 DEF CacheReflectsTables
<1> QED BY <1>21, <1>24, <1>25, <1>26 DEF AssetsInv

\* A step that leaves the chain and the tables alone keeps what is said of them.
LEMMA TablesKept ==
  ASSUME AssetsInv,
         UNCHANGED <<chain, rows, approved, quantity, balance, minted, lists, miscounted>>
  PROVE  Shape' /\ Sound'
<1>1. Shape /\ Sound
  BY DEF AssetsInv
<1>2. Shape'
  BY <1>1 DEF Shape, Top, Registered
<1>3. Books(State, approved, rows \cap Exercise) <=> Books(State', approved, rows \cap Exercise)
  <2>1. Same(State, State')
    BY DEF Same, State
  <2> QED BY <2>1, BooksSame
<1>4. Sound'
  BY <1>1, <1>3 DEF Sound, Top
<1> QED BY <1>2, <1>4

\* A block that fails keeps the invariant.
LEMMA FailKeeps ==
  ASSUME AssetsInv, NEW b \in Block, NEW s,
         s = FoldLeft(Apply, [State EXCEPT !.memCount = NoCount], b),
         cache' = saved, memCount' = s.memCount, drifted' = (drifted \/ saved # cache),
         UNCHANGED <<chain, rows, approved, quantity, balance, minted, saved, active, lists,
                     miscounted>>
  PROVE  AssetsInv'
<1>1. TypeOK /\ CacheReflectsTables
  BY DEF AssetsInv
<1>2. Shape' /\ Sound'
  BY TablesKept
<1>3. s.memCount \in [Value -> Int]
  <2>1. State \in States /\ b \in Seq(Transaction)
    BY <1>1, StateIs, Constants
  <2>2. s \in States
    BY <2>1, ApplyRun
  <2> QED BY <2>2 DEF States
<1>4. TypeOK'
  BY <1>1, <1>3 DEF TypeOK, Top
<1>5. drifted \in BOOLEAN /\ drifted' \in BOOLEAN
  BY <1>1 DEF TypeOK
<1>6. ~drifted' => ~drifted /\ saved = cache
  <2>1. drifted' = (drifted \/ saved # cache)
    OBVIOUS
  <2> QED BY ONLY <2>1, Zenon
<1>7. CacheReflectsTables'
  BY <1>1, <1>6 DEF CacheReflectsTables
<1> QED BY <1>2, <1>4, <1>7 DEF AssetsInv

\* Another list and a restart keep the invariant.
LEMMA OthersKeep ==
  ASSUME AssetsInv
  PROVE  /\ \A l \in Lists : NewList(l) => AssetsInv'
         /\ Restart => AssetsInv'
         /\ UNCHANGED vars => AssetsInv'
<1>1. TypeOK /\ CacheReflectsTables
  BY DEF AssetsInv
<1>2. ASSUME NEW l \in Lists, NewList(l)
      PROVE  AssetsInv'
  <2>1. /\ active' = l
        /\ UNCHANGED <<chain, rows, approved, quantity, balance, minted, cache, saved, memCount,
                       lists, miscounted, drifted>>
    BY <1>2 DEF NewList
  <2>2. Shape' /\ Sound'
    BY <2>1, TablesKept
  <2>3. TypeOK' /\ CacheReflectsTables'
    BY <1>1, <2>1 DEF TypeOK, Top, CacheReflectsTables
  <2> QED BY <2>2, <2>3 DEF AssetsInv
<1>3. ASSUME Restart
      PROVE  AssetsInv'
  <2>1. /\ memCount' = NoCount /\ cache' = balance /\ saved' = balance /\ drifted' = FALSE
        /\ UNCHANGED <<chain, rows, approved, quantity, balance, minted, active, lists,
                       miscounted>>
    BY <1>3 DEF Restart
  <2>2. Shape' /\ Sound'
    BY <2>1, TablesKept
  <2>3. NoCount \in [Value -> Int]
    BY DEF NoCount
  <2>4. TypeOK' /\ CacheReflectsTables'
    BY <1>1, <2>1, <2>3 DEF TypeOK, Top, CacheReflectsTables
  <2> QED BY <2>2, <2>4 DEF AssetsInv
<1>4. ASSUME UNCHANGED vars
      PROVE  AssetsInv'
  <2>1. UNCHANGED <<chain, rows, approved, quantity, balance, minted, cache, saved, memCount,
                    active, lists, miscounted, drifted>>
    BY <1>4 DEF vars
  <2>2. Shape' /\ Sound'
    BY <2>1, TablesKept
  <2>3. TypeOK' /\ CacheReflectsTables'
    BY <1>1, <2>1 DEF TypeOK, Top, CacheReflectsTables
  <2> QED BY <2>2, <2>3 DEF AssetsInv
<1> QED BY <1>2, <1>3, <1>4

-----------------------------------------------------------------------------
(* A block is popped *)

\* A and B are the same where a block has an approval, and then b does not tell them apart.
SameIn(A, B, b) == \A t \in ToSet(b) : t \in Approval => A = B
SameVotes(A, B, R, b) ==
  /\ PlacedIn(B, R, b)
  /\ \A q \in 0 .. Len(b) : Gained(B, R, b, q) = Gained(A, R, b, q)

\* Who is active is asked only where there is an approval.
LEMMA SameLists ==
  ASSUME NEW A, NEW B, NEW R, NEW b, PlacedIn(A, R, b), SameIn(A, B, b)
  PROVE  SameVotes(A, B, R, b)
<1>1. \A t \in ToSet(b) : t \in Approval => A = B
  BY DEF SameIn
<1>2. PlacedIn(B, R, b)
  BY <1>1 DEF PlacedIn
<1>3. ASSUME NEW q \in 0 .. Len(b)
      PROVE  Gained(B, R, b, q) = Gained(A, R, b, q)
  <2>1. \A p \in 1 .. q : b[p] \in ToSet(b)
    BY DEF PlacedIn, ToSet
  <2>2. \A p \in 1 .. q : \A v : Passes(B, R, b, v, p) <=> Passes(A, R, b, v, p)
    BY <1>1, <2>1 DEF Passes
  <2> QED BY <2>2 DEF Gained
<1> QED BY <1>2, <1>3 DEF SameVotes

\* The block at the top can be undone, if nothing of it was counted and the delegates
\* who are active were so whenever its values were approved.
Undoable ==
  \A t \in ToSet(chain[Top]) : t \in Approval =>
    /\ memCount[t.value] = 0
    /\ \A h \in 1 .. Top : Approvals(ToSet(chain[h]), t.value) # {} => lists[h] = active

\* What was sound can be undone.
LEMMA TopIsReady ==
  ASSUME AssetsInv, ~miscounted, Top # 0, Undoable
  PROVE  UndoReady(chain[Top], Earlier(chain, Top), VotedBy(chain, lists, Top))
<1> DEFINE n == Top
           b == chain[n]
           R == Earlier(chain, n)
           D == VotedBy(chain, lists, n)
           A == lists[n]
           k == Gained(active, R, b, Len(b))
<1>1. TypeOK /\ Shape /\ Sound
  BY DEF AssetsInv
<1>2. n \in Nat \ {0} /\ n \in 1 .. n /\ b \in Seq(Transaction)
  BY <1>1, ChainIs
<1>3. /\ \A h \in 1 .. n : Placed(chain, lists, h)
      /\ rows = Earlier(chain, n + 1)
  BY <1>1 DEF Shape
<1>4. /\ approved = VotedBy(chain, lists, n + 1)
      /\ Books(State, approved, rows \cap Exercise)
      /\ \A h \in 1 .. n :
           SolventTo(lists[h], Earlier(chain, h), VotedBy(chain, lists, h), chain[h],
                     Len(chain[h]))
  BY <1>1 DEF Sound
<1>5. \A t \in ToSet(b) : t \in Approval =>
        /\ memCount[t.value] = 0
        /\ \A h \in 1 .. n : Approvals(ToSet(chain[h]), t.value) # {} => lists[h] = active
  BY DEF Undoable
<1> HIDE DEF n
<1>6. PlacedIn(A, R, b) /\ \A i \in Issue : i \in New(chain, lists, n) => RowOf(i) \in R
  BY <1>2, <1>3 DEF Placed
<1>7. \A t \in ToSet(b) : t \in Approval => A = active
  <2>1. ASSUME NEW t \in ToSet(b), t \in Approval
        PROVE  A = active
    <3>1. t \in Approvals(ToSet(b), t.value)
      BY <2>1 DEF Approvals, Approval
    <3> QED BY <1>2, <1>5, <2>1, <3>1
  <2> QED BY <2>1
<1> DEFINE m == Len(b)
<1>8. m \in Nat /\ m \in 0 .. m
  BY <1>2
<1> HIDE DEF A, R, b
<1>9. PlacedIn(active, R, b) /\ \A q \in 0 .. m : Gained(active, R, b, q) = Gained(A, R, b, q)
  <2>1. PlacedIn(A, R, b) /\ SameIn(A, active, b)
    BY <1>6, <1>7 DEF SameIn
  <2>2. SameVotes(A, active, R, b)
    BY <2>1, SameLists
  <2> QED BY <2>2 DEF SameVotes
<1>10. k = New(chain, lists, n)
  BY <1>8, <1>9 DEF New, A, R, b
<1>11. rows = R \cup ToSet(b) /\ approved = D \cup k
  <2>1. /\ Earlier(chain, n + 1) = Earlier(chain, n) \cup ToSet(chain[n])
        /\ VotedBy(chain, lists, n + 1) = VotedBy(chain, lists, n) \cup New(chain, lists, n)
    BY <1>2, NextHeight
  <2> QED BY <1>3, <1>4, <1>10, <2>1 DEF R, b
<1>12. /\ Approved \subseteq D /\ D \cap Asset \subseteq RegisteredIn(R)
  <2>1. \A h \in 1 .. n - 1 : Placed(chain, lists, h)
    BY <1>2, <1>3
  <2>2. n \in Nat
    BY <1>2
  <2> QED BY <2>1, <2>2, VotedRows DEF R
<1>13. SolventTo(active, R, D, b, m)
  <2>1. SolventTo(A, R, D, b, m)
    BY <1>2, <1>4 DEF A, R, b
  <2> HIDE DEF D, m
  <2> QED BY <1>9, <2>1 DEF SolventTo
<1>14. \A i \in Issue : i \in k => RowOf(i) \in rows
  BY <1>6, <1>10, <1>11
<1>15. ASSUME NEW v \in k, v \notin Approved, v \in D
       PROVE  FALSE
  <2>1. PICK h \in 1 .. n - 1 : v \in New(chain, lists, h)
    BY <1>15 DEF VotedBy
  <2>2. h \in 1 .. n /\ Placed(chain, lists, h)
    BY <1>2, <1>3
  <2> DEFINE Q == Earlier(chain, h)
             a == chain[h]
             B == lists[h]
  <2>3. v \in Gained(B, Q, a, Len(a)) /\ PlacedIn(B, Q, a)
    BY <2>1, <2>2 DEF New, Placed
  <2>4. PICK p \in 1 .. Len(a) : a[p] \in Approval /\ a[p].value = v
    BY <2>3 DEF Gained, Passes
  <2>5. a[p] \in Approvals(ToSet(a), v)
    BY <2>3, <2>4 DEF Approvals, Approval, PlacedIn, ToSet
  <2>6. PICK q \in 1 .. Len(b) : b[q] \in Approval /\ b[q].value = v
    BY <1>15 DEF Gained, Passes
  <2>7. b[q] \in ToSet(b)
    BY <1>2, <2>6 DEF ToSet
  <2>8. B = active
    BY <1>5, <2>2, <2>5, <2>6, <2>7 DEF b
  <2> HIDE DEF k, B
  <2>9. v \in Gained(active, Earlier(chain, h), chain[h], Len(chain[h]))
        /\ PlacedIn(active, Earlier(chain, h), chain[h])
    BY <2>3, <2>8
  <2>10. v \in Gained(active, Earlier(chain, n), chain[n], Len(chain[n]))
         /\ PlacedIn(active, Earlier(chain, n), chain[n])
    BY <1>9, <1>15 DEF k, R, b
  <2> QED BY <1>2, <2>9, <2>10, Once
<1>16. \A t \in ToSet(b) : t \in Approval => memCount[t.value] = 0
  BY <1>5 DEF b
<1>17. UndoReady(b, R, D)
  BY <1>4, <1>9, <1>11, <1>12, <1>13, <1>14, <1>15, <1>16 DEF UndoReady
<1> QED BY <1>17 DEF b, R, n

\* What a block registers and issues.
Brought(b) == {b[i].asset : i \in {j \in DOMAIN b : b[j].type = "asset"}}
                \cup {b[i].id : i \in {j \in DOMAIN b : b[j].type = "issue"}}

\* It is what the rows of the block are of.
LEMMA BroughtIs ==
  ASSUME NEW b \in Seq(Transaction)
  PROVE  /\ \A a \in Asset : a \in Brought(b) <=> [type |-> "asset", asset |-> a] \in ToSet(b)
         /\ \A i \in Issue : i \in Brought(b) <=> RowOf(i) \in ToSet(b)
         /\ Brought(b) \subseteq Value
<1>1. Asset \cap Issue = {}
  BY Constants
<1>2. \A j \in DOMAIN b : b[j] \in Transaction
  OBVIOUS
<1>3. ASSUME NEW j \in DOMAIN b
      PROVE  /\ b[j].type = "asset" => /\ b[j].asset \in Asset
                                       /\ b[j] = [type |-> "asset", asset |-> b[j].asset]
             /\ b[j].type = "issue" => b[j].id \in Issue /\ b[j] = RowOf(b[j].id)
  <2> DEFINE t == b[j]
  <2>1. t \in Transaction
    BY <1>2
  <2> HIDE DEF t
  <2>2. /\ t.type = "asset" => t.asset \in Asset /\ t = [type |-> "asset", asset |-> t.asset]
        /\ t.type = "issue" => t.id \in Issue /\ t = RowOf(t.id)
    BY <2>1, Types DEF RowOf
  <2> QED BY <2>2 DEF t
<1>4. /\ \A a : [type |-> "asset", asset |-> a].type = "asset"
      /\ \A a : [type |-> "asset", asset |-> a].asset = a
      /\ \A i : RowOf(i).type = "issue" /\ RowOf(i).id = i
  BY DEF RowOf
<1>5. \A a \in Asset : a \in Brought(b) <=> [type |-> "asset", asset |-> a] \in ToSet(b)
  <2>1. ASSUME NEW a \in Asset, a \in Brought(b)
        PROVE  [type |-> "asset", asset |-> a] \in ToSet(b)
    <3>1. PICK j \in DOMAIN b : \/ b[j].type = "asset" /\ b[j].asset = a
                                \/ b[j].type = "issue" /\ b[j].id = a
      BY <2>1 DEF Brought
    <3>2. b[j].type = "asset" /\ b[j].asset = a
      BY <1>1, <1>3, <3>1
    <3> QED BY <1>3, <3>2 DEF ToSet
  <2>2. ASSUME NEW a \in Asset, [type |-> "asset", asset |-> a] \in ToSet(b)
        PROVE  a \in Brought(b)
    <3>1. PICK j \in DOMAIN b : b[j] = [type |-> "asset", asset |-> a]
      BY <2>2 DEF ToSet
    <3> QED BY <1>4, <3>1 DEF Brought
  <2> QED BY <2>1, <2>2
<1>6. \A i \in Issue : i \in Brought(b) <=> RowOf(i) \in ToSet(b)
  <2>1. ASSUME NEW i \in Issue, i \in Brought(b)
        PROVE  RowOf(i) \in ToSet(b)
    <3>1. PICK j \in DOMAIN b : \/ b[j].type = "asset" /\ b[j].asset = i
                                \/ b[j].type = "issue" /\ b[j].id = i
      BY <2>1 DEF Brought
    <3>2. b[j].type = "issue" /\ b[j].id = i
      BY <1>1, <1>3, <3>1
    <3> QED BY <1>3, <3>2 DEF ToSet
  <2>2. ASSUME NEW i \in Issue, RowOf(i) \in ToSet(b)
        PROVE  i \in Brought(b)
    <3>1. PICK j \in DOMAIN b : b[j] = RowOf(i)
      BY <2>2 DEF ToSet
    <3> QED BY <1>4, <3>1 DEF Brought
  <2> QED BY <2>1, <2>2
<1>7. Brought(b) \subseteq Value
  BY <1>3 DEF Brought, Value
<1> QED BY <1>5, <1>6, <1>7

\* The issues of an asset that is not registered before height n, and what was
\* exercised of it, are nothing.
LEMMA NothingOf ==
  ASSUME NEW n \in Nat, \A h \in 1 .. n - 1 : Placed(chain, lists, h),
         NEW a \in Asset, a \notin RegisteredIn(Earlier(chain, n)),
         IsFiniteSet(Earlier(chain, n))
  PROVE  Qty(VotedBy(chain, lists, n), Earlier(chain, n) \cap Exercise, a) = 0
<1> DEFINE R == Earlier(chain, n)
           D == VotedBy(chain, lists, n)
           X == R \cap Exercise
           f == WorthOf(X)
<1>1. IssuesOf(D, {a}) = {}
  <2>1. \A i \in Issue : i \in D => Currency[i] \in RegisteredIn(R)
    BY VotedRows, RowsAssets
  <2> HIDE DEF D, R
  <2> QED BY <2>1 DEF IssuesOf, R
<1>2. {t \in X : t.asset = a} = {}
  BY RowsAssets
<1>3. IsFiniteSet(X) /\ f \in [X -> Int]
  <2>1. \A t \in X : t.amount \in Int
    BY DEF Exercise
  <2> QED BY <2>1, FS_Intersection DEF WorthOf
<1>4. IsFiniteSet(Issue) /\ Amount \in [Issue -> Int]
  BY Constants
<1> HIDE DEF X, f, D
<1>5. Total(f, {}) = 0 /\ Total(Amount, {}) = 0
  BY <1>3, <1>4, TotalMore
<1>6. Qty(D, X, a) = 0
  <2>1. Taken(X, a) = 0
    BY <1>2, <1>5 DEF Taken, f
  <2>2. Total(Amount, IssuesOf(D, {a})) = 0
    BY <1>1, <1>5
  <2> QED BY <2>1, <2>2 DEF Qty
<1> QED BY <1>6 DEF D, X

\* The block at the top is popped, and its undo makes s of the tables.
Popped(s) ==
  LET b == chain[Top]
  IN  /\ chain # <<>> /\ s = FoldLeft(Undo, State, Reverse(b))
      /\ chain' = Front(chain) /\ lists' = Front(lists) /\ rows' = rows \ ToSet(b)
      /\ approved' = s.approved \ Brought(b)
      /\ quantity' = [a \in Asset |-> IF a \in Brought(b) THEN 0 ELSE s.quantity[a]]
      /\ balance' = s.balance /\ minted' = s.minted /\ cache' = s.cache
      /\ memCount' = s.memCount /\ saved' = saved /\ active' = active
      /\ {miscounted', drifted'} \subseteq BOOLEAN
      /\ ~miscounted' => ~miscounted /\ Undoable /\ Approved \subseteq s.approved
      /\ ~drifted' => ~drifted /\ \A i \in Issue :
                        i \in approved \ s.approved => Currency[i] \in ChainLevel

\* That is what popLastBlock does.
LEMMA PopIs ==
  ASSUME TypeOK, PopBlock
  PROVE  \E s : Popped(s)
<1> DEFINE b == chain[Top]
           s == Undone(b)
           values == {b[i].value : i \in {j \in DOMAIN b : b[j].type = "approval"}}
           counted == \E v \in values :
                        \/ memCount[v] # 0
                        \/ \E h \in 1 .. Top : /\ Approvals(ToSet(chain[h]), v) # {}
                                               /\ lists[h] # active
           unset == ~ Approved \subseteq s.approved
           kept == \E i \in Issue : i \in approved \ s.approved /\ Currency[i] \notin ChainLevel
<1>1. /\ chain # <<>> /\ chain' = Front(chain) /\ lists' = Front(lists)
      /\ rows' = rows \ ToSet(b) /\ approved' = s.approved \ Brought(b)
      /\ quantity' = [a \in Asset |-> IF a \in Brought(b) THEN 0 ELSE s.quantity[a]]
      /\ balance' = s.balance /\ minted' = s.minted /\ cache' = s.cache
      /\ memCount' = s.memCount /\ saved' = saved /\ active' = active
  BY DEF PopBlock, Brought
<1>2. miscounted' = (miscounted \/ counted \/ unset) /\ drifted' = (drifted \/ kept)
  BY DEF PopBlock
<1>3. s = FoldLeft(Undo, State, Reverse(b))
  BY DEF Undone
<1>4. {miscounted, drifted} \subseteq BOOLEAN
  BY DEF TypeOK
<1> HIDE DEF s
<1>5. ~counted => Undoable
  <2>1. ASSUME ~counted, NEW t \in ToSet(b), t \in Approval
        PROVE  /\ memCount[t.value] = 0
               /\ \A h \in 1 .. Top : Approvals(ToSet(chain[h]), t.value) # {} => lists[h] = active
    <3>1. PICK j \in DOMAIN b : b[j] = t
      BY <2>1 DEF ToSet
    <3>2. t.type = "approval"
      BY <2>1 DEF Approval
    <3>3. t.value \in values
      BY <3>1, <3>2
    <3> HIDE DEF values
    <3> QED BY <2>1, <3>3
  <2> HIDE DEF counted
  <2> QED BY <2>1 DEF Undoable
<1>6. ~kept => \A i \in Issue : i \in approved \ s.approved => Currency[i] \in ChainLevel
  OBVIOUS
<1> HIDE DEF counted, unset, kept
<1>7. /\ ~miscounted' => ~miscounted /\ ~counted /\ ~unset
      /\ ~drifted' => ~drifted /\ ~kept
  BY ONLY <1>2, Zenon
<1>8. miscounted' \in BOOLEAN /\ drifted' \in BOOLEAN
  BY ONLY <1>2, Zenon
<1>9. ~unset => Approved \subseteq s.approved
  BY DEF unset
<1>10. Popped(s)
  BY <1>1, <1>3, <1>5, <1>6, <1>7, <1>8, <1>9 DEF Popped
<1> QED BY <1>10

\* A block that is popped keeps the invariant.
LEMMA PopKeeps ==
  ASSUME AssetsInv, NEW s, Popped(s)
  PROVE  AssetsInv'
<1> DEFINE n == Top
           b == chain[n]
           c == chain'
           l == lists'
           R == Earlier(chain, n)
           D == VotedBy(chain, lists, n)
           z == State'
<1>1. TypeOK /\ Shape /\ Sound /\ CacheReflectsTables
  BY DEF AssetsInv
<1>2. /\ chain # <<>> /\ s = FoldLeft(Undo, State, Reverse(b))
      /\ c = Front(chain) /\ l = Front(lists) /\ rows' = rows \ ToSet(b)
      /\ approved' = s.approved \ Brought(b)
      /\ quantity' = [a \in Asset |-> IF a \in Brought(b) THEN 0 ELSE s.quantity[a]]
      /\ balance' = s.balance /\ minted' = s.minted /\ cache' = s.cache
      /\ memCount' = s.memCount /\ saved' = saved /\ active' = active
      /\ {miscounted', drifted'} \subseteq BOOLEAN
      /\ ~miscounted' => ~miscounted /\ Undoable /\ Approved \subseteq s.approved
      /\ ~drifted' => ~drifted /\ \A i \in Issue :
                        i \in approved \ s.approved => Currency[i] \in ChainLevel
  BY DEF Popped
<1>3. /\ n \in Nat /\ chain \in Seq(Block) /\ lists \in Seq(Lists) /\ Len(lists) = n
      /\ Len(chain) = n /\ rows \subseteq Transaction
      /\ \A h \in 1 .. n : chain[h] \in Seq(Transaction)
  BY <1>1, ChainIs
<1>4. n # 0 /\ n - 1 \in Nat /\ n \in 1 .. n /\ (n - 1) + 1 = n
  BY <1>2, <1>3
<1>5. /\ active \in Lists /\ saved \in [Asset -> Int]
  BY <1>1 DEF TypeOK
<1>6. State \in States /\ b \in Seq(Transaction)
  BY <1>1, <1>3, <1>4, StateIs
<1>7. /\ s \in States /\ s.approved \subseteq approved
      /\ UndoReady(b, R, D) => UndoneTo(b, R, D, 0, s)
  BY <1>2, <1>6, UndoRun
<1>8. /\ \A h \in 1 .. n : Placed(chain, lists, h)
      /\ rows = Earlier(chain, n + 1) /\ IsFiniteSet(rows)
      /\ approved \cap Asset \subseteq Registered
  BY <1>1 DEF Shape
<1>9. /\ c \in Seq(Block) /\ Len(c) = n - 1 /\ \A k \in 1 .. n - 1 : c[k] = chain[k]
  <2>1. c = SubSeq(chain, 1, n - 1)
    BY <1>2, <1>3 DEF Front
  <2>2. n - 1 \in 0 .. Len(chain)
    BY <1>3, <1>4
  <2> DEFINE k == n - 1
  <2>3. c = SubSeq(chain, 1, k) /\ k \in 0 .. Len(chain)
    BY <2>1, <2>2
  <2> HIDE DEF c, n, k
  <2>4. c \in Seq(Block) /\ Len(c) = k /\ \A i \in 1 .. k : c[i] = chain[i]
    BY <1>3, <2>3, PrefixIs
  <2> QED BY <2>4 DEF k
<1>10. /\ l \in Seq(Lists) /\ Len(l) = n - 1 /\ \A k \in 1 .. n - 1 : l[k] = lists[k]
  <2>1. l = SubSeq(lists, 1, n - 1)
    BY <1>2, <1>3 DEF Front
  <2>2. n - 1 \in 0 .. Len(lists)
    BY <1>3, <1>4
  <2> DEFINE k == n - 1
  <2>3. l = SubSeq(lists, 1, k) /\ k \in 0 .. Len(lists)
    BY <2>1, <2>2
  <2> HIDE DEF l, n, k
  <2>4. l \in Seq(Lists) /\ Len(l) = k /\ \A i \in 1 .. k : l[i] = lists[i]
    BY <1>3, <2>3, PrefixIs
  <2> QED BY <2>4 DEF k
<1>11. Top' = n - 1
  <2>1. Top' = Len(c)
    BY DEF Top
  <2> HIDE DEF c, n
  <2> QED BY <1>9, <2>1
<1>12. \A h \in 1 .. n - 1 : h \in 1 .. n /\ Placed(chain, lists, h)
  BY <1>3, <1>8
<1>13. Placed(chain, lists, n)
  BY <1>4, <1>8
<1> HIDE DEF n, c, l, z
<1>14. /\ \A h \in 1 .. n : Earlier(c, h) = Earlier(chain, h)
                           /\ VotedBy(c, l, h) = VotedBy(chain, lists, h)
       /\ \A h \in 1 .. n - 1 : Placed(c, l, h)
  <2> DEFINE k == n - 1
  <2>1. k \in Nat /\ k + 1 = n
    BY <1>4
  <2>2. Agree(chain, lists, c, l, k)
    BY <1>9, <1>10 DEF Agree
  <2>3. \A h \in 1 .. k : Placed(chain, lists, h)
    BY <1>12
  <2> HIDE DEF k
  <2>4. /\ \A h \in 1 .. k + 1 : Alike(chain, lists, c, l, h)
        /\ \A h \in 1 .. k : Placed(chain, lists, h) => Placed(c, l, h)
    BY <2>1, <2>2, AgreeIs
  <2>5. \A h \in 1 .. k : Placed(c, l, h)
    BY <2>3, <2>4
  <2> QED BY <2>1, <2>4, <2>5 DEF Alike, k
<1>15. rows = R \cup ToSet(b) /\ \A t \in ToSet(b) : t \notin R
  <2>1. Earlier(chain, n + 1) = Earlier(chain, n) \cup ToSet(chain[n])
    BY <1>3, <1>4, NextHeight
  <2> QED BY <1>8, <1>13, <2>1 DEF Placed, PlacedIn
<1>16. rows' = R /\ IsFiniteSet(R)
  <2>1. rows' = R
    BY <1>2, <1>15
  <2>2. R \in SUBSET rows
    BY <1>15
  <2> HIDE DEF R
  <2> QED BY <1>8, <2>1, <2>2, FS_Subset
<1>17. Earlier(chain, Top + 1)' = R /\ VotedBy(chain, lists, Top + 1)' = D
  <2>1. /\ Earlier(chain, Top + 1)' = Earlier(c, Top' + 1)
        /\ VotedBy(chain, lists, Top + 1)' = VotedBy(c, l, Top' + 1)
    BY DEF Earlier, c, l
  <2>2. Top' + 1 = n
    BY <1>4, <1>11
  <2> QED BY <1>4, <1>14, <2>1, <2>2
<1>18. /\ \A a \in Asset : a \in Brought(b) <=> [type |-> "asset", asset |-> a] \in ToSet(b)
       /\ \A i \in Issue : i \in Brought(b) <=> RowOf(i) \in ToSet(b)
       /\ Brought(b) \subseteq Value
  BY <1>6, BroughtIs
<1>19. /\ Approved \subseteq D /\ D \cap Asset \subseteq RegisteredIn(R)
       /\ \A i \in Issue : i \in D => RowOf(i) \in R
  BY <1>3, <1>12, VotedRows
<1>20. Registered' = RegisteredIn(R)
  BY <1>16 DEF Registered, RegisteredIn
<1>21. Shape'
  <2>1. (\A h \in 1 .. Top : Placed(chain, lists, h))'
    BY <1>11, <1>14 DEF c, l
  <2>2. approved' \cap Asset \subseteq Registered'
    <3>1. ASSUME NEW a \in Asset, a \in approved'
          PROVE  a \in RegisteredIn(R)
      <4>1. a \in Registered /\ a \notin Brought(b)
        BY <1>2, <1>7, <1>8, <3>1
      <4>2. [type |-> "asset", asset |-> a] \in rows
        BY <4>1 DEF Registered, RegisteredIn
      <4>3. [type |-> "asset", asset |-> a] \in R
        BY <1>15, <1>18, <4>1, <4>2
      <4> QED BY <4>3 DEF RegisteredIn
    <3> QED BY <1>20, <3>1
  <2> QED BY <1>16, <1>17, <2>1, <2>2 DEF Shape
<1>22. ASSUME ~miscounted'
       PROVE  UndoneTo(b, R, D, 0, s) /\ s.approved = D
  <2>1. ~miscounted /\ Undoable /\ Approved \subseteq s.approved
    BY <1>2, <1>22
  <2>2. UndoReady(b, R, D)
    BY <1>4, <2>1, TopIsReady DEF n
  <2>3. UndoneTo(b, R, D, 0, s)
    BY <1>7, <2>2
  <2>4. Gained(active, R, b, 0) = {}
    BY DEF Gained
  <2>5. s.approved \ Approved = D \ Approved
    BY <2>3, <2>4 DEF UndoneTo
  <2> QED BY <1>19, <2>1, <2>3, <2>5
<1>23. ASSUME ~miscounted'
       PROVE  /\ approved' = D
              /\ Books(s, D, R \cap Exercise)
              /\ quantity' = s.quantity
  <2> DEFINE X == R \cap Exercise
  <2>1. approved' = D
    <3>1. ASSUME NEW v \in D
          PROVE  v \notin Brought(b)
      <4>1. v \in Asset => v \notin Brought(b)
        BY <1>15, <1>18, <1>19 DEF RegisteredIn
      <4>2. v \in Issue => v \notin Brought(b)
        BY <1>15, <1>18, <1>19
      <4> QED BY <1>18, <4>1, <4>2 DEF Value
    <3> QED BY <1>2, <1>22, <1>23, <3>1
  <2>2. Books(s, D, X)
    <3>1. First(b, 0) = {} /\ Gained(active, R, b, 0) = {}
      BY DEF First, Gained
    <3>2. Spent(R, b, 0) = X
      BY <3>1 DEF Spent
    <3>3. D \cup Gained(active, R, b, 0) = D
      BY <3>1
    <3> HIDE DEF X, D
    <3>4. Books(s, D \cup Gained(active, R, b, 0), Spent(R, b, 0))
      BY <1>22, <1>23 DEF UndoneTo
    <3> QED BY <3>2, <3>3, <3>4
  <2>3. ASSUME NEW a \in Asset, a \in Brought(b)
        PROVE  s.quantity[a] = 0
    <3>1. a \notin RegisteredIn(R)
      BY <1>15, <1>18, <2>3 DEF RegisteredIn
    <3>2. Qty(D, X, a) = 0
      BY <1>3, <1>12, <1>16, <3>1, NothingOf
    <3> HIDE DEF D, X
    <3> QED BY <2>2, <3>2 DEF Books
  <2>4. s.quantity \in [Asset -> Int]
    BY <1>7 DEF States
  <2>5. quantity' = s.quantity
    BY <1>2, <2>3, <2>4
  <2> QED BY <2>1, <2>2, <2>5
<1>24. Sound'
  <2> DEFINE N(h) == SolventTo(l[h], Earlier(c, h), VotedBy(c, l, h), c[h], Len(c[h]))
  <2>1. SUFFICES ASSUME ~miscounted'
                 PROVE  /\ approved' = VotedBy(chain, lists, Top + 1)'
                        /\ Books(State, approved, rows \cap Exercise)'
                        /\ \A h \in 1 .. n - 1 : N(h)
    <3>1. (\A h \in 1 .. Top : SolventTo(lists[h], Earlier(chain, h), VotedBy(chain, lists, h),
                                         chain[h], Len(chain[h])))'
          <=> \A h \in 1 .. n - 1 : N(h)
      <4>1. (\A h \in 1 .. Top : SolventTo(lists[h], Earlier(chain, h), VotedBy(chain, lists, h),
                                           chain[h], Len(chain[h])))'
            <=> \A h \in 1 .. Top' : N(h)
        BY DEF c, l
      <4> HIDE DEF N
      <4> QED BY <1>11, <4>1
    <3> HIDE DEF N
    <3> QED BY <3>1 DEF Sound
  <2>2. /\ approved' = D /\ Books(s, D, R \cap Exercise) /\ quantity' = s.quantity
    BY <1>23, <2>1
  <2>3. Books(State, approved, rows \cap Exercise)'
    <3>1. z.quantity = s.quantity /\ z.balance = s.balance /\ z.minted = s.minted
      BY <1>2, <2>2 DEF State, z
    <3>2. Books(z, approved', rows' \cap Exercise)
      <4> HIDE DEF D, R
      <4> QED BY <1>16, <2>2, <3>1 DEF Books
    <3> QED BY <3>2 DEF z
  <2>4. ASSUME NEW h \in 1 .. n - 1
        PROVE  N(h)
    <3>1. ~miscounted
      BY <1>2, <2>1
    <3>2. h \in 1 .. n
      BY <1>12
    <3>3. SolventTo(lists[h], Earlier(chain, h), VotedBy(chain, lists, h), chain[h],
                    Len(chain[h]))
      BY <1>1, <3>1, <3>2 DEF Sound, n
    <3> QED BY <1>9, <1>10, <1>14, <3>2, <3>3
  <2> HIDE DEF N
  <2> QED BY <1>17, <2>2, <2>3, <2>4
<1>25. TypeOK'
  <2>1. /\ s.approved \subseteq Value /\ s.quantity \in [Asset -> Int]
        /\ s.balance \in [Asset -> Int] /\ s.cache \in [Asset -> Int]
        /\ \A a \in Asset : s.balance[a] >= 0
        /\ s.minted \in [issuer : Int, pool : Int, total : Int]
        /\ s.memCount \in [Value -> Int]
    BY <1>7, TypesAre
  <2>2. quantity' \in [Asset -> Int]
    BY <1>2, <2>1
  <2>3. rows' \subseteq Transaction /\ approved' \subseteq Value
    BY <1>2, <1>3, <2>1
  <2>4. c \in Seq(Block) /\ l \in Seq(Lists) /\ Len(l) = Top'
    BY <1>9, <1>10, <1>11
  <2> QED BY <1>2, <1>5, <2>1, <2>2, <2>3, <2>4 DEF TypeOK, c, l
<1>26. CacheReflectsTables'
  <2>1. SUFFICES ASSUME ~drifted', ~miscounted'
                 PROVE  cache' = balance'
    BY DEF CacheReflectsTables
  <2>2. /\ ~drifted /\ ~miscounted
        /\ \A i \in Issue : i \in approved \ s.approved => Currency[i] \in ChainLevel
    BY <1>2, <2>1
  <2>3. cache = balance
    BY <1>1, <2>2 DEF CacheReflectsTables
  <2>4. UndoneTo(b, R, D, 0, s)
    BY <1>22, <2>1
  <2>5. s.cache = s.balance
    BY <2>2, <2>3, <2>4 DEF UndoneTo
  <2> QED BY <1>2, <2>5
<1> QED BY <1>21, <1>24, <1>25, <1>26 DEF AssetsInv

\* What a step does to what is approved, the books and the cache.
LEMMA AssetsStep ==
  ASSUME AssetsInv, [Next]_vars
  PROVE  AssetsInv'
<1>1. ASSUME NEW b \in Block, ApplyBlock(b)
      PROVE  AssetsInv'
  <2> DEFINE s == FoldLeft(Apply, [State EXCEPT !.memCount = NoCount], b)
  <2>1. /\ \A i \in DOMAIN b : Verified(b[i])
        /\ UNCHANGED <<active, pops, news, restarts, miscounted>>
    BY <1>1 DEF ApplyBlock
  <2>2. \/ /\ s.ok /\ ~Doubled(b) /\ Update(s)
           /\ chain' = Append(chain, b) /\ lists' = Append(lists, active)
           /\ rows' = rows \cup ToSet(b)
           /\ cache' = s.cache /\ saved' = s.cache
           /\ memCount' = NoCount /\ UNCHANGED <<fails, drifted>>
        \/ /\ cache' = saved /\ memCount' = s.memCount
           /\ drifted' = (drifted \/ saved # cache)
           /\ UNCHANGED <<chain, rows, approved, quantity, balance, minted, saved, lists>>
    BY <1>1 DEF ApplyBlock
  <2>3. s = FoldLeft(Apply, [State EXCEPT !.memCount = NoCount], b)
    OBVIOUS
  <2> HIDE DEF s
  <2>4. CASE /\ s.ok /\ ~Doubled(b) /\ Update(s)
             /\ chain' = Append(chain, b) /\ lists' = Append(lists, active)
             /\ rows' = rows \cup ToSet(b)
             /\ cache' = s.cache /\ saved' = s.cache
             /\ memCount' = NoCount /\ UNCHANGED <<fails, drifted>>
    <3>1. Appended(b, s)
      BY <2>1, <2>3, <2>4 DEF Appended
    <3> QED BY <3>1, AppendKeeps
  <2>5. CASE /\ cache' = saved /\ memCount' = s.memCount
             /\ drifted' = (drifted \/ saved # cache)
             /\ UNCHANGED <<chain, rows, approved, quantity, balance, minted, saved, lists>>
    BY <2>1, <2>3, <2>5, FailKeeps
  <2> QED BY <2>2, <2>4, <2>5
<1>2. ASSUME PopBlock
      PROVE  AssetsInv'
  <2>1. TypeOK
    BY DEF AssetsInv
  <2>2. PICK s : Popped(s)
    BY <1>2, <2>1, PopIs
  <2> QED BY <2>2, PopKeeps
<1>3. /\ \A l \in Lists : NewList(l) => AssetsInv'
      /\ Restart => AssetsInv'
      /\ UNCHANGED vars => AssetsInv'
  BY OthersKeep
<1> QED BY <1>1, <1>2, <1>3 DEF Next

\* The tables have the transactions of the chain, each after what it needs, and while
\* no approval is taken back with another count than it was given with: what is
\* approved is what the votes say, the books are those of what is approved and
\* exercised, and at each place of the chain there was enough of every asset.
THEOREM AssetsInvariance == Spec => []AssetsInv
<1>1. Init => AssetsInv
  BY AssetsStart
<1>2. AssetsInv /\ [Next]_vars => AssetsInv'
  BY AssetsStep
<1> QED BY <1>1, <1>2, PTL DEF Spec

-----------------------------------------------------------------------------
(* The properties *)

\* The votes that the properties count are those of the proofs.
LEMMA VotesAtIs ==
  ASSUME TypeOK, Shape, NEW h \in 1 .. Top, NEW p \in DOMAIN chain[h], NEW v
  PROVE  VotesAt(v, h, p) = At(lists[h], Earlier(chain, h), chain[h], v, p)
<1> DEFINE b == chain[h]
           A == lists[h]
           R == Earlier(chain, h)
           before == UNION {Approvals(ToSet(chain[k]), v) : k \in 1 .. h - 1}
           F == First(b, p)
           P == Approvals(F, v)
           Q == {t \in before : t.by \in A}
<1>1. b \in Seq(Transaction) /\ p \in 1 .. Len(b)
  BY ChainIs
<1>2. PlacedIn(A, R, b)
  BY DEF Shape, Placed
<1>3. ToSet(SubSeq(b, 1, p)) = F
  <2>1. /\ SubSeq(b, 1, p) \in Seq(Transaction) /\ Len(SubSeq(b, 1, p)) = p
        /\ \A i \in 1 .. p : SubSeq(b, 1, p)[i] = b[i]
    <3>1. p \in 0 .. Len(b)
      BY <1>1
    <3> HIDE DEF b
    <3> QED BY <1>1, <3>1, PrefixIs
  <2> DEFINE l == SubSeq(b, 1, p)
  <2>2. DOMAIN l = 1 .. p
    BY <2>1
  <2> HIDE DEF l, b
  <2> QED BY <2>1, <2>2 DEF ToSet, First, l
<1>4. VotesAt(v, h, p) = Cardinality(P) + Cardinality(Q)
  BY <1>3 DEF VotesAt
<1>5. F \subseteq ToSet(b)
  BY <1>1 DEF First, ToSet
<1>6. before = Approvals(R, v)
  <2>1. \A t \in Genesis : t.type # "approval"
    BY GenesisIs DEF Registration
  <2> QED BY <2>1 DEF Earlier, Approvals
<1>7. P \subseteq F /\ \A t \in P : t.by \in A
  <2>1. \A t \in ToSet(b) : t \in Transaction /\ (t \in Approval => t.by \in A)
    BY <1>1, <1>2 DEF PlacedIn, ToSet
  <2>2. \A t \in P : t \in ToSet(b) /\ t.type = "approval"
    BY <1>5 DEF Approvals
  <2>3. \A t \in P : t \in Approval
    BY <2>1, <2>2, Types
  <2> QED BY <2>1, <2>2, <2>3 DEF Approvals
<1>8. Votes(A, R \cup F, v) = P \cup Q
  <2> HIDE DEF P
  <2>1. P = Approvals(F, v)
    BY DEF P
  <2>2. Approvals(R \cup F, v) = Approvals(R, v) \cup P
    BY <2>1 DEF Approvals
  <2> HIDE DEF before, F, R, A
  <2> QED BY <1>6, <1>7, <2>2 DEF Votes
<1>9. P \cap Q = {}
  <2>1. Q \subseteq R
    BY <1>6 DEF Approvals
  <2>2. \A t \in F : t \notin R
    BY <1>2, <1>5 DEF PlacedIn
  <2> HIDE DEF P, Q, F, R
  <2> QED BY <1>7, <2>1, <2>2
<1>10. IsFiniteSet(R \cup F)
  <2>1. IsPlace(A, R, b, p)
    BY <1>1, <1>2, PlaceIs
  <2> QED BY <2>1 DEF IsPlace
<1>11. P \in SUBSET (R \cup F) /\ Q \in SUBSET (R \cup F)
  BY <1>6, <1>7 DEF Approvals
<1>12. At(A, R, b, v, p) = Cardinality(Votes(A, R \cup F, v))
  BY DEF At
<1> HIDE DEF P, Q, F, R, A, b
<1>13. IsFiniteSet(P) /\ IsFiniteSet(Q)
  BY <1>10, <1>11, FS_Subset
<1>14. Cardinality(P \cup Q) = Cardinality(P) + Cardinality(Q)
  <2>1. Cardinality(P) \in Nat /\ Cardinality(Q) \in Nat
    BY <1>13, FS_CardinalityType
  <2>2. Cardinality(P \cup Q) = Cardinality(P) + Cardinality(Q) - Cardinality(P \cap Q)
    BY <1>13, FS_Union
  <2>3. Cardinality(P \cap Q) = 0
    BY <1>9, FS_EmptySet
  <2> QED BY <2>1, <2>2, <2>3
<1>15. At(A, R, b, v, p) = VotesAt(v, h, p)
  BY <1>4, <1>8, <1>12, <1>14
<1> QED BY <1>15 DEF A, R, b

\* An asset or an issue is complete by the chain if its votes were.
LEMMA CompleteIs ==
  ASSUME TypeOK, Shape, NEW v \in Value
  PROVE  v \in Approved \/ Complete(v) <=> v \in VotedBy(chain, lists, Top + 1)
<1>1. \A h \in 1 .. Top : chain[h] \in Seq(Transaction)
  BY ChainIs
<1>2. Top \in Nat
  BY ChainIs
<1>3. ASSUME NEW h \in 1 .. Top
      PROVE  Exists(v, h) <=> v \in Issue \cup RegisteredIn(Earlier(chain, h))
  <2>1. RegisteredIn(Earlier(chain, h))
          = Approved \cup UNION {RegisteredIn(ToSet(chain[k])) : k \in 1 .. h - 1}
    <3>1. RegisteredIn(Genesis) = Approved
      BY GenesisIs
    <3>2. RegisteredIn(Earlier(chain, h))
            = RegisteredIn(Genesis) \cup UNION {RegisteredIn(ToSet(chain[k])) : k \in 1 .. h - 1}
      BY DEF RegisteredIn, Earlier
    <3> QED BY <3>1, <3>2
  <2> QED BY <2>1 DEF Exists
<1>4. ASSUME NEW h \in 1 .. Top, NEW p \in 1 .. Len(chain[h])
      PROVE  /\ chain[h][p] \in Approvals(ToSet(chain[h]), v)
             /\ Exists(v, h) /\ VotesAt(v, h, p) = Threshold
             <=> Passes(lists[h], Earlier(chain, h), chain[h], v, p)
  <2> DEFINE t == chain[h][p]
  <2>1. t \in Transaction /\ t \in ToSet(chain[h]) /\ p \in DOMAIN chain[h]
    BY <1>1 DEF ToSet
  <2>2. t.type = "approval" <=> t \in Approval
    BY <2>1, Types
  <2>3. t \in Approvals(ToSet(chain[h]), v) <=> t \in Approval /\ t.value = v
    <3> HIDE DEF t
    <3> QED BY <2>1, <2>2 DEF Approvals
  <2>4. VotesAt(v, h, p) = At(lists[h], Earlier(chain, h), chain[h], v, p)
    BY <2>1, VotesAtIs
  <2> QED BY <1>3, <2>3, <2>4 DEF Passes
<1>5. \A h \in 1 .. Top : DOMAIN chain[h] = 1 .. Len(chain[h])
  BY <1>1
<1>6. Complete(v) <=> \E h \in 1 .. Top : \E p \in 1 .. Len(chain[h]) :
                        Passes(lists[h], Earlier(chain, h), chain[h], v, p)
  BY <1>4, <1>5 DEF Complete
<1>7. Complete(v) <=> \E h \in 1 .. Top : v \in New(chain, lists, h)
  BY <1>6 DEF New, Gained
<1>8. 1 .. (Top + 1) - 1 = 1 .. Top
  BY <1>2
<1> QED BY <1>7, <1>8 DEF VotedBy

\* What is approved reflects the chain.
THEOREM ApprovalsSound == Spec => []ApprovalsReflectChain
<1>1. AssetsInv => ApprovalsReflectChain
  <2>1. SUFFICES ASSUME AssetsInv, ~miscounted, NEW v \in Value
                 PROVE  v \in approved <=> v \in Approved \/ Complete(v)
    BY DEF ApprovalsReflectChain
  <2>2. TypeOK /\ Shape /\ approved = VotedBy(chain, lists, Top + 1)
    BY <2>1 DEF AssetsInv, Sound
  <2> QED BY <2>2, CompleteIs
<1> QED BY <1>1, AssetsInvariance, PTL

\* What exists of each asset, and the ACC that was created, are those of the issues
\* that are approved, less what was exercised.
THEOREM SupplySound == Spec => []SupplyReflectsApprovals
<1>1. AssetsInv => SupplyReflectsApprovals
  <2>1. SUFFICES ASSUME AssetsInv, ~miscounted
                 PROVE  /\ \A a \in Asset :
                             /\ quantity[a] = Total(Amount, ApprovedOf({a})) - Exercised(a)
                             /\ balance[a] = quantity[a]
                        /\ minted.issuer = Total(Acc, ApprovedOf(ChainLevel))
                        /\ minted.pool = Total(LockedOf, ApprovedOf(ChainLevel))
                        /\ minted.total = minted.issuer + minted.pool
    BY DEF SupplyReflectsApprovals, AssetsInv
  <2> DEFINE X == rows \cap Exercise
  <2>2. Books(State, approved, X)
    BY <2>1 DEF AssetsInv, Sound
  <2>3. /\ State.quantity = quantity /\ State.balance = balance /\ State.minted = minted
    BY DEF State
  <2>4. \A S : ApprovedOf(S) = IssuesOf(approved, S)
    BY DEF ApprovedOf, IssuesOf
  <2>5. \A a : Exercised(a) = Taken(X, a)
    BY DEF Exercised, Taken, AmountOf, WorthOf
  <2> HIDE DEF X
  <2> QED BY <2>2, <2>3, <2>4, <2>5 DEF Books, Qty
<1> QED BY <1>1, AssetsInvariance, PTL

\* The cache reflects the tables.
THEOREM CacheSound == Spec => []CacheReflectsTables
<1>1. AssetsInv => CacheReflectsTables
  BY DEF AssetsInv
<1> QED BY <1>1, AssetsInvariance, PTL

=============================================================================
