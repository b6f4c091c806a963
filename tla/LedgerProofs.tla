---------------------------- MODULE LedgerProofs ----------------------------
(***************************************************************************)
(* That the balances of a node are those its chain and its pool amount to,  *)
(* that a transaction is paid for once, and that the pool can be forged, for *)
(* any transfers, accounts and funds.                                       *)
(***************************************************************************)
EXTENDS Ledger, ListsProofs

-----------------------------------------------------------------------------
(* Sums over transactions *)

\* The sums of what transfers cost in native coins.
LEMMA CostSums ==
  \E sum \in [SUBSET Tx -> Nat] :
     /\ sum[{}] = 0
     /\ \A P \in SUBSET Tx : \A x \in Tx \ P : sum[P \cup {x}] = sum[P] + Cost(x)
     /\ \A Q \in SUBSET Tx : \A P \in SUBSET Q : sum[P] <= sum[Q]
     /\ \A V \in SUBSET Tx : MapThenSumSet(Cost, V) = sum[V]
<1> DEFINE f == [t \in Tx |-> Cost(t)]
<1>1. f \in [Tx -> Nat] /\ IsFiniteSet(Tx)
  BY ConstantsAssumption DEF Cost
<1>2. \A x \in Tx : f[x] = Cost(x)
  OBVIOUS
<1> HIDE DEF f
<1>3. PICK sum \in [SUBSET Tx -> Nat] :
        /\ sum[{}] = 0
        /\ \A P \in SUBSET Tx : \A x \in Tx \ P : sum[P \cup {x}] = sum[P] + f[x]
        /\ \A Q \in SUBSET Tx : \A P \in SUBSET Q : sum[P] <= sum[Q]
        /\ \A V \in SUBSET Tx : sum[V] = (CHOOSE it : Computes(it, f, V))[V]
  BY <1>1, Sums
<1>4. ASSUME NEW V \in SUBSET Tx PROVE MapThenSumSet(Cost, V) = sum[V]
  <2> DEFINE Body(it) == [P \in SUBSET V |->
                IF P = {} THEN 0
                ELSE Cost(CHOOSE x \in P : TRUE) + it[P \ {CHOOSE x \in P : TRUE}]]
  <2>1. MapThenSumSet(Cost, V) = (CHOOSE it : it = Body(it))[V]
    BY DEF MapThenSumSet, MapThenFoldSet
  <2>2. ASSUME NEW it PROVE (it = Body(it)) <=> Computes(it, f, V)
    <3> DEFINE x(P) == CHOOSE x \in P : TRUE
               d(P) == IF P = {} THEN 0 ELSE Cost(x(P)) + it[P \ {x(P)}]
               e(P) == IF P = {} THEN 0 ELSE f[x(P)] + it[P \ {x(P)}]
    <3>1. \A P \in SUBSET V : d(P) = e(P)
      BY <1>2
    <3>2. /\ Body(it) = [P \in SUBSET V |-> d(P)]
          /\ Computes(it, f, V) <=> it = [P \in SUBSET V |-> e(P)]
      BY DEF Computes
    <3> HIDE DEF d, e, Body
    <3> QED BY <3>1, <3>2
  <2> HIDE DEF Body
  <2>3. (CHOOSE it : it = Body(it)) = (CHOOSE it : Computes(it, f, V))
    BY <2>2
  <2> QED BY <1>3, <2>1, <2>3
<1> QED BY <1>2, <1>3, <1>4

\* The sums of what they spend of the asset.
LEMMA SpendSums ==
  \E sum \in [SUBSET Tx -> Nat] :
     /\ sum[{}] = 0
     /\ \A P \in SUBSET Tx : \A x \in Tx \ P : sum[P \cup {x}] = sum[P] + Spend(x)
     /\ \A Q \in SUBSET Tx : \A P \in SUBSET Q : sum[P] <= sum[Q]
     /\ \A V \in SUBSET Tx : MapThenSumSet(Spend, V) = sum[V]
<1> DEFINE f == [t \in Tx |-> Spend(t)]
<1>1. f \in [Tx -> Nat] /\ IsFiniteSet(Tx)
  BY ConstantsAssumption DEF Spend
<1>2. \A x \in Tx : f[x] = Spend(x)
  OBVIOUS
<1> HIDE DEF f
<1>3. PICK sum \in [SUBSET Tx -> Nat] :
        /\ sum[{}] = 0
        /\ \A P \in SUBSET Tx : \A x \in Tx \ P : sum[P \cup {x}] = sum[P] + f[x]
        /\ \A Q \in SUBSET Tx : \A P \in SUBSET Q : sum[P] <= sum[Q]
        /\ \A V \in SUBSET Tx : sum[V] = (CHOOSE it : Computes(it, f, V))[V]
  BY <1>1, Sums
<1>4. ASSUME NEW V \in SUBSET Tx PROVE MapThenSumSet(Spend, V) = sum[V]
  <2> DEFINE Body(it) == [P \in SUBSET V |->
                IF P = {} THEN 0
                ELSE Spend(CHOOSE x \in P : TRUE) + it[P \ {CHOOSE x \in P : TRUE}]]
  <2>1. MapThenSumSet(Spend, V) = (CHOOSE it : it = Body(it))[V]
    BY DEF MapThenSumSet, MapThenFoldSet
  <2>2. ASSUME NEW it PROVE (it = Body(it)) <=> Computes(it, f, V)
    <3> DEFINE x(P) == CHOOSE x \in P : TRUE
               d(P) == IF P = {} THEN 0 ELSE Spend(x(P)) + it[P \ {x(P)}]
               e(P) == IF P = {} THEN 0 ELSE f[x(P)] + it[P \ {x(P)}]
    <3>1. \A P \in SUBSET V : d(P) = e(P)
      BY <1>2
    <3>2. /\ Body(it) = [P \in SUBSET V |-> d(P)]
          /\ Computes(it, f, V) <=> it = [P \in SUBSET V |-> e(P)]
      BY DEF Computes
    <3> HIDE DEF d, e, Body
    <3> QED BY <3>1, <3>2
  <2> HIDE DEF Body
  <2>3. (CHOOSE it : it = Body(it)) = (CHOOSE it : Computes(it, f, V))
    BY <2>2
  <2> QED BY <1>3, <2>1, <2>3
<1> QED BY <1>2, <1>3, <1>4

\* What t gives to its recipient.
Value(t) == Cost(t) - Fee

\* The sums of what they give to their recipients.
LEMMA ValueSums ==
  \E sum \in [SUBSET Tx -> Nat] :
     /\ sum[{}] = 0
     /\ \A P \in SUBSET Tx : \A x \in Tx \ P : sum[P \cup {x}] = sum[P] + Value(x)
     /\ \A Q \in SUBSET Tx : \A P \in SUBSET Q : sum[P] <= sum[Q]
     /\ \A V \in SUBSET Tx : MapThenSumSet(LAMBDA t : Cost(t) - Fee, V) = sum[V]
<1> DEFINE f == [t \in Tx |-> Value(t)]
<1>1. f \in [Tx -> Nat] /\ IsFiniteSet(Tx)
  BY ConstantsAssumption DEF Cost, Value
<1>2. \A x \in Tx : f[x] = Value(x)
  OBVIOUS
<1> HIDE DEF f
<1>3. PICK sum \in [SUBSET Tx -> Nat] :
        /\ sum[{}] = 0
        /\ \A P \in SUBSET Tx : \A x \in Tx \ P : sum[P \cup {x}] = sum[P] + f[x]
        /\ \A Q \in SUBSET Tx : \A P \in SUBSET Q : sum[P] <= sum[Q]
        /\ \A V \in SUBSET Tx : sum[V] = (CHOOSE it : Computes(it, f, V))[V]
  BY <1>1, Sums
<1>4. ASSUME NEW V \in SUBSET Tx PROVE MapThenSumSet(LAMBDA t : Cost(t) - Fee, V) = sum[V]
  <2> DEFINE Body(it) == [P \in SUBSET V |->
                IF P = {} THEN 0
                ELSE Value(CHOOSE x \in P : TRUE) + it[P \ {CHOOSE x \in P : TRUE}]]
  <2>1. MapThenSumSet(LAMBDA t : Cost(t) - Fee, V) = (CHOOSE it : it = Body(it))[V]
    BY DEF MapThenSumSet, MapThenFoldSet, Value
  <2>2. ASSUME NEW it PROVE (it = Body(it)) <=> Computes(it, f, V)
    <3> DEFINE x(P) == CHOOSE x \in P : TRUE
               d(P) == IF P = {} THEN 0 ELSE Value(x(P)) + it[P \ {x(P)}]
               e(P) == IF P = {} THEN 0 ELSE f[x(P)] + it[P \ {x(P)}]
    <3>1. \A P \in SUBSET V : d(P) = e(P)
      BY <1>2
    <3>2. /\ Body(it) = [P \in SUBSET V |-> d(P)]
          /\ Computes(it, f, V) <=> it = [P \in SUBSET V |-> e(P)]
      BY DEF Computes
    <3> HIDE DEF d, e, Body
    <3> QED BY <3>1, <3>2
  <2> HIDE DEF Body
  <2>3. (CHOOSE it : it = Body(it)) = (CHOOSE it : Computes(it, f, V))
    BY <2>2
  <2> QED BY <1>3, <2>1, <2>3
<1> QED BY <1>2, <1>3, <1>4

\* What t takes from a, and gives to a.
Pays(a, t) == IF t.sender = a THEN Cost(t) ELSE 0
Spends(a, t) == IF t.sender = a THEN Spend(t) ELSE 0
Receives(a, t) == IF t.recipient = a THEN Cost(t) - Fee ELSE 0
Gains(a, t) == IF t.recipient = a THEN Spend(t) ELSE 0

\* They are natural numbers.
LEMMA TransferTypes ==
  ASSUME NEW t \in Tx
  PROVE  /\ t.sender \in Account /\ t.recipient \in Account /\ t.sender # t.recipient
         /\ Cost(t) \in Nat /\ Spend(t) \in Nat /\ Fee \in Nat /\ Cost(t) - Fee \in Nat
         /\ ~t.asset => Spend(t) = 0
         /\ \A a \in Account : /\ Pays(a, t) \in Nat /\ Spends(a, t) \in Nat
                               /\ Receives(a, t) \in Nat /\ Gains(a, t) \in Nat
<1>1. /\ t.sender \in Account /\ t.recipient \in Account /\ t.sender # t.recipient
      /\ t.amount \in Nat /\ t.asset \in BOOLEAN /\ Fee \in Nat
  BY ConstantsAssumption
<1>2. /\ Cost(t) \in Nat /\ Spend(t) \in Nat /\ Cost(t) - Fee \in Nat
      /\ ~t.asset => Spend(t) = 0
  BY <1>1 DEF Cost, Spend
<1>3. \A a \in Account : /\ Pays(a, t) \in Nat /\ Spends(a, t) \in Nat
                          /\ Receives(a, t) \in Nat /\ Gains(a, t) \in Nat
  BY <1>2 DEF Pays, Spends, Receives, Gains
<1> QED BY <1>1, <1>2, <1>3

\* What an account pays for a set of transfers.
LEMMA SentByIs ==
  ASSUME NEW a \in Account
  PROVE  /\ SentBy(a, {}) = 0
         /\ \A S \in SUBSET Tx : SentBy(a, S) \in Nat
         /\ \A S \in SUBSET Tx : \A t \in Tx \ S : SentBy(a, S \cup {t}) = SentBy(a, S) + Pays(a, t)
         /\ \A S \in SUBSET Tx : \A P \in SUBSET S : SentBy(a, P) <= SentBy(a, S)
<1>1. PICK sum \in [SUBSET Tx -> Nat] :
     /\ sum[{}] = 0
     /\ \A P \in SUBSET Tx : \A x \in Tx \ P : sum[P \cup {x}] = sum[P] + Cost(x)
     /\ \A Q \in SUBSET Tx : \A P \in SUBSET Q : sum[P] <= sum[Q]
     /\ \A V \in SUBSET Tx : MapThenSumSet(Cost, V) = sum[V]
  BY CostSums
<1> DEFINE Of(S) == {t \in S : t.sender = a}
<1>2. \A S \in SUBSET Tx : SentBy(a, S) = sum[Of(S)]
  BY <1>1 DEF SentBy
<1>3. ASSUME NEW S \in SUBSET Tx, NEW t \in Tx \ S
      PROVE  SentBy(a, S \cup {t}) = SentBy(a, S) + Pays(a, t)
  <2>1. S \cup {t} \in SUBSET Tx /\ Of(S) \in SUBSET Tx /\ t \notin Of(S)
    OBVIOUS
  <2>2. CASE t.sender = a
    <3>1. Of(S \cup {t}) = Of(S) \cup {t}
      BY <2>2
    <3> HIDE DEF Of
    <3> QED BY <1>1, <1>2, <2>1, <2>2, <3>1 DEF Pays
  <2>3. CASE t.sender # a
    <3>1. Of(S \cup {t}) = Of(S)
      BY <2>3
    <3> HIDE DEF Of
    <3> QED BY <1>1, <1>2, <2>1, <2>3, <3>1 DEF Pays
  <2> QED BY <2>2, <2>3
<1>4. \A S \in SUBSET Tx : \A P \in SUBSET S : SentBy(a, P) <= SentBy(a, S)
  <2>1. \A S \in SUBSET Tx : \A P \in SUBSET S :
          P \in SUBSET Tx /\ Of(S) \in SUBSET Tx /\ Of(P) \in SUBSET Of(S)
    OBVIOUS
  <2> HIDE DEF Of
  <2> QED BY <1>1, <1>2, <2>1
<1>5. \A S \in SUBSET Tx : Of(S) \in SUBSET Tx
  OBVIOUS
<1>6. Of({}) = {}
  OBVIOUS
<1> HIDE DEF Of
<1> QED BY <1>1, <1>2, <1>3, <1>4, <1>5, <1>6

\* What it spends of the asset.
LEMMA SpentByIs ==
  ASSUME NEW a \in Account
  PROVE  /\ SpentBy(a, {}) = 0
         /\ \A S \in SUBSET Tx : SpentBy(a, S) \in Nat
         /\ \A S \in SUBSET Tx : \A t \in Tx \ S : SpentBy(a, S \cup {t}) = SpentBy(a, S) + Spends(a, t)
         /\ \A S \in SUBSET Tx : \A P \in SUBSET S : SpentBy(a, P) <= SpentBy(a, S)
<1>1. PICK sum \in [SUBSET Tx -> Nat] :
     /\ sum[{}] = 0
     /\ \A P \in SUBSET Tx : \A x \in Tx \ P : sum[P \cup {x}] = sum[P] + Spend(x)
     /\ \A Q \in SUBSET Tx : \A P \in SUBSET Q : sum[P] <= sum[Q]
     /\ \A V \in SUBSET Tx : MapThenSumSet(Spend, V) = sum[V]
  BY SpendSums
<1> DEFINE Of(S) == {t \in S : t.sender = a}
<1>2. \A S \in SUBSET Tx : SpentBy(a, S) = sum[Of(S)]
  BY <1>1 DEF SpentBy
<1>3. ASSUME NEW S \in SUBSET Tx, NEW t \in Tx \ S
      PROVE  SpentBy(a, S \cup {t}) = SpentBy(a, S) + Spends(a, t)
  <2>1. S \cup {t} \in SUBSET Tx /\ Of(S) \in SUBSET Tx /\ t \notin Of(S)
    OBVIOUS
  <2>2. CASE t.sender = a
    <3>1. Of(S \cup {t}) = Of(S) \cup {t}
      BY <2>2
    <3> HIDE DEF Of
    <3> QED BY <1>1, <1>2, <2>1, <2>2, <3>1 DEF Spends
  <2>3. CASE t.sender # a
    <3>1. Of(S \cup {t}) = Of(S)
      BY <2>3
    <3> HIDE DEF Of
    <3> QED BY <1>1, <1>2, <2>1, <2>3, <3>1 DEF Spends
  <2> QED BY <2>2, <2>3
<1>4. \A S \in SUBSET Tx : \A P \in SUBSET S : SpentBy(a, P) <= SpentBy(a, S)
  <2>1. \A S \in SUBSET Tx : \A P \in SUBSET S :
          P \in SUBSET Tx /\ Of(S) \in SUBSET Tx /\ Of(P) \in SUBSET Of(S)
    OBVIOUS
  <2> HIDE DEF Of
  <2> QED BY <1>1, <1>2, <2>1
<1>5. \A S \in SUBSET Tx : Of(S) \in SUBSET Tx
  OBVIOUS
<1>6. Of({}) = {}
  OBVIOUS
<1> HIDE DEF Of
<1> QED BY <1>1, <1>2, <1>3, <1>4, <1>5, <1>6

\* What it receives from them.
LEMMA ReceivedByIs ==
  ASSUME NEW a \in Account
  PROVE  /\ ReceivedBy(a, {}) = 0
         /\ \A S \in SUBSET Tx : ReceivedBy(a, S) \in Nat
         /\ \A S \in SUBSET Tx : \A t \in Tx \ S : ReceivedBy(a, S \cup {t}) = ReceivedBy(a, S) + Receives(a, t)
         /\ \A S \in SUBSET Tx : \A P \in SUBSET S : ReceivedBy(a, P) <= ReceivedBy(a, S)
<1>1. PICK sum \in [SUBSET Tx -> Nat] :
     /\ sum[{}] = 0
     /\ \A P \in SUBSET Tx : \A x \in Tx \ P : sum[P \cup {x}] = sum[P] + Value(x)
     /\ \A Q \in SUBSET Tx : \A P \in SUBSET Q : sum[P] <= sum[Q]
     /\ \A V \in SUBSET Tx : MapThenSumSet(LAMBDA t : Cost(t) - Fee, V) = sum[V]
  BY ValueSums
<1> DEFINE Of(S) == {t \in S : t.recipient = a}
<1>2. \A S \in SUBSET Tx : ReceivedBy(a, S) = sum[Of(S)]
  BY <1>1 DEF ReceivedBy
<1>3. /\ sum \in [SUBSET Tx -> Nat] /\ sum[{}] = 0
      /\ \A P \in SUBSET Tx : \A x \in Tx \ P : sum[P \cup {x}] = sum[P] + Value(x)
      /\ \A Q \in SUBSET Tx : \A P \in SUBSET Q : sum[P] <= sum[Q]
  BY <1>1
<1>4. ASSUME NEW S \in SUBSET Tx, NEW t \in Tx \ S
      PROVE  ReceivedBy(a, S \cup {t}) = ReceivedBy(a, S) + Receives(a, t)
  <2>1. S \cup {t} \in SUBSET Tx /\ Of(S) \in SUBSET Tx /\ t \notin Of(S)
    OBVIOUS
  <2>2. CASE t.recipient = a
    <3>1. Of(S \cup {t}) = Of(S) \cup {t}
      BY <2>2
    <3>2. Receives(a, t) = Value(t)
      BY <2>2 DEF Receives, Value
    <3> HIDE DEF Of
    <3>3. sum[Of(S) \cup {t}] = sum[Of(S)] + Value(t)
      BY <1>3, <2>1
    <3>4. ReceivedBy(a, S \cup {t}) = sum[Of(S) \cup {t}] /\ ReceivedBy(a, S) = sum[Of(S)]
      BY <1>2, <2>1, <3>1
    <3> QED BY <3>2, <3>3, <3>4
  <2>3. CASE t.recipient # a
    <3>1. Of(S \cup {t}) = Of(S)
      BY <2>3
    <3> HIDE DEF Of
    <3> QED BY <1>2, <1>3, <2>1, <2>3, <3>1 DEF Receives
  <2> QED BY <2>2, <2>3
<1>5. \A S \in SUBSET Tx : \A P \in SUBSET S : ReceivedBy(a, P) <= ReceivedBy(a, S)
  <2>1. \A S \in SUBSET Tx : \A P \in SUBSET S :
          P \in SUBSET Tx /\ Of(S) \in SUBSET Tx /\ Of(P) \in SUBSET Of(S)
    OBVIOUS
  <2> HIDE DEF Of
  <2> QED BY <1>2, <1>3, <2>1
<1>6. \A S \in SUBSET Tx : Of(S) \in SUBSET Tx
  OBVIOUS
<1>7. Of({}) = {}
  OBVIOUS
<1> HIDE DEF Of
<1> QED BY <1>2, <1>3, <1>4, <1>5, <1>6, <1>7

\* What it gains of the asset.
LEMMA GainedByIs ==
  ASSUME NEW a \in Account
  PROVE  /\ GainedBy(a, {}) = 0
         /\ \A S \in SUBSET Tx : GainedBy(a, S) \in Nat
         /\ \A S \in SUBSET Tx : \A t \in Tx \ S : GainedBy(a, S \cup {t}) = GainedBy(a, S) + Gains(a, t)
         /\ \A S \in SUBSET Tx : \A P \in SUBSET S : GainedBy(a, P) <= GainedBy(a, S)
<1>1. PICK sum \in [SUBSET Tx -> Nat] :
     /\ sum[{}] = 0
     /\ \A P \in SUBSET Tx : \A x \in Tx \ P : sum[P \cup {x}] = sum[P] + Spend(x)
     /\ \A Q \in SUBSET Tx : \A P \in SUBSET Q : sum[P] <= sum[Q]
     /\ \A V \in SUBSET Tx : MapThenSumSet(Spend, V) = sum[V]
  BY SpendSums
<1> DEFINE Of(S) == {t \in S : t.recipient = a}
<1>2. \A S \in SUBSET Tx : GainedBy(a, S) = sum[Of(S)]
  BY <1>1 DEF GainedBy
<1>3. ASSUME NEW S \in SUBSET Tx, NEW t \in Tx \ S
      PROVE  GainedBy(a, S \cup {t}) = GainedBy(a, S) + Gains(a, t)
  <2>1. S \cup {t} \in SUBSET Tx /\ Of(S) \in SUBSET Tx /\ t \notin Of(S)
    OBVIOUS
  <2>2. CASE t.recipient = a
    <3>1. Of(S \cup {t}) = Of(S) \cup {t}
      BY <2>2
    <3> HIDE DEF Of
    <3> QED BY <1>1, <1>2, <2>1, <2>2, <3>1 DEF Gains
  <2>3. CASE t.recipient # a
    <3>1. Of(S \cup {t}) = Of(S)
      BY <2>3
    <3> HIDE DEF Of
    <3> QED BY <1>1, <1>2, <2>1, <2>3, <3>1 DEF Gains
  <2> QED BY <2>2, <2>3
<1>4. \A S \in SUBSET Tx : \A P \in SUBSET S : GainedBy(a, P) <= GainedBy(a, S)
  <2>1. \A S \in SUBSET Tx : \A P \in SUBSET S :
          P \in SUBSET Tx /\ Of(S) \in SUBSET Tx /\ Of(P) \in SUBSET Of(S)
    OBVIOUS
  <2> HIDE DEF Of
  <2> QED BY <1>1, <1>2, <2>1
<1>5. \A S \in SUBSET Tx : Of(S) \in SUBSET Tx
  OBVIOUS
<1>6. Of({}) = {}
  OBVIOUS
<1> HIDE DEF Of
<1> QED BY <1>1, <1>2, <1>3, <1>4, <1>5, <1>6

-----------------------------------------------------------------------------
(* One transfer *)

\* The balances of all accounts.
Amounts == [Account -> Int]

\* What adding to the balance of one account does.
LEMMA AddIs ==
  ASSUME NEW f \in Amounts, NEW a \in Account, NEW x \in Int
  PROVE  /\ Add(f, a, x) \in Amounts
         /\ Add(f, a, x)[a] = f[a] + x
         /\ \A c \in Account : c # a => Add(f, a, x)[c] = f[c]
  BY DEF Add, Amounts

\* x is the book b with other balances.
WithUnconfirmed(x, b, u, c) == x = [b EXCEPT !.u_balance = u, !.cache = c]
WithBalances(x, b, v, u, d, c) ==
  x = [b EXCEPT !.balance = v, !.u_balance = u, !.asset = d, !.cache = c]

\* A book with other unconfirmed balances.
LEMMA OtherUnconfirmed ==
  ASSUME NEW b \in Book, NEW u \in Amounts, NEW c \in Amounts,
         NEW x, WithUnconfirmed(x, b, u, c)
  PROVE  /\ x \in Book
         /\ x.balance = b.balance /\ x.u_balance = u /\ x.asset = b.asset /\ x.cache = c
  BY DEF Book, Amounts, WithUnconfirmed

\* The same for all four.
LEMMA OtherBalances ==
  ASSUME NEW b \in Book, NEW v \in Amounts, NEW u \in Amounts,
         NEW d \in Amounts, NEW c \in Amounts,
         NEW x, WithBalances(x, b, v, u, d, c)
  PROVE  /\ x \in Book
         /\ x.balance = v /\ x.u_balance = u /\ x.asset = d /\ x.cache = c
  BY DEF Book, Amounts, WithBalances

\* Holding t takes it from what its sender has unconfirmed.
LEMMA HoldIs ==
  ASSUME NEW b \in Book, NEW t \in Tx
  PROVE  /\ ApplyUnconfirmed(b, t) \in Book
         /\ ApplyUnconfirmed(b, t).balance = b.balance
         /\ ApplyUnconfirmed(b, t).asset = b.asset
         /\ \A a \in Account :
              /\ ApplyUnconfirmed(b, t).u_balance[a] = b.u_balance[a] - Pays(a, t)
              /\ ApplyUnconfirmed(b, t).cache[a] = b.cache[a] - Spends(a, t)
<1> DEFINE u == Add(b.u_balance, t.sender, -Cost(t))
           c == Add(b.cache, t.sender, -Spend(t))
<1>1. /\ b.balance \in Amounts /\ b.u_balance \in Amounts
      /\ b.asset \in Amounts /\ b.cache \in Amounts
  BY DEF Book, Amounts
<1>2. /\ t.sender \in Account /\ t.recipient \in Account /\ t.sender # t.recipient
      /\ Cost(t) \in Int /\ -Cost(t) \in Int /\ Cost(t) - Fee \in Int /\ Fee - Cost(t) \in Int
      /\ Spend(t) \in Int /\ -Spend(t) \in Int /\ Fee \in Int
  BY TransferTypes
<1>3. u \in Amounts /\ \A a \in Account : u[a] = b.u_balance[a] - Pays(a, t)
  <2>1. /\ u \in Amounts
        /\ u[t.sender] = b.u_balance[t.sender] + (-Cost(t))
        /\ \A a \in Account : a # t.sender => u[a] = b.u_balance[a]
    BY <1>1, <1>2, AddIs, Zenon
  <2> HIDE DEF u
  <2> QED BY <1>1, <1>2, <2>1 DEF Pays, Amounts
<1>4. c \in Amounts /\ \A a \in Account : c[a] = b.cache[a] - Spends(a, t)
  <2>1. /\ c \in Amounts
        /\ c[t.sender] = b.cache[t.sender] + (-Spend(t))
        /\ \A a \in Account : a # t.sender => c[a] = b.cache[a]
    BY <1>1, <1>2, AddIs, Zenon
  <2> HIDE DEF c
  <2> QED BY <1>1, <1>2, <2>1 DEF Spends, Amounts
<1> DEFINE x == ApplyUnconfirmed(b, t)
<1>5. WithUnconfirmed(x, b, u, c)
  BY DEF ApplyUnconfirmed, WithUnconfirmed
<1> HIDE DEF u, c, x
<1>6. /\ x \in Book
      /\ x.balance = b.balance /\ x.u_balance = u /\ x.asset = b.asset /\ x.cache = c
  <2>1. u \in Amounts /\ c \in Amounts
    BY <1>3, <1>4
  <2> QED BY <1>5, <2>1, OtherUnconfirmed
<1> QED BY <1>3, <1>4, <1>6 DEF x

\* Releasing t gives it back.
LEMMA ReleaseIs ==
  ASSUME NEW b \in Book, NEW t \in Tx
  PROVE  /\ UndoUnconfirmed(b, t) \in Book
         /\ UndoUnconfirmed(b, t).balance = b.balance
         /\ UndoUnconfirmed(b, t).asset = b.asset
         /\ \A a \in Account :
              /\ UndoUnconfirmed(b, t).u_balance[a] = b.u_balance[a] + Pays(a, t)
              /\ UndoUnconfirmed(b, t).cache[a] = b.cache[a] + Spends(a, t)
<1> DEFINE u == Add(b.u_balance, t.sender, Cost(t))
           c == Add(b.cache, t.sender, Spend(t))
<1>1. /\ b.balance \in Amounts /\ b.u_balance \in Amounts
      /\ b.asset \in Amounts /\ b.cache \in Amounts
  BY DEF Book, Amounts
<1>2. /\ t.sender \in Account /\ t.recipient \in Account /\ t.sender # t.recipient
      /\ Cost(t) \in Int /\ -Cost(t) \in Int /\ Cost(t) - Fee \in Int /\ Fee - Cost(t) \in Int
      /\ Spend(t) \in Int /\ -Spend(t) \in Int /\ Fee \in Int
  BY TransferTypes
<1>3. u \in Amounts /\ \A a \in Account : u[a] = b.u_balance[a] + Pays(a, t)
  <2>1. /\ u \in Amounts
        /\ u[t.sender] = b.u_balance[t.sender] + (Cost(t))
        /\ \A a \in Account : a # t.sender => u[a] = b.u_balance[a]
    BY <1>1, <1>2, AddIs, Zenon
  <2> HIDE DEF u
  <2> QED BY <1>1, <1>2, <2>1 DEF Pays, Amounts
<1>4. c \in Amounts /\ \A a \in Account : c[a] = b.cache[a] + Spends(a, t)
  <2>1. /\ c \in Amounts
        /\ c[t.sender] = b.cache[t.sender] + (Spend(t))
        /\ \A a \in Account : a # t.sender => c[a] = b.cache[a]
    BY <1>1, <1>2, AddIs, Zenon
  <2> HIDE DEF c
  <2> QED BY <1>1, <1>2, <2>1 DEF Spends, Amounts
<1> DEFINE x == UndoUnconfirmed(b, t)
<1>5. WithUnconfirmed(x, b, u, c)
  BY DEF UndoUnconfirmed, WithUnconfirmed
<1> HIDE DEF u, c, x
<1>6. /\ x \in Book
      /\ x.balance = b.balance /\ x.u_balance = u /\ x.asset = b.asset /\ x.cache = c
  <2>1. u \in Amounts /\ c \in Amounts
    BY <1>3, <1>4
  <2> QED BY <1>5, <2>1, OtherUnconfirmed
<1> QED BY <1>3, <1>4, <1>6 DEF x

\* Applying t, once held, moves it from its sender to its recipient.
LEMMA ApplyIs ==
  ASSUME NEW b \in Book, NEW t \in Tx
  PROVE  /\ Apply(b, t) \in Book
         /\ \A a \in Account :
              /\ Apply(b, t).balance[a] = b.balance[a] - Pays(a, t) + Receives(a, t)
              /\ Apply(b, t).u_balance[a] = b.u_balance[a] + Receives(a, t)
              /\ Apply(b, t).asset[a] = b.asset[a] - Spends(a, t) + Gains(a, t)
              /\ Apply(b, t).cache[a] = b.cache[a] + Gains(a, t)
<1> DEFINE w == Add(b.balance, t.sender, -Cost(t))
           v == Add(w, t.recipient, Cost(t) - Fee)
           u == Add(b.u_balance, t.recipient, Cost(t) - Fee)
           e == Add(b.asset, t.sender, -Spend(t))
           d == Add(e, t.recipient, Spend(t))
           c == Add(b.cache, t.recipient, Spend(t))
<1>1. /\ b.balance \in Amounts /\ b.u_balance \in Amounts
      /\ b.asset \in Amounts /\ b.cache \in Amounts
  BY DEF Book, Amounts
<1>2. /\ t.sender \in Account /\ t.recipient \in Account /\ t.sender # t.recipient
      /\ Cost(t) \in Int /\ -Cost(t) \in Int /\ Cost(t) - Fee \in Int /\ Fee - Cost(t) \in Int
      /\ Spend(t) \in Int /\ -Spend(t) \in Int /\ Fee \in Int
  BY TransferTypes
<1>3. /\ w \in Amounts
      /\ w[t.sender] = b.balance[t.sender] + (-Cost(t))
      /\ \A a \in Account : a # t.sender => w[a] = b.balance[a]
  BY <1>1, <1>2, AddIs, Zenon
<1>5. /\ e \in Amounts
      /\ e[t.sender] = b.asset[t.sender] + (-Spend(t))
      /\ \A a \in Account : a # t.sender => e[a] = b.asset[a]
  BY <1>1, <1>2, AddIs, Zenon
<1> DEFINE x == Apply(b, t)
<1>6. WithBalances(x, b, v, u, d, c)
  BY DEF Apply, WithBalances
<1> HIDE DEF w, e
<1>7. /\ v \in Amounts
      /\ v[t.recipient] = w[t.recipient] + (Cost(t) - Fee)
      /\ \A a \in Account : a # t.recipient => v[a] = w[a]
  BY <1>2, <1>3, AddIs, Zenon
<1>8. /\ d \in Amounts
      /\ d[t.recipient] = e[t.recipient] + (Spend(t))
      /\ \A a \in Account : a # t.recipient => d[a] = e[a]
  BY <1>2, <1>5, AddIs, Zenon
<1>9. /\ u \in Amounts
      /\ u[t.recipient] = b.u_balance[t.recipient] + (Cost(t) - Fee)
      /\ \A a \in Account : a # t.recipient => u[a] = b.u_balance[a]
  BY <1>1, <1>2, AddIs, Zenon
<1>10. /\ c \in Amounts
       /\ c[t.recipient] = b.cache[t.recipient] + (Spend(t))
       /\ \A a \in Account : a # t.recipient => c[a] = b.cache[a]
  BY <1>1, <1>2, AddIs, Zenon
<1> HIDE DEF v, u, d, c, x
<1>11. \A a \in Account : v[a] = b.balance[a] - Pays(a, t) + Receives(a, t)
  BY <1>1, <1>2, <1>3, <1>7 DEF Pays, Receives, Amounts
<1>12. \A a \in Account : d[a] = b.asset[a] - Spends(a, t) + Gains(a, t)
  BY <1>1, <1>2, <1>5, <1>8 DEF Spends, Gains, Amounts
<1>13. \A a \in Account : u[a] = b.u_balance[a] + Receives(a, t)
  BY <1>1, <1>2, <1>9 DEF Receives, Amounts
<1>14. \A a \in Account : c[a] = b.cache[a] + Gains(a, t)
  BY <1>1, <1>2, <1>10 DEF Gains, Amounts
<1>15. /\ x \in Book
       /\ x.balance = v /\ x.u_balance = u /\ x.asset = d /\ x.cache = c
  <2>1. v \in Amounts /\ u \in Amounts /\ d \in Amounts /\ c \in Amounts
    BY <1>7, <1>8, <1>9, <1>10
  <2> QED BY <1>6, <2>1, OtherBalances
<1> QED BY <1>11, <1>12, <1>13, <1>14, <1>15 DEF x

\* Undoing t moves it back, and leaves it held.
LEMMA UndoIs ==
  ASSUME NEW b \in Book, NEW t \in Tx
  PROVE  /\ Undo(b, t) \in Book
         /\ \A a \in Account :
              /\ Undo(b, t).balance[a] = b.balance[a] + Pays(a, t) - Receives(a, t)
              /\ Undo(b, t).u_balance[a] = b.u_balance[a] - Receives(a, t)
              /\ Undo(b, t).asset[a] = b.asset[a] + Spends(a, t) - Gains(a, t)
              /\ Undo(b, t).cache[a] = b.cache[a] - Gains(a, t)
<1> DEFINE w == Add(b.balance, t.sender, Cost(t))
           v == Add(w, t.recipient, Fee - Cost(t))
           u == Add(b.u_balance, t.recipient, Fee - Cost(t))
           e == Add(b.asset, t.sender, Spend(t))
           d == Add(e, t.recipient, -Spend(t))
           c == Add(b.cache, t.recipient, -Spend(t))
<1>1. /\ b.balance \in Amounts /\ b.u_balance \in Amounts
      /\ b.asset \in Amounts /\ b.cache \in Amounts
  BY DEF Book, Amounts
<1>2. /\ t.sender \in Account /\ t.recipient \in Account /\ t.sender # t.recipient
      /\ Cost(t) \in Int /\ -Cost(t) \in Int /\ Cost(t) - Fee \in Int /\ Fee - Cost(t) \in Int
      /\ Spend(t) \in Int /\ -Spend(t) \in Int /\ Fee \in Int
  BY TransferTypes
<1>3. /\ w \in Amounts
      /\ w[t.sender] = b.balance[t.sender] + (Cost(t))
      /\ \A a \in Account : a # t.sender => w[a] = b.balance[a]
  BY <1>1, <1>2, AddIs, Zenon
<1>5. /\ e \in Amounts
      /\ e[t.sender] = b.asset[t.sender] + (Spend(t))
      /\ \A a \in Account : a # t.sender => e[a] = b.asset[a]
  BY <1>1, <1>2, AddIs, Zenon
<1> DEFINE x == Undo(b, t)
<1>6. WithBalances(x, b, v, u, d, c)
  BY DEF Undo, WithBalances
<1> HIDE DEF w, e
<1>7. /\ v \in Amounts
      /\ v[t.recipient] = w[t.recipient] + (Fee - Cost(t))
      /\ \A a \in Account : a # t.recipient => v[a] = w[a]
  BY <1>2, <1>3, AddIs, Zenon
<1>8. /\ d \in Amounts
      /\ d[t.recipient] = e[t.recipient] + (-Spend(t))
      /\ \A a \in Account : a # t.recipient => d[a] = e[a]
  BY <1>2, <1>5, AddIs, Zenon
<1>9. /\ u \in Amounts
      /\ u[t.recipient] = b.u_balance[t.recipient] + (Fee - Cost(t))
      /\ \A a \in Account : a # t.recipient => u[a] = b.u_balance[a]
  BY <1>1, <1>2, AddIs, Zenon
<1>10. /\ c \in Amounts
       /\ c[t.recipient] = b.cache[t.recipient] + (-Spend(t))
       /\ \A a \in Account : a # t.recipient => c[a] = b.cache[a]
  BY <1>1, <1>2, AddIs, Zenon
<1> HIDE DEF v, u, d, c, x
<1>11. \A a \in Account : v[a] = b.balance[a] + Pays(a, t) - Receives(a, t)
  <2>1. \A a \in Account : b.balance[a] \in Int /\ w[a] = b.balance[a] + Pays(a, t)
    BY <1>1, <1>2, <1>3 DEF Pays, Amounts
  <2>2. \A a \in Account : v[a] = w[a] - Receives(a, t)
    <3>1. \A a \in Account : w[a] \in Int
      BY <1>3 DEF Amounts
    <3> QED BY <1>2, <1>7, <3>1 DEF Receives, Amounts
  <2>3. \A a \in Account : Pays(a, t) \in Int /\ Receives(a, t) \in Int
    BY TransferTypes
  <2> QED BY <2>1, <2>2, <2>3
<1>12. \A a \in Account : d[a] = b.asset[a] + Spends(a, t) - Gains(a, t)
  BY <1>1, <1>2, <1>5, <1>8 DEF Spends, Gains, Amounts
<1>13. \A a \in Account : u[a] = b.u_balance[a] - Receives(a, t)
  <2>1. \A a \in Account : b.u_balance[a] \in Int
    BY <1>1 DEF Amounts
  <2> QED BY <1>2, <1>9, <2>1 DEF Receives, Amounts
<1>14. \A a \in Account : c[a] = b.cache[a] - Gains(a, t)
  BY <1>1, <1>2, <1>10 DEF Gains, Amounts
<1>15. /\ x \in Book
       /\ x.balance = v /\ x.u_balance = u /\ x.asset = d /\ x.cache = c
  <2>1. v \in Amounts /\ u \in Amounts /\ d \in Amounts /\ c \in Amounts
    BY <1>7, <1>8, <1>9, <1>10
  <2> QED BY <1>6, <2>1, OtherBalances
<1> QED BY <1>11, <1>12, <1>13, <1>14, <1>15 DEF x

\* What popping a block does for one of its transactions.
LEMMA UndoBothIs ==
  ASSUME NEW b \in Book, NEW t \in Tx
  PROVE  /\ UndoBoth(b, t) \in Book
         /\ \A a \in Account :
              /\ UndoBoth(b, t).balance[a] = b.balance[a] + Pays(a, t) - Receives(a, t)
              /\ UndoBoth(b, t).u_balance[a] = b.u_balance[a] + Pays(a, t) - Receives(a, t)
              /\ UndoBoth(b, t).asset[a] = b.asset[a] + Spends(a, t) - Gains(a, t)
              /\ UndoBoth(b, t).cache[a] = b.cache[a] + Spends(a, t) - Gains(a, t)
<1> DEFINE u == Undo(b, t)
<1>1. u \in Book
  BY UndoIs
<1>2. /\ UndoUnconfirmed(u, t) \in Book
      /\ UndoUnconfirmed(u, t).balance = u.balance
      /\ UndoUnconfirmed(u, t).asset = u.asset
      /\ \A a \in Account :
           /\ UndoUnconfirmed(u, t).u_balance[a] = u.u_balance[a] + Pays(a, t)
           /\ UndoUnconfirmed(u, t).cache[a] = u.cache[a] + Spends(a, t)
  <2> HIDE DEF u
  <2> QED BY <1>1, ReleaseIs
<1>3. \A a \in Account :
        /\ u.balance[a] = b.balance[a] + Pays(a, t) - Receives(a, t)
        /\ u.u_balance[a] = b.u_balance[a] - Receives(a, t)
        /\ u.asset[a] = b.asset[a] + Spends(a, t) - Gains(a, t)
        /\ u.cache[a] = b.cache[a] - Gains(a, t)
  BY UndoIs
<1>4. \A a \in Account : /\ b.u_balance[a] \in Int /\ b.cache[a] \in Int
                        /\ Pays(a, t) \in Int /\ Spends(a, t) \in Int
                        /\ Receives(a, t) \in Int /\ Gains(a, t) \in Int
  BY TransferTypes DEF Book
<1>5. UndoBoth(b, t) = UndoUnconfirmed(u, t)
  BY DEF UndoBoth
<1> HIDE DEF u
<1> QED BY <1>2, <1>3, <1>4, <1>5

-----------------------------------------------------------------------------
(* Lists of transactions *)

\* A list is undone one by one.
LEMMA ReleaseFold ==
  ASSUME NEW s \in Book, NEW l \in Seq(Tx), NEW J, s \in J[0],
         \A i \in 1 .. Len(l) : \A x \in Book : x \in J[i - 1] => UndoUnconfirmed(x, l[i]) \in J[i]
  PROVE  FoldLeft(UndoUnconfirmed, s, l) \in Book /\ FoldLeft(UndoUnconfirmed, s, l) \in J[Len(l)]
<1> DEFINE One(x, t) == UndoUnconfirmed(x, t)
           G == [p \in Book \X Tx |-> One(p[1], p[2])]
           Body(it) == [P \in SUBSET (DOMAIN l) |->
                         IF P = {} THEN s ELSE One(it[P \ {Max(P)}], l[Max(P)])]
           it == CHOOSE it : it = Body(it)
<1>1. \A x \in Book, t \in Tx : One(x, t) \in Book
  BY ReleaseIs
<1>2. FoldLeft(UndoUnconfirmed, s, l) = it[DOMAIN l]
  BY DEF FoldLeft, MapThenFoldSet
<1>3. \A i \in 1 .. Len(l) : \A x \in Book : x \in J[i - 1] => One(x, l[i]) \in J[i]
  OBVIOUS
<1> HIDE DEF One
<1>4. G \in [Book \X Tx -> Book] /\ \A x \in Book, t \in Tx : G[<<x, t>>] = One(x, t)
  BY <1>1
<1> HIDE DEF G
<1>5. PICK jt : IsFold(jt, s, G, l, Book, Tx)
  BY <1>4, FoldExists
<1>6. jt = Body(jt)
  BY <1>4, <1>5 DEF IsFold
<1>7. it = Body(it)
  BY <1>6
<1> HIDE DEF it
<1>8. Follows(it, s, G, l, Book)
  <2>1. ASSUME NEW P \in SUBSET (DOMAIN l), P # {}, it[P \ {Max(P)}] \in Book
        PROVE  it[P] = G[<<it[P \ {Max(P)}], l[Max(P)]>>]
    <3>1. l[Max(P)] \in Tx
      BY <1>5, <2>1 DEF IsFold
    <3>2. it[P] = One(it[P \ {Max(P)}], l[Max(P)])
      BY <1>7, <2>1
    <3> QED BY <1>4, <2>1, <3>1, <3>2
  <2>2. it[{}] = s
    BY <1>7
  <2> QED BY <2>1, <2>2 DEF Follows
<1>9. Keeps(G, l, Book, J)
  BY <1>3, <1>4 DEF Keeps
<1>10. it[DOMAIN l] \in Book /\ it[DOMAIN l] \in J[Len(l)]
  BY <1>4, <1>8, <1>9, FoldWithin
<1> QED BY <1>2, <1>10

\* The transactions of a block are undone one by one.
LEMMA UndoFold ==
  ASSUME NEW s \in Book, NEW l \in Seq(Tx), NEW J, s \in J[0],
         \A i \in 1 .. Len(l) : \A x \in Book : x \in J[i - 1] => UndoBoth(x, l[i]) \in J[i]
  PROVE  FoldLeft(UndoBoth, s, l) \in Book /\ FoldLeft(UndoBoth, s, l) \in J[Len(l)]
<1> DEFINE One(x, t) == UndoBoth(x, t)
           G == [p \in Book \X Tx |-> One(p[1], p[2])]
           Body(it) == [P \in SUBSET (DOMAIN l) |->
                         IF P = {} THEN s ELSE One(it[P \ {Max(P)}], l[Max(P)])]
           it == CHOOSE it : it = Body(it)
<1>1. \A x \in Book, t \in Tx : One(x, t) \in Book
  BY UndoBothIs
<1>2. FoldLeft(UndoBoth, s, l) = it[DOMAIN l]
  BY DEF FoldLeft, MapThenFoldSet
<1>3. \A i \in 1 .. Len(l) : \A x \in Book : x \in J[i - 1] => One(x, l[i]) \in J[i]
  OBVIOUS
<1> HIDE DEF One
<1>4. G \in [Book \X Tx -> Book] /\ \A x \in Book, t \in Tx : G[<<x, t>>] = One(x, t)
  BY <1>1
<1> HIDE DEF G
<1>5. PICK jt : IsFold(jt, s, G, l, Book, Tx)
  BY <1>4, FoldExists
<1>6. jt = Body(jt)
  BY <1>4, <1>5 DEF IsFold
<1>7. it = Body(it)
  BY <1>6
<1> HIDE DEF it
<1>8. Follows(it, s, G, l, Book)
  <2>1. ASSUME NEW P \in SUBSET (DOMAIN l), P # {}, it[P \ {Max(P)}] \in Book
        PROVE  it[P] = G[<<it[P \ {Max(P)}], l[Max(P)]>>]
    <3>1. l[Max(P)] \in Tx
      BY <1>5, <2>1 DEF IsFold
    <3>2. it[P] = One(it[P \ {Max(P)}], l[Max(P)])
      BY <1>7, <2>1
    <3> QED BY <1>4, <2>1, <3>1, <3>2
  <2>2. it[{}] = s
    BY <1>7
  <2> QED BY <2>1, <2>2 DEF Follows
<1>9. Keeps(G, l, Book, J)
  BY <1>3, <1>4 DEF Keeps
<1>10. it[DOMAIN l] \in Book /\ it[DOMAIN l] \in J[Len(l)]
  BY <1>4, <1>8, <1>9, FoldWithin
<1> QED BY <1>2, <1>10

\* The states of receiveTransactions, and those of applying a block.
Receivings == [bk : Book, trs : Seq(Tx), refused : BOOLEAN]
Processings == [bk : Book, done : SUBSET Tx, failed : SUBSET Tx]

\* One step of receiveTransactions keeps the type.
LEMMA ReceiveOneType ==
  ASSUME NEW x \in Receivings, NEW t \in Tx, NEW c, NEW v
  PROVE  ReceiveOne(x, t, c, v) \in Receivings
<1>1. ApplyUnconfirmed(x.bk, t) \in Book /\ Append(x.trs, t) \in Seq(Tx)
  BY HoldIs DEF Receivings
<1> QED BY <1>1 DEF ReceiveOne, Receiving, Receivings

\* So does one step of applying a block.
LEMMA ProcessOneType ==
  ASSUME NEW x \in Processings, NEW t \in Tx
  PROVE  ProcessOne(x, t) \in Processings
<1>1. Apply(ApplyUnconfirmed(x.bk, t), t) \in Book
  BY HoldIs, ApplyIs DEF Processings
<1> QED BY <1>1 DEF ProcessOne, Processings

\* A list is received one by one.
LEMMA ReceiveFold ==
  ASSUME NEW s \in Receivings, NEW l \in Seq(Tx), NEW J, s \in J[0], NEW c, NEW v,
         \A i \in 1 .. Len(l) : \A x \in Receivings : x \in J[i - 1] => ReceiveOne(x, l[i], c, v) \in J[i]
  PROVE  ReceiveAll(s, l, c, v) \in Receivings /\ ReceiveAll(s, l, c, v) \in J[Len(l)]
<1> DEFINE One(x, t) == ReceiveOne(x, t, c, v)
           G == [p \in Receivings \X Tx |-> One(p[1], p[2])]
           Body(it) == [P \in SUBSET (DOMAIN l) |->
                         IF P = {} THEN s ELSE One(it[P \ {Max(P)}], l[Max(P)])]
           it == CHOOSE it : it = Body(it)
<1>1. \A x \in Receivings, t \in Tx : One(x, t) \in Receivings
  BY ReceiveOneType
<1>2. ReceiveAll(s, l, c, v) = it[DOMAIN l]
  BY DEF FoldLeft, MapThenFoldSet, ReceiveAll
<1>3. \A i \in 1 .. Len(l) : \A x \in Receivings : x \in J[i - 1] => One(x, l[i]) \in J[i]
  OBVIOUS
<1> HIDE DEF One
<1>4. G \in [Receivings \X Tx -> Receivings] /\ \A x \in Receivings, t \in Tx : G[<<x, t>>] = One(x, t)
  BY <1>1
<1> HIDE DEF G
<1>5. PICK jt : IsFold(jt, s, G, l, Receivings, Tx)
  BY <1>4, FoldExists
<1>6. jt = Body(jt)
  BY <1>4, <1>5 DEF IsFold
<1>7. it = Body(it)
  BY <1>6
<1> HIDE DEF it
<1>8. Follows(it, s, G, l, Receivings)
  <2>1. ASSUME NEW P \in SUBSET (DOMAIN l), P # {}, it[P \ {Max(P)}] \in Receivings
        PROVE  it[P] = G[<<it[P \ {Max(P)}], l[Max(P)]>>]
    <3>1. l[Max(P)] \in Tx
      BY <1>5, <2>1 DEF IsFold
    <3>2. it[P] = One(it[P \ {Max(P)}], l[Max(P)])
      BY <1>7, <2>1
    <3> QED BY <1>4, <2>1, <3>1, <3>2
  <2>2. it[{}] = s
    BY <1>7
  <2> QED BY <2>1, <2>2 DEF Follows
<1>9. Keeps(G, l, Receivings, J)
  BY <1>3, <1>4 DEF Keeps
<1>10. it[DOMAIN l] \in Receivings /\ it[DOMAIN l] \in J[Len(l)]
  BY <1>4, <1>8, <1>9, FoldWithin
<1> QED BY <1>2, <1>10

\* A block is applied one by one.
LEMMA ProcessFold ==
  ASSUME NEW s \in Processings, NEW l \in Seq(Tx), NEW J, s \in J[0],
         \A i \in 1 .. Len(l) : \A x \in Processings : x \in J[i - 1] => ProcessOne(x, l[i]) \in J[i]
  PROVE  FoldLeft(ProcessOne, s, l) \in Processings /\ FoldLeft(ProcessOne, s, l) \in J[Len(l)]
<1> DEFINE One(x, t) == ProcessOne(x, t)
           G == [p \in Processings \X Tx |-> One(p[1], p[2])]
           Body(it) == [P \in SUBSET (DOMAIN l) |->
                         IF P = {} THEN s ELSE One(it[P \ {Max(P)}], l[Max(P)])]
           it == CHOOSE it : it = Body(it)
<1>1. \A x \in Processings, t \in Tx : One(x, t) \in Processings
  BY ProcessOneType
<1>2. FoldLeft(ProcessOne, s, l) = it[DOMAIN l]
  BY DEF FoldLeft, MapThenFoldSet
<1>3. \A i \in 1 .. Len(l) : \A x \in Processings : x \in J[i - 1] => One(x, l[i]) \in J[i]
  OBVIOUS
<1> HIDE DEF One
<1>4. G \in [Processings \X Tx -> Processings] /\ \A x \in Processings, t \in Tx : G[<<x, t>>] = One(x, t)
  BY <1>1
<1> HIDE DEF G
<1>5. PICK jt : IsFold(jt, s, G, l, Processings, Tx)
  BY <1>4, FoldExists
<1>6. jt = Body(jt)
  BY <1>4, <1>5 DEF IsFold
<1>7. it = Body(it)
  BY <1>6
<1> HIDE DEF it
<1>8. Follows(it, s, G, l, Processings)
  <2>1. ASSUME NEW P \in SUBSET (DOMAIN l), P # {}, it[P \ {Max(P)}] \in Processings
        PROVE  it[P] = G[<<it[P \ {Max(P)}], l[Max(P)]>>]
    <3>1. l[Max(P)] \in Tx
      BY <1>5, <2>1 DEF IsFold
    <3>2. it[P] = One(it[P \ {Max(P)}], l[Max(P)])
      BY <1>7, <2>1
    <3> QED BY <1>4, <2>1, <3>1, <3>2
  <2>2. it[{}] = s
    BY <1>7
  <2> QED BY <2>1, <2>2 DEF Follows
<1>9. Keeps(G, l, Processings, J)
  BY <1>3, <1>4 DEF Keeps
<1>10. it[DOMAIN l] \in Processings /\ it[DOMAIN l] \in J[Len(l)]
  BY <1>4, <1>8, <1>9, FoldWithin
<1> QED BY <1>2, <1>10

-----------------------------------------------------------------------------
(* What sets of transfers amount to *)

\* What the transfers of S leave an account with, in coins and of the asset.
Moves(a, S) == ReceivedBy(a, S) - SentBy(a, S)
AssetMoves(a, S) == GainedBy(a, S) - SpentBy(a, S)

\* They add up transfer by transfer.
LEMMA MovesAre ==
  ASSUME NEW a \in Account
  PROVE  /\ Moves(a, {}) = 0
         /\ \A S \in SUBSET Tx : Moves(a, S) \in Int
         /\ \A S \in SUBSET Tx : \A t \in Tx \ S :
              Moves(a, S \cup {t}) = Moves(a, S) + Receives(a, t) - Pays(a, t)
<1>1. /\ ReceivedBy(a, {}) = 0 /\ SentBy(a, {}) = 0
      /\ \A S \in SUBSET Tx : ReceivedBy(a, S) \in Int /\ SentBy(a, S) \in Int
      /\ \A t \in Tx : Pays(a, t) \in Int /\ Receives(a, t) \in Int
  BY ReceivedByIs, SentByIs, TransferTypes
<1>2. \A S \in SUBSET Tx : \A t \in Tx \ S :
        /\ ReceivedBy(a, S \cup {t}) = ReceivedBy(a, S) + Receives(a, t)
        /\ SentBy(a, S \cup {t}) = SentBy(a, S) + Pays(a, t)
  BY ReceivedByIs, SentByIs
<1>3. ASSUME NEW S \in SUBSET Tx, NEW t \in Tx \ S
      PROVE  Moves(a, S \cup {t}) = Moves(a, S) + Receives(a, t) - Pays(a, t)
  <2>1. /\ ReceivedBy(a, S) \in Int /\ SentBy(a, S) \in Int
        /\ Pays(a, t) \in Int /\ Receives(a, t) \in Int
    BY <1>1
  <2>2. /\ ReceivedBy(a, S \cup {t}) = ReceivedBy(a, S) + Receives(a, t)
        /\ SentBy(a, S \cup {t}) = SentBy(a, S) + Pays(a, t)
    BY <1>2
  <2> QED BY <2>1, <2>2 DEF Moves
<1> QED BY <1>1, <1>3 DEF Moves

\* So do those of the asset.
LEMMA AssetMovesAre ==
  ASSUME NEW a \in Account
  PROVE  /\ AssetMoves(a, {}) = 0
         /\ \A S \in SUBSET Tx : AssetMoves(a, S) \in Int
         /\ \A S \in SUBSET Tx : \A t \in Tx \ S :
              AssetMoves(a, S \cup {t}) = AssetMoves(a, S) + Gains(a, t) - Spends(a, t)
<1>1. /\ GainedBy(a, {}) = 0 /\ SpentBy(a, {}) = 0
      /\ \A S \in SUBSET Tx : GainedBy(a, S) \in Int /\ SpentBy(a, S) \in Int
      /\ \A t \in Tx : Spends(a, t) \in Int /\ Gains(a, t) \in Int
  BY GainedByIs, SpentByIs, TransferTypes
<1>2. \A S \in SUBSET Tx : \A t \in Tx \ S :
        /\ GainedBy(a, S \cup {t}) = GainedBy(a, S) + Gains(a, t)
        /\ SpentBy(a, S \cup {t}) = SpentBy(a, S) + Spends(a, t)
  BY GainedByIs, SpentByIs
<1>3. ASSUME NEW S \in SUBSET Tx, NEW t \in Tx \ S
      PROVE  AssetMoves(a, S \cup {t}) = AssetMoves(a, S) + Gains(a, t) - Spends(a, t)
  <2>1. /\ GainedBy(a, S) \in Int /\ SpentBy(a, S) \in Int
        /\ Spends(a, t) \in Int /\ Gains(a, t) \in Int
    BY <1>1
  <2>2. /\ GainedBy(a, S \cup {t}) = GainedBy(a, S) + Gains(a, t)
        /\ SpentBy(a, S \cup {t}) = SpentBy(a, S) + Spends(a, t)
    BY <1>2
  <2> QED BY <2>1, <2>2 DEF AssetMoves
<1> QED BY <1>1, <1>3 DEF AssetMoves

\* Two sets that have nothing in common amount to both.
LEMMA MovesOfBoth ==
  ASSUME NEW a \in Account, NEW Q \in SUBSET Tx
  PROVE  \A P \in SUBSET Tx : P \cap Q = {} =>
           /\ Moves(a, P \cup Q) = Moves(a, P) + Moves(a, Q)
           /\ AssetMoves(a, P \cup Q) = AssetMoves(a, P) + AssetMoves(a, Q)
<1>1. \A t \in Tx : /\ Receives(a, t) - Pays(a, t) \in Int /\ Gains(a, t) - Spends(a, t) \in Int
                    /\ Receives(a, t) \in Int /\ Pays(a, t) \in Int
                    /\ Gains(a, t) \in Int /\ Spends(a, t) \in Int
  BY TransferTypes
<1>2. IsFiniteSet(Tx)
  BY ConstantsAssumption
<1>3. \A S \in SUBSET Tx : \A t \in S :
        S \ {t} \in SUBSET Tx /\ t \in Tx \ (S \ {t}) /\ (S \ {t}) \cup {t} = S
  OBVIOUS
<1>4. \A P \in SUBSET Tx : P \cap Q = {} => Moves(a, P \cup Q) = Moves(a, P) + Moves(a, Q)
  <2> DEFINE g == [S \in SUBSET Tx |-> Moves(a, S)]
             f == [t \in Tx |-> Receives(a, t) - Pays(a, t)]
  <2>1. f \in [Tx -> Int]
    BY <1>1
  <2>2. g \in [SUBSET Tx -> Int] /\ g[{}] = 0
    BY MovesAre
  <2>3. ASSUME NEW S \in SUBSET Tx, NEW t \in S PROVE g[S] = f[t] + g[S \ {t}]
    <3> DEFINE R == S \ {t}
    <3>1. R \in SUBSET Tx /\ t \in Tx \ R /\ R \cup {t} = S
      BY <1>3
    <3>2. f[t] = Receives(a, t) - Pays(a, t) /\ g[S] = Moves(a, S) /\ g[R] = Moves(a, R)
      BY <3>1
    <3> HIDE DEF f, g, R
    <3>3. Moves(a, R \cup {t}) = Moves(a, R) + Receives(a, t) - Pays(a, t) /\ Moves(a, R) \in Int
      BY <3>1, MovesAre
    <3>4. Receives(a, t) \in Int /\ Pays(a, t) \in Int
      BY <1>1, <3>1
    <3>5. Moves(a, S) = Moves(a, R) + Receives(a, t) - Pays(a, t)
      BY <3>1, <3>3
    <3>6. g[S] = f[t] + g[R]
      BY <3>2, <3>3, <3>4, <3>5
    <3> QED BY <3>6 DEF R
  <2>4. \A S \in SUBSET Tx : g[S] = Moves(a, S)
    OBVIOUS
  <2> HIDE DEF f, g
  <2>5. IsSum(g, f, Tx)
    BY <2>2, <2>3 DEF IsSum
  <2>6. \A P \in SUBSET Tx : P \cap Q = {} => g[P \cup Q] = g[P] + g[Q]
    BY <1>2, <2>1, <2>5, SumBoth
  <2> QED BY <2>4, <2>6
<1>5. \A P \in SUBSET Tx : P \cap Q = {} =>
        AssetMoves(a, P \cup Q) = AssetMoves(a, P) + AssetMoves(a, Q)
  <2> DEFINE g == [S \in SUBSET Tx |-> AssetMoves(a, S)]
             f == [t \in Tx |-> Gains(a, t) - Spends(a, t)]
  <2>1. f \in [Tx -> Int]
    BY <1>1
  <2>2. g \in [SUBSET Tx -> Int] /\ g[{}] = 0
    BY AssetMovesAre
  <2>3. ASSUME NEW S \in SUBSET Tx, NEW t \in S PROVE g[S] = f[t] + g[S \ {t}]
    <3> DEFINE R == S \ {t}
    <3>1. R \in SUBSET Tx /\ t \in Tx \ R /\ R \cup {t} = S
      BY <1>3
    <3>2. f[t] = Gains(a, t) - Spends(a, t) /\ g[S] = AssetMoves(a, S) /\ g[R] = AssetMoves(a, R)
      BY <3>1
    <3> HIDE DEF f, g, R
    <3>3. AssetMoves(a, R \cup {t}) = AssetMoves(a, R) + Gains(a, t) - Spends(a, t) /\ AssetMoves(a, R) \in Int
      BY <3>1, AssetMovesAre
    <3>4. Gains(a, t) \in Int /\ Spends(a, t) \in Int
      BY <1>1, <3>1
    <3>5. AssetMoves(a, S) = AssetMoves(a, R) + Gains(a, t) - Spends(a, t)
      BY <3>1, <3>3
    <3>6. g[S] = f[t] + g[R]
      BY <3>2, <3>3, <3>4, <3>5
    <3> QED BY <3>6 DEF R
  <2>4. \A S \in SUBSET Tx : g[S] = AssetMoves(a, S)
    OBVIOUS
  <2> HIDE DEF f, g
  <2>5. IsSum(g, f, Tx)
    BY <2>2, <2>3 DEF IsSum
  <2>6. \A P \in SUBSET Tx : P \cap Q = {} => g[P \cup Q] = g[P] + g[Q]
    BY <1>2, <2>1, <2>5, SumBoth
  <2> QED BY <2>4, <2>6
<1> QED BY <1>4, <1>5

-----------------------------------------------------------------------------
(* The pool, undone *)

\* x is the book b with the funds given back that the transfers of S hold.
IsReleased(x, b, S) ==
  /\ x.balance = b.balance /\ x.asset = b.asset
  /\ \A a \in Account : /\ x.u_balance[a] = b.u_balance[a] + SentBy(a, S)
                        /\ x.cache[a] = b.cache[a] + SpentBy(a, S)

\* One transfer more.
LEMMA ReleaseStep ==
  ASSUME NEW b \in Book, NEW x \in Book, NEW S \in SUBSET Tx, NEW t \in Tx \ S,
         IsReleased(x, b, S)
  PROVE  IsReleased(UndoUnconfirmed(x, t), b, S \cup {t})
<1> DEFINE y == UndoUnconfirmed(x, t)
<1>1. /\ y.balance = x.balance /\ y.asset = x.asset
      /\ \A a \in Account : /\ y.u_balance[a] = x.u_balance[a] + Pays(a, t)
                            /\ y.cache[a] = x.cache[a] + Spends(a, t)
  BY ReleaseIs
<1> HIDE DEF y
<1>2. \A a \in Account : /\ SentBy(a, S \cup {t}) = SentBy(a, S) + Pays(a, t)
                         /\ SpentBy(a, S \cup {t}) = SpentBy(a, S) + Spends(a, t)
  BY SentByIs, SpentByIs
<1>3. \A a \in Account : /\ SentBy(a, S) \in Int /\ SpentBy(a, S) \in Int
                         /\ Pays(a, t) \in Int /\ Spends(a, t) \in Int
                         /\ b.u_balance[a] \in Int /\ b.cache[a] \in Int
  BY SentByIs, SpentByIs, TransferTypes DEF Book
<1>4. y.balance = b.balance /\ y.asset = b.asset
  BY <1>1 DEF IsReleased
<1>5. ASSUME NEW a \in Account
      PROVE  /\ y.u_balance[a] = b.u_balance[a] + SentBy(a, S \cup {t})
             /\ y.cache[a] = b.cache[a] + SpentBy(a, S \cup {t})
  <2>1. /\ x.u_balance[a] = b.u_balance[a] + SentBy(a, S)
        /\ x.cache[a] = b.cache[a] + SpentBy(a, S)
    BY DEF IsReleased
  <2>2. /\ y.u_balance[a] = x.u_balance[a] + Pays(a, t)
        /\ y.cache[a] = x.cache[a] + Spends(a, t)
    BY <1>1
  <2>3. /\ SentBy(a, S \cup {t}) = SentBy(a, S) + Pays(a, t)
        /\ SpentBy(a, S \cup {t}) = SpentBy(a, S) + Spends(a, t)
    BY <1>2
  <2>4. /\ SentBy(a, S) \in Int /\ SpentBy(a, S) \in Int
        /\ Pays(a, t) \in Int /\ Spends(a, t) \in Int
        /\ b.u_balance[a] \in Int /\ b.cache[a] \in Int
    BY <1>3
  <2> QED BY <2>1, <2>2, <2>3, <2>4
<1>6. IsReleased(y, b, S \cup {t})
  BY <1>4, <1>5 DEF IsReleased
<1> QED BY <1>6 DEF y

\* The whole list.
LEMMA ReleaseAll ==
  ASSUME NEW b \in Book, NEW l \in Seq(Tx), IsInjective(l)
  PROVE  /\ FoldLeft(UndoUnconfirmed, b, l) \in Book
         /\ IsReleased(FoldLeft(UndoUnconfirmed, b, l), b, ToSet(l))
<1> DEFINE J == [i \in 0 .. Len(l) |-> {x \in Book : IsReleased(x, b, First(l, i))}]
<1>1. Len(l) \in Nat /\ 0 \in 0 .. Len(l) /\ \A i \in 1 .. Len(l) : i \in 0 .. Len(l) /\ i - 1 \in 0 .. Len(l)
  OBVIOUS
<1>2. b \in J[0]
  <2>1. \A a \in Account : /\ SentBy(a, {}) = 0 /\ SpentBy(a, {}) = 0
                           /\ b.u_balance[a] \in Int /\ b.cache[a] \in Int
    BY SentByIs, SpentByIs DEF Book
  <2>2. IsReleased(b, b, {})
    BY <2>1 DEF IsReleased
  <2>3. First(l, 0) = {}
    BY FirstIs
  <2> QED BY <1>1, <2>2, <2>3
<1>3. \A i \in 1 .. Len(l) : \A x \in Book : x \in J[i - 1] => UndoUnconfirmed(x, l[i]) \in J[i]
  <2> SUFFICES ASSUME NEW i \in 1 .. Len(l), NEW x \in Book, x \in J[i - 1]
               PROVE  UndoUnconfirmed(x, l[i]) \in J[i]
    OBVIOUS
  <2>1. IsReleased(x, b, First(l, i - 1))
    BY <1>1
  <2>2. /\ l[i] \in Tx \ First(l, i - 1) /\ First(l, i - 1) \in SUBSET Tx
        /\ First(l, i) = First(l, i - 1) \cup {l[i]}
    BY FirstIs
  <2>3. IsReleased(UndoUnconfirmed(x, l[i]), b, First(l, i))
    BY <2>1, <2>2, ReleaseStep
  <2>4. UndoUnconfirmed(x, l[i]) \in Book
    BY <2>2, ReleaseIs
  <2> QED BY <1>1, <2>3, <2>4
<1>4. \A x : x \in J[Len(l)] => IsReleased(x, b, ToSet(l))
  BY <1>1, FirstIs
<1> HIDE DEF J
<1> QED BY <1>2, <1>3, <1>4, ReleaseFold

-----------------------------------------------------------------------------
(* A block, undone *)

\* x is the book b without the transfers of S.
IsUndone(x, b, S) ==
  \A a \in Account :
    /\ x.balance[a] = b.balance[a] - Moves(a, S)
    /\ x.asset[a] = b.asset[a] - AssetMoves(a, S)
    /\ x.u_balance[a] - x.balance[a] = b.u_balance[a] - b.balance[a]
    /\ x.cache[a] - x.asset[a] = b.cache[a] - b.asset[a]
    /\ (\A t \in S : ~t.asset) => x.asset[a] = b.asset[a]

\* One transfer more.
LEMMA UndoStep ==
  ASSUME NEW b \in Book, NEW x \in Book, NEW S \in SUBSET Tx, NEW t \in Tx \ S,
         IsUndone(x, b, S)
  PROVE  IsUndone(UndoBoth(x, t), b, S \cup {t})
<1> DEFINE y == UndoBoth(x, t)
<1>1. \A a \in Account :
        /\ y.balance[a] = x.balance[a] + Pays(a, t) - Receives(a, t)
        /\ y.u_balance[a] = x.u_balance[a] + Pays(a, t) - Receives(a, t)
        /\ y.asset[a] = x.asset[a] + Spends(a, t) - Gains(a, t)
        /\ y.cache[a] = x.cache[a] + Spends(a, t) - Gains(a, t)
  BY UndoBothIs
<1> HIDE DEF y
<1>2. ASSUME NEW a \in Account
      PROVE  /\ y.balance[a] = b.balance[a] - Moves(a, S \cup {t})
             /\ y.asset[a] = b.asset[a] - AssetMoves(a, S \cup {t})
             /\ y.u_balance[a] - y.balance[a] = b.u_balance[a] - b.balance[a]
             /\ y.cache[a] - y.asset[a] = b.cache[a] - b.asset[a]
             /\ (\A u \in S \cup {t} : ~u.asset) => y.asset[a] = b.asset[a]
  <2>1. /\ Pays(a, t) \in Int /\ Receives(a, t) \in Int
        /\ Spends(a, t) \in Int /\ Gains(a, t) \in Int
    BY TransferTypes
  <2>2. /\ b.balance[a] \in Int /\ b.u_balance[a] \in Int
        /\ b.asset[a] \in Int /\ b.cache[a] \in Int
    BY DEF Book
  <2>3. /\ x.balance[a] \in Int /\ x.u_balance[a] \in Int
        /\ x.asset[a] \in Int /\ x.cache[a] \in Int
    BY DEF Book
  <2>4. Moves(a, S \cup {t}) = Moves(a, S) + Receives(a, t) - Pays(a, t) /\ Moves(a, S) \in Int
    BY MovesAre
  <2>5. /\ AssetMoves(a, S \cup {t}) = AssetMoves(a, S) + Gains(a, t) - Spends(a, t)
        /\ AssetMoves(a, S) \in Int
    BY AssetMovesAre
  <2>6. /\ x.balance[a] = b.balance[a] - Moves(a, S)
        /\ x.asset[a] = b.asset[a] - AssetMoves(a, S)
        /\ x.u_balance[a] - x.balance[a] = b.u_balance[a] - b.balance[a]
        /\ x.cache[a] - x.asset[a] = b.cache[a] - b.asset[a]
        /\ (\A u \in S : ~u.asset) => x.asset[a] = b.asset[a]
    BY DEF IsUndone
  <2>7. /\ y.balance[a] = x.balance[a] + Pays(a, t) - Receives(a, t)
        /\ y.u_balance[a] = x.u_balance[a] + Pays(a, t) - Receives(a, t)
        /\ y.asset[a] = x.asset[a] + Spends(a, t) - Gains(a, t)
        /\ y.cache[a] = x.cache[a] + Spends(a, t) - Gains(a, t)
    BY <1>1
  <2>8. ~t.asset => Spends(a, t) = 0 /\ Gains(a, t) = 0
    BY TransferTypes DEF Spends, Gains
  <2>9. (\A u \in S \cup {t} : ~u.asset) => ~t.asset /\ (\A u \in S : ~u.asset)
    OBVIOUS
  <2>10. y.balance[a] = b.balance[a] - Moves(a, S \cup {t})
    BY <2>1, <2>2, <2>3, <2>4, <2>6, <2>7
  <2>11. y.asset[a] = b.asset[a] - AssetMoves(a, S \cup {t})
    BY <2>1, <2>2, <2>3, <2>5, <2>6, <2>7
  <2>12. y.u_balance[a] - y.balance[a] = b.u_balance[a] - b.balance[a]
    BY <2>1, <2>2, <2>3, <2>6, <2>7
  <2>13. y.cache[a] - y.asset[a] = b.cache[a] - b.asset[a]
    BY <2>1, <2>2, <2>3, <2>6, <2>7
  <2>14. (\A u \in S \cup {t} : ~u.asset) => y.asset[a] = b.asset[a]
    BY <2>2, <2>6, <2>7, <2>8, <2>9
  <2> QED BY <2>10, <2>11, <2>12, <2>13, <2>14
<1>3. IsUndone(y, b, S \cup {t})
  BY <1>2 DEF IsUndone
<1> QED BY <1>3 DEF y

\* The whole block.
LEMMA UndoAll ==
  ASSUME NEW b \in Book, NEW l \in Seq(Tx), IsInjective(l)
  PROVE  /\ FoldLeft(UndoBoth, b, l) \in Book
         /\ IsUndone(FoldLeft(UndoBoth, b, l), b, ToSet(l))
<1> DEFINE J == [i \in 0 .. Len(l) |-> {x \in Book : IsUndone(x, b, First(l, i))}]
<1>1. Len(l) \in Nat /\ 0 \in 0 .. Len(l) /\ \A i \in 1 .. Len(l) : i \in 0 .. Len(l) /\ i - 1 \in 0 .. Len(l)
  OBVIOUS
<1>2. b \in J[0]
  <2>1. \A a \in Account : /\ Moves(a, {}) = 0 /\ AssetMoves(a, {}) = 0
                           /\ b.balance[a] \in Int /\ b.asset[a] \in Int
    BY MovesAre, AssetMovesAre DEF Book
  <2>2. IsUndone(b, b, {})
    BY <2>1 DEF IsUndone
  <2>3. First(l, 0) = {}
    BY FirstIs
  <2> QED BY <1>1, <2>2, <2>3
<1>3. \A i \in 1 .. Len(l) : \A x \in Book : x \in J[i - 1] => UndoBoth(x, l[i]) \in J[i]
  <2> SUFFICES ASSUME NEW i \in 1 .. Len(l), NEW x \in Book, x \in J[i - 1]
               PROVE  UndoBoth(x, l[i]) \in J[i]
    OBVIOUS
  <2>1. IsUndone(x, b, First(l, i - 1))
    BY <1>1
  <2>2. /\ l[i] \in Tx \ First(l, i - 1) /\ First(l, i - 1) \in SUBSET Tx
        /\ First(l, i) = First(l, i - 1) \cup {l[i]}
    BY FirstIs
  <2>3. IsUndone(UndoBoth(x, l[i]), b, First(l, i))
    BY <2>1, <2>2, UndoStep
  <2>4. UndoBoth(x, l[i]) \in Book
    BY <2>2, UndoBothIs
  <2> QED BY <1>1, <2>3, <2>4
<1>4. \A x : x \in J[Len(l)] => IsUndone(x, b, ToSet(l))
  BY <1>1, FirstIs
<1> HIDE DEF J
<1> QED BY <1>2, <1>3, <1>4, UndoFold

-----------------------------------------------------------------------------
(* Transactions received *)

\* No sender of a transfer in l holds more than it has.
IsCovered(bk, l) ==
  \A t \in ToSet(l) : bk.u_balance[t.sender] >= 0 /\ (t.asset => bk.cache[t.sender] >= 0)

\* What receiving keeps: s has come from r, and c is in blocks.
IsReceived(s, r, c) ==
  /\ s.bk.balance = r.bk.balance /\ s.bk.asset = r.bk.asset
  /\ IsInjective(s.trs) /\ ToSet(s.trs) \cap c = {}
  /\ IsCovered(r.bk, r.trs) => IsCovered(s.bk, s.trs)
  /\ \A a \in Account :
       /\ s.bk.u_balance[a] + SentBy(a, ToSet(s.trs)) = r.bk.u_balance[a] + SentBy(a, ToSet(r.trs))
       /\ s.bk.cache[a] + SpentBy(a, ToSet(s.trs)) = r.bk.cache[a] + SpentBy(a, ToSet(r.trs))

\* What can be held leaves the pool covered.
LEMMA HoldCovers ==
  ASSUME NEW b \in Book, NEW l \in Seq(Tx), NEW t \in Tx, CanHold(b, t), IsCovered(b, l)
  PROVE  IsCovered(ApplyUnconfirmed(b, t), Append(l, t))
<1> DEFINE y == ApplyUnconfirmed(b, t)
<1>1. \A a \in Account : /\ y.u_balance[a] = b.u_balance[a] - Pays(a, t)
                         /\ y.cache[a] = b.cache[a] - Spends(a, t)
  BY HoldIs
<1> HIDE DEF y
<1>2. /\ t.sender \in Account /\ Cost(t) \in Int /\ Spend(t) \in Int
      /\ b.u_balance[t.sender] \in Int /\ b.cache[t.sender] \in Int
      /\ ~t.asset => Spend(t) = 0
  BY TransferTypes DEF Book
<1>3. /\ y.u_balance[t.sender] = b.u_balance[t.sender] - Cost(t)
      /\ y.cache[t.sender] = b.cache[t.sender] - Spend(t)
  BY <1>1, <1>2 DEF Pays, Spends
<1>4. /\ b.u_balance[t.sender] >= Cost(t)
      /\ t.asset => b.cache[t.sender] >= Spend(t)
  BY DEF CanHold
<1>5. y.u_balance[t.sender] >= 0 /\ (t.asset => y.cache[t.sender] >= 0)
  BY <1>2, <1>3, <1>4
<1>6. ASSUME NEW u \in ToSet(l)
      PROVE  y.u_balance[u.sender] >= 0 /\ (u.asset => y.cache[u.sender] >= 0)
  <2>1. u \in Tx
    BY DEF ToSet
  <2>2. /\ u.sender \in Account
        /\ b.u_balance[u.sender] \in Int /\ b.cache[u.sender] \in Int
    BY <2>1, TransferTypes DEF Book
  <2>3. b.u_balance[u.sender] >= 0 /\ (u.asset => b.cache[u.sender] >= 0)
    BY DEF IsCovered
  <2>4. CASE u.sender # t.sender
    <3>1. Pays(u.sender, t) = 0 /\ Spends(u.sender, t) = 0
      BY <2>4 DEF Pays, Spends
    <3> QED BY <1>1, <2>2, <2>3, <3>1
  <2>5. CASE u.sender = t.sender
    <3>1. CASE t.asset
      BY <1>5, <2>5, <3>1
    <3>2. CASE ~t.asset
      BY <1>2, <1>3, <1>5, <2>3, <2>5, <3>2
    <3> QED BY <3>1, <3>2
  <2> QED BY <2>4, <2>5
<1>7. ToSet(Append(l, t)) = ToSet(l) \cup {t}
  BY AppendIs
<1> QED BY <1>5, <1>6, <1>7 DEF IsCovered, y

\* One transaction more.
LEMMA ReceiveStep ==
  ASSUME NEW r \in Receivings, NEW s \in Receivings, NEW t \in Tx, NEW c, NEW v,
         IsReceived(s, r, c)
  PROVE  IsReceived(ReceiveOne(s, t, c, v), r, c)
<1> DEFINE y == ReceiveOne(s, t, c, v)
<1>1. \/ y.bk = s.bk /\ y.trs = s.trs
      \/ /\ t \notin ToSet(s.trs) /\ t \notin c /\ CanHold(s.bk, t)
         /\ y.bk = ApplyUnconfirmed(s.bk, t) /\ y.trs = Append(s.trs, t)
  BY DEF ReceiveOne, Receiving, IsKnown, Receivings
<1> HIDE DEF y
<1>2. CASE y.bk = s.bk /\ y.trs = s.trs
  <2>1. IsReceived(y, r, c)
    BY <1>2 DEF IsReceived
  <2> QED BY <2>1 DEF y
<1>3. CASE /\ t \notin ToSet(s.trs) /\ t \notin c /\ CanHold(s.bk, t)
           /\ y.bk = ApplyUnconfirmed(s.bk, t) /\ y.trs = Append(s.trs, t)
  <2>1. s.bk \in Book /\ s.trs \in Seq(Tx) /\ r.bk \in Book /\ r.trs \in Seq(Tx)
    BY DEF Receivings
  <2>2. ToSet(s.trs) \in SUBSET Tx /\ ToSet(r.trs) \in SUBSET Tx /\ t \in Tx \ ToSet(s.trs)
    BY <1>3, <2>1 DEF ToSet
  <2>3. y.bk.balance = r.bk.balance /\ y.bk.asset = r.bk.asset
    BY <1>3, <2>1, HoldIs DEF IsReceived
  <2>4. ToSet(y.trs) = ToSet(s.trs) \cup {t} /\ IsInjective(y.trs) /\ ToSet(y.trs) \cap c = {}
    <3>1. /\ ToSet(y.trs) = ToSet(s.trs) \cup {t}
          /\ IsInjective(s.trs) /\ t \notin ToSet(s.trs) => IsInjective(y.trs)
      BY <1>3, <2>1, AppendIs
    <3>2. IsInjective(s.trs) /\ ToSet(s.trs) \cap c = {}
      BY DEF IsReceived
    <3> QED BY <1>3, <3>1, <3>2
  <2>5. IsCovered(r.bk, r.trs) => IsCovered(y.bk, y.trs)
    BY <1>3, <2>1, HoldCovers DEF IsReceived
  <2>6. ASSUME NEW a \in Account
        PROVE  /\ y.bk.u_balance[a] + SentBy(a, ToSet(y.trs)) = r.bk.u_balance[a] + SentBy(a, ToSet(r.trs))
               /\ y.bk.cache[a] + SpentBy(a, ToSet(y.trs)) = r.bk.cache[a] + SpentBy(a, ToSet(r.trs))
    <3>1. /\ y.bk.u_balance[a] = s.bk.u_balance[a] - Pays(a, t)
          /\ y.bk.cache[a] = s.bk.cache[a] - Spends(a, t)
      BY <1>3, <2>1, HoldIs
    <3>2. /\ SentBy(a, ToSet(y.trs)) = SentBy(a, ToSet(s.trs)) + Pays(a, t)
          /\ SpentBy(a, ToSet(y.trs)) = SpentBy(a, ToSet(s.trs)) + Spends(a, t)
      BY <2>2, <2>4, SentByIs, SpentByIs
    <3>3. /\ s.bk.u_balance[a] + SentBy(a, ToSet(s.trs)) = r.bk.u_balance[a] + SentBy(a, ToSet(r.trs))
          /\ s.bk.cache[a] + SpentBy(a, ToSet(s.trs)) = r.bk.cache[a] + SpentBy(a, ToSet(r.trs))
      BY DEF IsReceived
    <3>4. /\ SentBy(a, ToSet(s.trs)) \in Int /\ SpentBy(a, ToSet(s.trs)) \in Int
          /\ Pays(a, t) \in Int /\ Spends(a, t) \in Int
          /\ s.bk.u_balance[a] \in Int /\ s.bk.cache[a] \in Int
      <4>1. s.bk.u_balance[a] \in Int /\ s.bk.cache[a] \in Int
        BY <2>1 DEF Book
      <4>2. SentBy(a, ToSet(s.trs)) \in Int /\ SpentBy(a, ToSet(s.trs)) \in Int
        BY <2>2, SentByIs, SpentByIs
      <4> QED BY <4>1, <4>2, TransferTypes
    <3>5. y.bk.u_balance[a] + SentBy(a, ToSet(y.trs)) = s.bk.u_balance[a] + SentBy(a, ToSet(s.trs))
      BY <3>1, <3>2, <3>4
    <3>6. y.bk.cache[a] + SpentBy(a, ToSet(y.trs)) = s.bk.cache[a] + SpentBy(a, ToSet(s.trs))
      BY <3>1, <3>2, <3>4
    <3> QED BY <3>3, <3>5, <3>6
  <2>7. IsReceived(y, r, c)
    BY <2>3, <2>4, <2>5, <2>6 DEF IsReceived
  <2> QED BY <2>7 DEF y
<1> QED BY <1>1, <1>2, <1>3

\* A whole list, on a pool that has nothing twice and nothing of c.
LEMMA ReceiveList ==
  ASSUME NEW r \in Receivings, NEW l \in Seq(Tx), NEW c, NEW v,
         IsInjective(r.trs), ToSet(r.trs) \cap c = {}
  PROVE  ReceiveAll(r, l, c, v) \in Receivings /\ IsReceived(ReceiveAll(r, l, c, v), r, c)
<1> DEFINE J == [i \in 0 .. Len(l) |-> {s \in Receivings : IsReceived(s, r, c)}]
<1>1. Len(l) \in Nat /\ 0 \in 0 .. Len(l) /\ Len(l) \in 0 .. Len(l)
      /\ \A i \in 1 .. Len(l) : i \in 0 .. Len(l) /\ i - 1 \in 0 .. Len(l)
  OBVIOUS
<1>2. r \in J[0]
  <2>1. IsReceived(r, r, c)
    BY DEF IsReceived
  <2> QED BY <1>1, <2>1
<1>3. \A i \in 1 .. Len(l) : \A x \in Receivings : x \in J[i - 1] => ReceiveOne(x, l[i], c, v) \in J[i]
  <2> SUFFICES ASSUME NEW i \in 1 .. Len(l), NEW x \in Receivings, x \in J[i - 1]
               PROVE  ReceiveOne(x, l[i], c, v) \in J[i]
    OBVIOUS
  <2>1. IsReceived(x, r, c) /\ l[i] \in Tx
    BY <1>1
  <2>2. IsReceived(ReceiveOne(x, l[i], c, v), r, c)
    BY <2>1, ReceiveStep
  <2>3. ReceiveOne(x, l[i], c, v) \in Receivings
    BY <2>1, ReceiveOneType
  <2> QED BY <1>1, <2>2, <2>3
<1>4. \A x : x \in J[Len(l)] => IsReceived(x, r, c)
  BY <1>1
<1> HIDE DEF J
<1> QED BY <1>2, <1>3, <1>4, ReceiveFold

-----------------------------------------------------------------------------
(* A block, applied *)

\* Before is a strict order in which every two transfers have a place.
LEMMA SortedIs ==
  ASSUME NEW S \in SUBSET Tx
  PROVE  /\ Sorted(S) \in Seq(S) /\ Sorted(S) \in Seq(Tx)
         /\ ToSet(Sorted(S)) = S /\ IsInjective(Sorted(S))
<1> DEFINE B == [t \in S |-> {u \in S : Before(u, t)}]
           q == [p \in 1 .. Cardinality(S) |-> CHOOSE t \in S : Cardinality(B[t]) = p - 1]
           e(p) == CHOOSE t \in S : Cardinality({u \in S : Before(u, t)}) = p - 1
           d(p) == CHOOSE t \in S : Cardinality(B[t]) = p - 1
<1>1. IsFiniteSet(S)
  BY ConstantsAssumption, FS_Subset
<1>2. \A t \in S : t.amount \in Int /\ t.id \in Int
  BY ConstantsAssumption
<1>3. \A t, u \in S : t.id = u.id => t = u
  BY ConstantsAssumption
<1>4. \A t, u \in S : u \in B[t] <=> Before(u, t)
  OBVIOUS
<1>5. B \in [S -> SUBSET S]
  OBVIOUS
<1>6. \A p : d(p) = e(p)
  <2> SUFFICES ASSUME NEW p PROVE d(p) = e(p)
    OBVIOUS
  <2>1. \A t \in S : B[t] = {u \in S : Before(u, t)}
    OBVIOUS
  <2> HIDE DEF B
  <2> QED BY <2>1
<1>7. q = [p \in 1 .. Cardinality(S) |-> d(p)]
      /\ Sorted(S) = [p \in 1 .. Cardinality(S) |-> e(p)]
  BY DEF Sorted, InOrder
<1>8. q = Sorted(S)
  <2> HIDE DEF q, d, e
  <2> QED BY <1>6, <1>7
<1>9. q = [p \in 1 .. Cardinality(S) |-> CHOOSE t \in S : Cardinality(B[t]) = p - 1]
  OBVIOUS
<1> HIDE DEF B, q
<1>10. \A t \in S : t \notin B[t]
  BY <1>2, <1>4 DEF Before
<1>11. \A t, u \in S : t # u => t \in B[u] \/ u \in B[t]
  BY <1>2, <1>3, <1>4 DEF Before
<1>12. \A t, u \in S : u \in B[t] => B[u] \subseteq B[t]
  <2> SUFFICES ASSUME NEW t \in S, NEW u \in S, u \in B[t], NEW v \in B[u]
               PROVE  v \in B[t]
    OBVIOUS
  <2>1. v \in S
    BY <1>5
  <2>2. Before(u, t) /\ Before(v, u)
    BY <1>4, <2>1
  <2>3. Before(v, t)
    BY <1>2, <2>1, <2>2 DEF Before
  <2> QED BY <1>4, <2>1, <2>3
<1>13. q \in Seq(S) /\ ToSet(q) = S /\ IsInjective(q)
  BY <1>1, <1>5, <1>9, <1>10, <1>11, <1>12, RanksList
<1>14. q \in Seq(Tx)
  BY <1>13
<1> QED BY <1>8, <1>13, <1>14

\* s is what applying the transfers of S to the book b has come to.
IsProcessed(s, b, S) ==
  /\ s.done \subseteq S /\ (s.failed = {} => s.done = S)
  /\ \A a \in Account :
       /\ s.bk.balance[a] = b.balance[a] + Moves(a, s.done)
       /\ s.bk.asset[a] = b.asset[a] + AssetMoves(a, s.done)
       /\ s.bk.u_balance[a] - s.bk.balance[a] = b.u_balance[a] - b.balance[a]
       /\ s.bk.cache[a] - s.bk.asset[a] = b.cache[a] - b.asset[a]
       /\ b.balance[a] >= 0 => s.bk.balance[a] >= 0
       /\ b.asset[a] >= 0 => s.bk.asset[a] >= 0

\* What holding and then applying t does together.
LEMMA HoldAndApplyIs ==
  ASSUME NEW x \in Book, NEW t \in Tx, NEW y, y = Apply(ApplyUnconfirmed(x, t), t)
  PROVE  /\ y \in Book
         /\ \A a \in Account :
              /\ y.balance[a] = x.balance[a] - Pays(a, t) + Receives(a, t)
              /\ y.u_balance[a] = x.u_balance[a] - Pays(a, t) + Receives(a, t)
              /\ y.asset[a] = x.asset[a] - Spends(a, t) + Gains(a, t)
              /\ y.cache[a] = x.cache[a] - Spends(a, t) + Gains(a, t)
<1> DEFINE h == ApplyUnconfirmed(x, t)
<1>1. /\ h \in Book /\ h.balance = x.balance /\ h.asset = x.asset
      /\ \A a \in Account : /\ h.u_balance[a] = x.u_balance[a] - Pays(a, t)
                            /\ h.cache[a] = x.cache[a] - Spends(a, t)
  BY HoldIs
<1>2. y = Apply(h, t)
  OBVIOUS
<1> HIDE DEF h
<1>3. /\ y \in Book
      /\ \A a \in Account :
           /\ y.balance[a] = h.balance[a] - Pays(a, t) + Receives(a, t)
           /\ y.u_balance[a] = h.u_balance[a] + Receives(a, t)
           /\ y.asset[a] = h.asset[a] - Spends(a, t) + Gains(a, t)
           /\ y.cache[a] = h.cache[a] + Gains(a, t)
  BY <1>1, <1>2, ApplyIs
<1> QED BY <1>1, <1>3

\* One transfer more.
LEMMA ProcessStep ==
  ASSUME NEW b \in Book, NEW s \in Processings, NEW S \in SUBSET Tx, NEW t \in Tx \ S,
         IsProcessed(s, b, S)
  PROVE  IsProcessed(ProcessOne(s, t), b, S \cup {t})
<1> DEFINE y == ProcessOne(s, t)
           z == Apply(ApplyUnconfirmed(s.bk, t), t)
           h == ApplyUnconfirmed(s.bk, t)
<1>1. \/ y.bk = s.bk /\ y.done = s.done /\ y.failed # {}
      \/ /\ s.failed = {} /\ y.failed = {} /\ y.done = s.done \cup {t} /\ y.bk = z
         /\ CanApply(h, t)
  BY DEF ProcessOne, Processings
<1> HIDE DEF y
<1>2. CASE y.bk = s.bk /\ y.done = s.done /\ y.failed # {}
  <2>1. IsProcessed(y, b, S \cup {t})
    BY <1>2 DEF IsProcessed
  <2> QED BY <2>1 DEF y
<1>3. CASE /\ s.failed = {} /\ y.failed = {} /\ y.done = s.done \cup {t} /\ y.bk = z
           /\ CanApply(h, t)
  <2>1. s.bk \in Book
    BY DEF Processings
  <2>2. \A a \in Account :
          /\ z.balance[a] = s.bk.balance[a] - Pays(a, t) + Receives(a, t)
          /\ z.u_balance[a] = s.bk.u_balance[a] - Pays(a, t) + Receives(a, t)
          /\ z.asset[a] = s.bk.asset[a] - Spends(a, t) + Gains(a, t)
          /\ z.cache[a] = s.bk.cache[a] - Spends(a, t) + Gains(a, t)
    BY <2>1, HoldAndApplyIs
  <2>3. h.balance = s.bk.balance /\ h.asset = s.bk.asset
    BY <2>1, HoldIs
  <2> HIDE DEF z, h
  <2>4. s.bk.balance[t.sender] >= Cost(t) /\ s.bk.asset[t.sender] >= Spend(t)
    BY <1>3, <2>3 DEF CanApply
  <2>5. s.done = S /\ y.done = S \cup {t}
    BY <1>3 DEF IsProcessed
  <2>6. ASSUME NEW a \in Account
        PROVE  /\ y.bk.balance[a] = b.balance[a] + Moves(a, y.done)
               /\ y.bk.asset[a] = b.asset[a] + AssetMoves(a, y.done)
               /\ y.bk.u_balance[a] - y.bk.balance[a] = b.u_balance[a] - b.balance[a]
               /\ y.bk.cache[a] - y.bk.asset[a] = b.cache[a] - b.asset[a]
               /\ b.balance[a] >= 0 => y.bk.balance[a] >= 0
               /\ b.asset[a] >= 0 => y.bk.asset[a] >= 0
    <3>1. /\ Pays(a, t) \in Nat /\ Receives(a, t) \in Nat
          /\ Spends(a, t) \in Nat /\ Gains(a, t) \in Nat
      BY TransferTypes
    <3>2. /\ b.balance[a] \in Int /\ b.u_balance[a] \in Int
          /\ b.asset[a] \in Int /\ b.cache[a] \in Int
      BY DEF Book
    <3>3. /\ s.bk.balance[a] \in Int /\ s.bk.u_balance[a] \in Int
          /\ s.bk.asset[a] \in Int /\ s.bk.cache[a] \in Int
      BY <2>1 DEF Book
    <3>4. Moves(a, S \cup {t}) = Moves(a, S) + Receives(a, t) - Pays(a, t) /\ Moves(a, S) \in Int
      BY MovesAre
    <3>5. /\ AssetMoves(a, S \cup {t}) = AssetMoves(a, S) + Gains(a, t) - Spends(a, t)
          /\ AssetMoves(a, S) \in Int
      BY AssetMovesAre
    <3>6. /\ s.bk.balance[a] = b.balance[a] + Moves(a, S)
          /\ s.bk.asset[a] = b.asset[a] + AssetMoves(a, S)
          /\ s.bk.u_balance[a] - s.bk.balance[a] = b.u_balance[a] - b.balance[a]
          /\ s.bk.cache[a] - s.bk.asset[a] = b.cache[a] - b.asset[a]
          /\ b.balance[a] >= 0 => s.bk.balance[a] >= 0
          /\ b.asset[a] >= 0 => s.bk.asset[a] >= 0
      BY <2>5 DEF IsProcessed
    <3>7. /\ y.bk.balance[a] = s.bk.balance[a] - Pays(a, t) + Receives(a, t)
          /\ y.bk.u_balance[a] = s.bk.u_balance[a] - Pays(a, t) + Receives(a, t)
          /\ y.bk.asset[a] = s.bk.asset[a] - Spends(a, t) + Gains(a, t)
          /\ y.bk.cache[a] = s.bk.cache[a] - Spends(a, t) + Gains(a, t)
      BY <1>3, <2>2
    <3>8. s.bk.balance[a] >= 0 => s.bk.balance[a] >= Pays(a, t)
      BY <2>4, <3>3 DEF Pays
    <3>9. s.bk.asset[a] >= 0 => s.bk.asset[a] >= Spends(a, t)
      BY <2>4, <3>3 DEF Spends
    <3>10. y.bk.balance[a] = b.balance[a] + Moves(a, S \cup {t})
      BY <3>1, <3>2, <3>3, <3>4, <3>6, <3>7
    <3>11. y.bk.asset[a] = b.asset[a] + AssetMoves(a, S \cup {t})
      BY <3>1, <3>2, <3>3, <3>5, <3>6, <3>7
    <3>12. y.bk.u_balance[a] - y.bk.balance[a] = b.u_balance[a] - b.balance[a]
      BY <3>1, <3>2, <3>3, <3>6, <3>7
    <3>13. y.bk.cache[a] - y.bk.asset[a] = b.cache[a] - b.asset[a]
      BY <3>1, <3>2, <3>3, <3>6, <3>7
    <3>14. b.balance[a] >= 0 => y.bk.balance[a] >= 0
      BY <3>1, <3>3, <3>6, <3>7, <3>8
    <3>15. b.asset[a] >= 0 => y.bk.asset[a] >= 0
      BY <3>1, <3>3, <3>6, <3>7, <3>9
    <3> QED BY <2>5, <3>10, <3>11, <3>12, <3>13, <3>14, <3>15
  <2>7. IsProcessed(y, b, S \cup {t})
    BY <2>5, <2>6 DEF IsProcessed
  <2> QED BY <2>7 DEF y
<1> QED BY <1>1, <1>2, <1>3

\* Nothing applied yet.
LEMMA ProcessStart ==
  ASSUME NEW b \in Book, NEW s, s = [bk |-> b, done |-> {}, failed |-> {}]
  PROVE  s \in Processings /\ s.failed = {} /\ s.bk = b /\ s.done = {} /\ IsProcessed(s, b, {})
<1>1. s \in Processings /\ s.bk = b /\ s.done = {} /\ s.failed = {}
  BY DEF Processings
<1>2. \A a \in Account : /\ Moves(a, {}) = 0 /\ AssetMoves(a, {}) = 0
                         /\ b.balance[a] \in Int /\ b.asset[a] \in Int
  BY MovesAre, AssetMovesAre DEF Book
<1>3. IsProcessed(s, b, {})
  BY <1>1, <1>2 DEF IsProcessed
<1> QED BY <1>1, <1>3

\* A whole block.
LEMMA ProcessAll ==
  ASSUME NEW b \in Book, NEW l \in Seq(Tx), IsInjective(l)
  PROVE  Process(b, l) \in Processings /\ IsProcessed(Process(b, l), b, ToSet(l))
<1> DEFINE J == [i \in 0 .. Len(l) |-> {s \in Processings : IsProcessed(s, b, First(l, i))}]
           s0 == [bk |-> b, done |-> {}, failed |-> {}]
<1>1. Len(l) \in Nat /\ 0 \in 0 .. Len(l) /\ Len(l) \in 0 .. Len(l)
      /\ \A i \in 1 .. Len(l) : i \in 0 .. Len(l) /\ i - 1 \in 0 .. Len(l)
  OBVIOUS
<1>2. s0 \in Processings /\ IsProcessed(s0, b, {})
  BY ProcessStart
<1>3. Process(b, l) = FoldLeft(ProcessOne, s0, l)
  BY DEF Process
<1> HIDE DEF s0
<1>4. s0 \in J[0]
  <2>1. First(l, 0) = {}
    BY FirstIs
  <2> QED BY <1>1, <1>2, <2>1
<1>5. \A i \in 1 .. Len(l) : \A x \in Processings : x \in J[i - 1] => ProcessOne(x, l[i]) \in J[i]
  <2> SUFFICES ASSUME NEW i \in 1 .. Len(l), NEW x \in Processings, x \in J[i - 1]
               PROVE  ProcessOne(x, l[i]) \in J[i]
    OBVIOUS
  <2>1. IsProcessed(x, b, First(l, i - 1))
    BY <1>1
  <2>2. /\ l[i] \in Tx \ First(l, i - 1) /\ First(l, i - 1) \in SUBSET Tx
        /\ First(l, i) = First(l, i - 1) \cup {l[i]}
    BY FirstIs
  <2>3. IsProcessed(ProcessOne(x, l[i]), b, First(l, i))
    BY <2>1, <2>2, ProcessStep
  <2>4. ProcessOne(x, l[i]) \in Processings
    BY <2>2, ProcessOneType
  <2> QED BY <1>1, <2>3, <2>4
<1>6. \A x : x \in J[Len(l)] => IsProcessed(x, b, ToSet(l))
  BY <1>1, FirstIs
<1> HIDE DEF J
<1>7. FoldLeft(ProcessOne, s0, l) \in Processings /\ FoldLeft(ProcessOne, s0, l) \in J[Len(l)]
  BY <1>2, <1>4, <1>5, ProcessFold
<1> QED BY <1>3, <1>6, <1>7

\* The book b has what the senders of P spend in P, and no more unconfirmed than
\* confirmed.
IsProvided(b, P) ==
  /\ \A a \in Account : /\ b.u_balance[a] <= b.balance[a] /\ b.cache[a] <= b.asset[a]
                        /\ b.asset[a] >= 0
  /\ \A t \in P : /\ b.u_balance[t.sender] >= SentBy(t.sender, P)
                  /\ t.asset => b.cache[t.sender] >= SpentBy(t.sender, P)

\* Then the next transfer of P does not fail.
LEMMA ForgeStep ==
  ASSUME NEW b \in Book, NEW s \in Processings, NEW P \in SUBSET Tx, NEW S \in SUBSET P,
         NEW t \in P \ S, IsProvided(b, P), IsProcessed(s, b, S), s.failed = {}
  PROVE  ProcessOne(s, t).failed = {}
<1> DEFINE h == ApplyUnconfirmed(s.bk, t)
           a == t.sender
<1>1. s.bk \in Book /\ t \in Tx /\ s.done = S /\ S \in SUBSET Tx /\ S \cup {t} \in SUBSET P
  BY DEF Processings, IsProcessed
<1>2. h.balance = s.bk.balance /\ h.asset = s.bk.asset
  BY <1>1, HoldIs
<1> HIDE DEF h
<1>3. /\ a \in Account /\ Cost(t) \in Nat /\ Spend(t) \in Nat
      /\ ~t.asset => Spend(t) = 0
      /\ Pays(a, t) = Cost(t) /\ Spends(a, t) = Spend(t)
  BY <1>1, TransferTypes DEF Pays, Spends
<1> HIDE DEF a
<1>4. /\ b.balance[a] \in Int /\ b.u_balance[a] \in Int
      /\ b.asset[a] \in Int /\ b.cache[a] \in Int
  BY <1>3 DEF Book
<1>5. /\ s.bk.balance[a] \in Int /\ s.bk.u_balance[a] \in Int
      /\ s.bk.asset[a] \in Int /\ s.bk.cache[a] \in Int
  BY <1>1, <1>3 DEF Book
<1>6. /\ s.bk.balance[a] = b.balance[a] + Moves(a, S)
      /\ s.bk.asset[a] = b.asset[a] + AssetMoves(a, S)
      /\ s.bk.u_balance[a] - s.bk.balance[a] = b.u_balance[a] - b.balance[a]
      /\ s.bk.cache[a] - s.bk.asset[a] = b.cache[a] - b.asset[a]
      /\ b.asset[a] >= 0 => s.bk.asset[a] >= 0
  BY <1>1, <1>3 DEF IsProcessed
<1>7. /\ b.u_balance[a] <= b.balance[a] /\ b.cache[a] <= b.asset[a] /\ b.asset[a] >= 0
      /\ b.u_balance[a] >= SentBy(a, P)
      /\ t.asset => b.cache[a] >= SpentBy(a, P)
  BY <1>3 DEF IsProvided, a
<1>8. SentBy(a, P) >= SentBy(a, S) + Cost(t) /\ SentBy(a, S) \in Nat /\ SentBy(a, P) \in Nat
  <2>1. SentBy(a, S \cup {t}) = SentBy(a, S) + Pays(a, t)
    BY <1>1, <1>3, SentByIs
  <2>2. SentBy(a, S \cup {t}) <= SentBy(a, P) /\ SentBy(a, S) \in Nat /\ SentBy(a, P) \in Nat
    BY <1>1, <1>3, SentByIs
  <2> QED BY <1>3, <2>1, <2>2
<1>9. SpentBy(a, P) >= SpentBy(a, S) + Spend(t) /\ SpentBy(a, S) \in Nat /\ SpentBy(a, P) \in Nat
  <2>1. SpentBy(a, S \cup {t}) = SpentBy(a, S) + Spends(a, t)
    BY <1>1, <1>3, SpentByIs
  <2>2. SpentBy(a, S \cup {t}) <= SpentBy(a, P) /\ SpentBy(a, S) \in Nat /\ SpentBy(a, P) \in Nat
    BY <1>1, <1>3, SpentByIs
  <2> QED BY <1>3, <2>1, <2>2
<1>10. /\ Moves(a, S) = ReceivedBy(a, S) - SentBy(a, S) /\ ReceivedBy(a, S) \in Nat
       /\ AssetMoves(a, S) = GainedBy(a, S) - SpentBy(a, S) /\ GainedBy(a, S) \in Nat
  BY <1>1, <1>3, ReceivedByIs, GainedByIs DEF Moves, AssetMoves
<1>11. s.bk.u_balance[a] >= Cost(t)
  BY <1>3, <1>4, <1>5, <1>6, <1>7, <1>8, <1>10
<1>12. t.asset => s.bk.cache[a] >= Spend(t)
  BY <1>3, <1>4, <1>5, <1>6, <1>7, <1>9, <1>10
<1>13. s.bk.balance[a] >= s.bk.u_balance[a] /\ s.bk.asset[a] >= s.bk.cache[a]
  BY <1>4, <1>5, <1>6, <1>7
<1>14. s.bk.asset[a] >= Spend(t)
  <2>1. CASE t.asset
    BY <1>3, <1>5, <1>12, <1>13, <2>1
  <2>2. CASE ~t.asset
    BY <1>3, <1>6, <1>7, <2>2
  <2> QED BY <2>1, <2>2
<1>15. CanHold(s.bk, t)
  BY <1>11, <1>12 DEF CanHold, a
<1>16. s.bk.balance[a] >= Cost(t)
  BY <1>3, <1>5, <1>11, <1>13
<1>17. CanApply(h, t)
  BY <1>2, <1>14, <1>16 DEF CanApply, a
<1> QED BY <1>15, <1>17 DEF ProcessOne, Processings, h

\* Nor does any of them, in any order.
LEMMA ForgeAll ==
  ASSUME NEW b \in Book, NEW P \in SUBSET Tx, IsProvided(b, P),
         NEW l \in Seq(P), IsInjective(l)
  PROVE  Process(b, l).failed = {}
<1> DEFINE J == [i \in 0 .. Len(l) |-> {s \in Processings :
                                         IsProcessed(s, b, First(l, i)) /\ s.failed = {}}]
           s0 == [bk |-> b, done |-> {}, failed |-> {}]
<1>1. Len(l) \in Nat /\ 0 \in 0 .. Len(l) /\ Len(l) \in 0 .. Len(l)
      /\ \A i \in 1 .. Len(l) : i \in 0 .. Len(l) /\ i - 1 \in 0 .. Len(l)
  OBVIOUS
<1>2. s0 \in Processings /\ IsProcessed(s0, b, {}) /\ s0.failed = {}
  BY ProcessStart
<1>3. Process(b, l) = FoldLeft(ProcessOne, s0, l)
  BY DEF Process
<1> HIDE DEF s0
<1>4. s0 \in J[0]
  <2>1. First(l, 0) = {}
    BY FirstIs
  <2> QED BY <1>1, <1>2, <2>1
<1>5. \A i \in 1 .. Len(l) : \A x \in Processings : x \in J[i - 1] => ProcessOne(x, l[i]) \in J[i]
  <2> SUFFICES ASSUME NEW i \in 1 .. Len(l), NEW x \in Processings, x \in J[i - 1]
               PROVE  ProcessOne(x, l[i]) \in J[i]
    OBVIOUS
  <2>1. IsProcessed(x, b, First(l, i - 1)) /\ x.failed = {}
    BY <1>1
  <2>2. /\ l[i] \in P \ First(l, i - 1) /\ First(l, i - 1) \in SUBSET P
        /\ First(l, i) = First(l, i - 1) \cup {l[i]}
    BY FirstIs
  <2>3. l[i] \in Tx \ First(l, i - 1) /\ First(l, i - 1) \in SUBSET Tx
    BY <2>2
  <2>4. IsProcessed(ProcessOne(x, l[i]), b, First(l, i))
    BY <2>1, <2>2, <2>3, ProcessStep
  <2>5. ProcessOne(x, l[i]) \in Processings
    BY <2>3, ProcessOneType
  <2>6. ProcessOne(x, l[i]).failed = {}
    BY <2>1, <2>2, ForgeStep
  <2> QED BY <1>1, <2>4, <2>5, <2>6
<1>6. \A x : x \in J[Len(l)] => x.failed = {}
  BY <1>1
<1> HIDE DEF J
<1>7. l \in Seq(Tx)
  OBVIOUS
<1>8. FoldLeft(ProcessOne, s0, l) \in J[Len(l)]
  BY <1>2, <1>4, <1>5, <1>7, ProcessFold
<1> QED BY <1>3, <1>6, <1>8

-----------------------------------------------------------------------------
(* The invariant *)

\* The transfers of the first h blocks of a chain c.
Upto(c, h) == UNION {ToSet(c[g]) : g \in 1 .. h}

\* Every chain that was, or that popping blocks leads back to, left every account
\* with what it had to pay: popLastBlock does not check it.
Solvent ==
  \A h \in 0 .. Len(chain), a \in Account :
    Funds[a] + Moves(a, Upto(chain, h)) >= 0 /\ AssetFunds[a] + AssetMoves(a, Upto(chain, h)) >= 0

\* A rollback of the cache gives what the database has, as long as no asset transfer
\* was popped since the last commit.
SavedReflects ==
  ~stale /\ ~popped =>
    \A a \in Account : saved[a] <= book.asset[a] /\ (~dropped => saved[a] = book.asset[a])

\* No sender in the pool holds more than it has.
Covered == ~underPool => IsCovered(book, pool)

\* The balances are those of the blocks: LedgerReflectsChain without the types.
BooksOfChain ==
  \A a \in Account : /\ book.balance[a] = Funds[a] + Moves(a, Confirmed)
                     /\ book.asset[a] = AssetFunds[a] + AssetMoves(a, Confirmed)

\* What a pool must keep to after a task: the book d, with the pool l, and what is in
\* blocks, C; `loose' if a transfer was dropped, `rolled' if the cache is stale.
IsKept(d, l, C, loose, rolled) ==
  /\ d \in Book /\ l \in Seq(Tx) /\ IsInjective(l) /\ ToSet(l) \cap C = {}
  /\ \A a \in Account :
       /\ d.u_balance[a] + SentBy(a, ToSet(l)) <= d.balance[a]
       /\ ~loose => d.u_balance[a] + SentBy(a, ToSet(l)) = d.balance[a]
       /\ ~rolled => d.cache[a] + SpentBy(a, ToSet(l)) <= d.asset[a]
       /\ ~rolled /\ ~loose => d.cache[a] + SpentBy(a, ToSet(l)) = d.asset[a]

\* A transaction is in one block at most, and once: PaidOnce without the pool.
BlocksOnce ==
  /\ \A h \in DOMAIN chain : IsInjective(chain[h])
  /\ \A g, h \in DOMAIN chain : g # h => ToSet(chain[g]) \cap ToSet(chain[h]) = {}

\* The inductive invariant.  IsKept stands for UnconfirmedReflectsPool,
\* CacheReflectsPool and the rest of PaidOnce (see KeptIs).
IInv ==
  /\ TypeOK /\ BooksOfChain /\ BlocksOnce
  /\ IsKept(book, pool, Confirmed, dropped, stale)
  /\ Solvent /\ SavedReflects /\ Covered

\* The types of what the invariants are about.
LEMMA Types ==
  ASSUME TypeOK
  PROVE  /\ book \in Book /\ pool \in Seq(Tx) /\ chain \in Seq(Seq(Tx))
         /\ ToSet(pool) \in SUBSET Tx /\ Confirmed \in SUBSET Tx
         /\ Len(chain) \in Nat /\ DOMAIN chain = 1 .. Len(chain)
         /\ Confirmed = Upto(chain, Len(chain))
         /\ \A h \in 0 .. Len(chain) : Upto(chain, h) \in SUBSET Tx
         /\ \A h \in 1 .. Len(chain) : chain[h] \in Seq(Tx) /\ ToSet(chain[h]) \in SUBSET Tx
<1>1. book \in Book /\ pool \in Seq(Tx) /\ chain \in Seq(Seq(Tx))
  BY DEF TypeOK
<1>2. Len(chain) \in Nat /\ DOMAIN chain = 1 .. Len(chain)
      /\ \A h \in 1 .. Len(chain) : chain[h] \in Seq(Tx)
  BY <1>1
<1>3. \A l \in Seq(Tx) : ToSet(l) \in SUBSET Tx
  BY DEF ToSet
<1>4. \A h \in 0 .. Len(chain) : Upto(chain, h) \in SUBSET Tx
  <2> SUFFICES ASSUME NEW h \in 0 .. Len(chain), NEW g \in 1 .. h PROVE ToSet(chain[g]) \in SUBSET Tx
    BY DEF Upto
  <2>1. g \in 1 .. Len(chain)
    BY <1>2
  <2> QED BY <1>2, <1>3, <2>1
<1>5. Confirmed = Upto(chain, Len(chain))
  BY <1>2 DEF Confirmed, Upto
<1> QED BY <1>1, <1>2, <1>3, <1>4, <1>5

\* LedgerReflectsChain, in the words of the invariant.
LEMMA ReflectsBooks ==
  ASSUME TypeOK
  PROVE  BooksOfChain <=> LedgerReflectsChain
<1>1. \A a \in Account :
        /\ Moves(a, Confirmed) = ReceivedBy(a, Confirmed) - SentBy(a, Confirmed)
        /\ ReceivedBy(a, Confirmed) \in Int /\ SentBy(a, Confirmed) \in Int
        /\ AssetMoves(a, Confirmed) = GainedBy(a, Confirmed) - SpentBy(a, Confirmed)
        /\ GainedBy(a, Confirmed) \in Int /\ SpentBy(a, Confirmed) \in Int
        /\ Funds[a] \in Int /\ AssetFunds[a] \in Int
  <2>1. Confirmed \in SUBSET Tx
    BY Types
  <2> QED BY <2>1, ConstantsAssumption, ReceivedByIs, SentByIs, GainedByIs, SpentByIs
          DEF Moves, AssetMoves
<1>2. \A a \in Account :
        /\ Funds[a] + Moves(a, Confirmed) = Funds[a] + ReceivedBy(a, Confirmed) - SentBy(a, Confirmed)
        /\ AssetFunds[a] + AssetMoves(a, Confirmed)
             = AssetFunds[a] + GainedBy(a, Confirmed) - SpentBy(a, Confirmed)
  BY <1>1
<1> QED BY <1>2 DEF BooksOfChain, LedgerReflectsChain

\* Receiving a list keeps to it.
LEMMA ReceiveKeeps ==
  ASSUME NEW d, NEW l, NEW C, NEW loose \in BOOLEAN, NEW rolled \in BOOLEAN,
         IsKept(d, l, C, loose, rolled), NEW list \in Seq(Tx), NEW v,
         NEW r, r = ReceiveAll(Receiving(d, l), list, C, v)
  PROVE  /\ IsKept(r.bk, r.trs, C, loose, rolled)
         /\ r.bk.balance = d.balance /\ r.bk.asset = d.asset
         /\ IsCovered(d, l) => IsCovered(r.bk, r.trs)
<1> DEFINE s == Receiving(d, l)
<1>1. s \in Receivings /\ s.bk = d /\ s.trs = l /\ IsInjective(l) /\ ToSet(l) \cap C = {}
      /\ d \in Book /\ l \in Seq(Tx)
  BY DEF IsKept, Receiving, Receivings
<1>0. r = ReceiveAll(s, list, C, v)
  OBVIOUS
<1> HIDE DEF s
<1>2. r \in Receivings /\ IsReceived(r, s, C)
  BY <1>0, <1>1, ReceiveList
<1>3. /\ r.bk \in Book /\ r.trs \in Seq(Tx) /\ ToSet(r.trs) \in SUBSET Tx /\ ToSet(l) \in SUBSET Tx
  BY <1>1, <1>2 DEF Receivings, ToSet
<1>4. /\ r.bk.balance = d.balance /\ r.bk.asset = d.asset
      /\ IsInjective(r.trs) /\ ToSet(r.trs) \cap C = {}
      /\ IsCovered(d, l) => IsCovered(r.bk, r.trs)
      /\ \A a \in Account :
           /\ r.bk.u_balance[a] + SentBy(a, ToSet(r.trs)) = d.u_balance[a] + SentBy(a, ToSet(l))
           /\ r.bk.cache[a] + SpentBy(a, ToSet(r.trs)) = d.cache[a] + SpentBy(a, ToSet(l))
  BY <1>1, <1>2 DEF IsReceived
<1>5. ASSUME NEW a \in Account
      PROVE  /\ r.bk.u_balance[a] + SentBy(a, ToSet(r.trs)) <= r.bk.balance[a]
             /\ ~loose => r.bk.u_balance[a] + SentBy(a, ToSet(r.trs)) = r.bk.balance[a]
             /\ ~rolled => r.bk.cache[a] + SpentBy(a, ToSet(r.trs)) <= r.bk.asset[a]
             /\ ~rolled /\ ~loose => r.bk.cache[a] + SpentBy(a, ToSet(r.trs)) = r.bk.asset[a]
  BY <1>4 DEF IsKept
<1>6. IsKept(r.bk, r.trs, C, loose, rolled)
  BY <1>3, <1>4, <1>5 DEF IsKept
<1> QED BY <1>4, <1>6

\* The invariant says of the pool that it is kept.
LEMMA KeptIs ==
  ASSUME TypeOK
  PROVE  IsKept(book, pool, Confirmed, dropped, stale) <=>
           /\ UnconfirmedReflectsPool /\ CacheReflectsPool
           /\ IsInjective(pool) /\ ToSet(pool) \cap Confirmed = {}
<1>1. book \in Book /\ pool \in Seq(Tx) /\ ToSet(pool) \in SUBSET Tx
  BY Types
<1>2. \A a \in Account :
        /\ SentBy(a, ToSet(pool)) \in Int /\ SpentBy(a, ToSet(pool)) \in Int
  BY <1>1, SentByIs, SpentByIs
<1>3. \A a \in Account :
        /\ book.balance[a] \in Int /\ book.u_balance[a] \in Int
        /\ book.asset[a] \in Int /\ book.cache[a] \in Int
  BY <1>1 DEF Book
<1>4. \A a \in Account :
        /\ book.u_balance[a] + SentBy(a, ToSet(pool)) <= book.balance[a]
             <=> book.u_balance[a] <= book.balance[a] - SentBy(a, ToSet(pool))
        /\ book.u_balance[a] + SentBy(a, ToSet(pool)) = book.balance[a]
             <=> book.u_balance[a] = book.balance[a] - SentBy(a, ToSet(pool))
        /\ book.cache[a] + SpentBy(a, ToSet(pool)) <= book.asset[a]
             <=> book.cache[a] <= book.asset[a] - SpentBy(a, ToSet(pool))
        /\ book.cache[a] + SpentBy(a, ToSet(pool)) = book.asset[a]
             <=> book.cache[a] = book.asset[a] - SpentBy(a, ToSet(pool))
  BY <1>2, <1>3
<1>5. dropped \in BOOLEAN /\ stale \in BOOLEAN
  BY DEF TypeOK
<1> QED BY <1>1, <1>4, <1>5 DEF IsKept, UnconfirmedReflectsPool, CacheReflectsPool

\* So does giving a list back to the pool, cut short anywhere.
LEMMA RedoneKeeps ==
  ASSUME NEW d, NEW l, NEW C, NEW loose \in BOOLEAN, NEW rolled \in BOOLEAN,
         IsKept(d, l, C, loose, rolled), NEW list \in Seq(Tx), NEW v,
         NEW r \in Redone(d, l, list, C, v)
  PROVE  /\ IsKept(r.bk, r.trs, C, loose, rolled)
         /\ r.bk.balance = d.balance /\ r.bk.asset = d.asset
         /\ IsCovered(d, l) => IsCovered(r.bk, r.trs)
<1>1. PICK k \in 0 .. Len(list) : r = ReceiveAll(Receiving(d, l), SubSeq(list, 1, k), C, v)
  BY DEF Redone
<1> DEFINE start == SubSeq(list, 1, k)
<1>2. start \in Seq(Tx) /\ r = ReceiveAll(Receiving(d, l), start, C, v)
  BY <1>1, PrefixIs
<1> HIDE DEF start
<1> QED BY <1>2, ReceiveKeeps

\* A book whose pool is empty.
IsFree(d, loose, rolled) ==
  /\ d \in Book
  /\ \A a \in Account :
       /\ d.u_balance[a] <= d.balance[a]
       /\ ~loose => d.u_balance[a] = d.balance[a]
       /\ ~rolled => d.cache[a] <= d.asset[a]
       /\ ~rolled /\ ~loose => d.cache[a] = d.asset[a]

\* That it is kept, and covered, says no more.
LEMMA FreeIsKept ==
  ASSUME NEW d, NEW C, NEW loose, NEW rolled, IsFree(d, loose, rolled)
  PROVE  IsKept(d, <<>>, C, loose, rolled) /\ IsCovered(d, <<>>)
<1>1. /\ <<>> \in Seq(Tx) /\ IsInjective(<<>>) /\ ToSet(<<>>) = {}
  BY DEF IsInjective, ToSet
<1>2. \A a \in Account : /\ SentBy(a, {}) = 0 /\ SpentBy(a, {}) = 0
                         /\ d.u_balance[a] \in Int /\ d.cache[a] \in Int
  BY SentByIs, SpentByIs DEF IsFree, Book
<1> DEFINE S == ToSet(<<>>)
<1>3. S = {}
  BY <1>1
<1> HIDE DEF S
<1>4. ASSUME NEW a \in Account
      PROVE  /\ d.u_balance[a] + SentBy(a, S) <= d.balance[a]
             /\ ~loose => d.u_balance[a] + SentBy(a, S) = d.balance[a]
             /\ ~rolled => d.cache[a] + SpentBy(a, S) <= d.asset[a]
             /\ ~rolled /\ ~loose => d.cache[a] + SpentBy(a, S) = d.asset[a]
  <2>1. d.u_balance[a] + SentBy(a, S) = d.u_balance[a] /\ d.cache[a] + SpentBy(a, S) = d.cache[a]
    BY <1>2, <1>3
  <2> QED BY <2>1 DEF IsFree
<1>5. S \cap C = {} /\ d \in Book
  BY <1>3 DEF IsFree
<1>6. IsCovered(d, <<>>)
  BY <1>1 DEF IsCovered
<1>7. IsKept(d, <<>>, C, loose, rolled)
  BY <1>1, <1>4, <1>5 DEF IsKept, S
<1> QED BY <1>6, <1>7

\* Undoing a pool gives its funds back.
LEMMA PoolUndone ==
  ASSUME NEW d, NEW l, NEW C, NEW loose \in BOOLEAN, NEW rolled \in BOOLEAN,
         IsKept(d, l, C, loose, rolled),
         NEW u, u = FoldLeft(UndoUnconfirmed, d, l)
  PROVE  /\ IsFree(u, loose, rolled) /\ u.balance = d.balance /\ u.asset = d.asset
         /\ IsReleased(u, d, ToSet(l))
<1>1. d \in Book /\ l \in Seq(Tx) /\ IsInjective(l)
  BY DEF IsKept
<1>2. u \in Book /\ IsReleased(u, d, ToSet(l))
  BY <1>1, ReleaseAll
<1>3. /\ u.balance = d.balance /\ u.asset = d.asset
      /\ \A a \in Account : /\ u.u_balance[a] = d.u_balance[a] + SentBy(a, ToSet(l))
                            /\ u.cache[a] = d.cache[a] + SpentBy(a, ToSet(l))
  BY <1>2 DEF IsReleased
<1> QED BY <1>2, <1>3 DEF IsFree, IsKept

\* A chain with one block more.
LEMMA ChainAppended ==
  ASSUME NEW c \in Seq(Seq(Tx)), NEW l \in Seq(Tx)
  PROVE  /\ Append(c, l) \in Seq(Seq(Tx)) /\ Len(Append(c, l)) = Len(c) + 1 /\ DOMAIN Append(c, l) = 1 .. Len(c) + 1
         /\ DOMAIN c = 1 .. Len(c)
         /\ Append(c, l)[Len(c) + 1] = l /\ \A h \in 1 .. Len(c) : Append(c, l)[h] = c[h]
         /\ \A h \in 0 .. Len(c) : Upto(Append(c, l), h) = Upto(c, h)
         /\ Upto(Append(c, l), Len(c) + 1) = Upto(c, Len(c)) \cup ToSet(l)
<1> DEFINE d == Append(c, l)
<1>1. /\ d \in Seq(Seq(Tx)) /\ Len(d) = Len(c) + 1 /\ DOMAIN d = 1 .. Len(c) + 1
      /\ d[Len(c) + 1] = l /\ \A h \in 1 .. Len(c) : d[h] = c[h]
  BY AppendIs
<1> HIDE DEF d
<1>2. Len(c) \in Nat /\ DOMAIN c = 1 .. Len(c)
  OBVIOUS
<1>3. \A h \in 0 .. Len(c) : Upto(d, h) = Upto(c, h)
  <2> SUFFICES ASSUME NEW h \in 0 .. Len(c) PROVE Upto(d, h) = Upto(c, h)
    OBVIOUS
  <2>1. \A g \in 1 .. h : g \in 1 .. Len(c)
    BY <1>2
  <2>2. \A g \in 1 .. h : d[g] = c[g]
    BY <1>1, <2>1
  <2> QED BY <2>2 DEF Upto
<1>4. Upto(d, Len(c) + 1) = Upto(c, Len(c)) \cup ToSet(l)
  <2>1. \A g : g \in 1 .. Len(c) + 1 <=> g \in 1 .. Len(c) \/ g = Len(c) + 1
    BY <1>2
  <2> QED BY <1>1, <2>1 DEF Upto
<1> QED BY <1>1, <1>2, <1>3, <1>4 DEF d

\* A chain without its last block.
LEMMA ChainPopped ==
  ASSUME NEW c \in Seq(Seq(Tx)), c # <<>>, NEW d, d = SubSeq(c, 1, Len(c) - 1)
  PROVE  /\ d \in Seq(Seq(Tx)) /\ Len(d) = Len(c) - 1 /\ DOMAIN d = 1 .. Len(c) - 1
         /\ DOMAIN c = 1 .. Len(c) /\ Len(c) \in Nat \ {0}
         /\ c[Len(c)] \in Seq(Tx)
         /\ \A h \in 1 .. Len(c) - 1 : d[h] = c[h]
         /\ \A h \in 0 .. Len(c) - 1 : Upto(d, h) = Upto(c, h)
         /\ Upto(c, Len(c)) = Upto(c, Len(c) - 1) \cup ToSet(c[Len(c)])
<1>1. Len(c) \in Nat \ {0} /\ DOMAIN c = 1 .. Len(c) /\ Len(c) - 1 \in 0 .. Len(c)
      /\ c[Len(c)] \in Seq(Tx)
  OBVIOUS
<1>2. /\ d \in Seq(Seq(Tx)) /\ Len(d) = Len(c) - 1
      /\ \A h \in 1 .. Len(c) - 1 : d[h] = c[h]
  BY <1>1, PrefixIs
<1>3. DOMAIN d = 1 .. Len(c) - 1
  BY <1>2
<1>4. \A h \in 0 .. Len(c) - 1 : Upto(d, h) = Upto(c, h)
  <2> SUFFICES ASSUME NEW h \in 0 .. Len(c) - 1 PROVE Upto(d, h) = Upto(c, h)
    OBVIOUS
  <2>1. \A g \in 1 .. h : g \in 1 .. Len(c) - 1
    BY <1>1
  <2>2. \A g \in 1 .. h : d[g] = c[g]
    BY <1>2, <2>1
  <2> QED BY <2>2 DEF Upto
<1>5. Upto(c, Len(c)) = Upto(c, Len(c) - 1) \cup ToSet(c[Len(c)])
  <2>1. \A g : g \in 1 .. Len(c) <=> g \in 1 .. Len(c) - 1 \/ g = Len(c)
    BY <1>1
  <2> QED BY <2>1 DEF Upto
<1> QED BY <1>1, <1>2, <1>3, <1>4, <1>5

-----------------------------------------------------------------------------
(* The actions *)

\* What the invariant says of the parts besides the pool.
LEMMA Inside ==
  ASSUME IInv
  PROVE  /\ TypeOK /\ IsKept(book, pool, Confirmed, dropped, stale)
         /\ book \in Book /\ pool \in Seq(Tx) /\ chain \in Seq(Seq(Tx))
         /\ dropped \in BOOLEAN /\ stale \in BOOLEAN
         /\ Confirmed = Upto(chain, Len(chain)) /\ Confirmed \in SUBSET Tx
  BY Types DEF IInv, TypeOK

\* When neither the chain nor the confirmed balances nor the savepoint change, the
\* invariant is that of the pool.
LEMMA PoolTask ==
  ASSUME IInv, IsKept(book', pool', Confirmed, dropped', stale), Covered',
         book'.balance = book.balance, book'.asset = book.asset,
         chain' = chain, saved' = saved, popped' = popped, stale' = stale,
         dropped' = dropped \/ dropped' = TRUE,
         invalidIds' = invalidIds, phase' \in {"idle", "popping", "loading"},
         syncTrs' \in Seq(Tx), underPool' \in BOOLEAN
  PROVE  IInv'
<1>1. Confirmed' = Confirmed
  BY DEF Confirmed
<1>2. book' \in Book /\ pool' \in Seq(Tx) /\ dropped' \in BOOLEAN
  BY Inside DEF IsKept
<1>3. TypeOK'
  BY <1>2 DEF IInv, TypeOK
<1>4. BooksOfChain'
  BY <1>1 DEF IInv, BooksOfChain
<1>5. BlocksOnce' /\ Solvent'
  BY DEF IInv, BlocksOnce, Solvent
<1>6. SavedReflects'
  BY Inside DEF IInv, SavedReflects
<1>7. IsKept(book', pool', Confirmed', dropped', stale')
  BY <1>1
<1> QED BY <1>3, <1>4, <1>5, <1>6, <1>7 DEF IInv

\* Receiving a transaction.
LEMMA ReceiveTransactionStep ==
  ASSUME IInv, NEW t \in Tx, ReceiveTransaction(t)
  PROVE  IInv'
<1> DEFINE list == <<t>>
           r == ReceiveAll(Receiving(book, pool), list, Confirmed, invalidIds)
<1>1. book' = r.bk /\ pool' = r.trs
      /\ UNCHANGED <<saved, invalidIds, chain, phase, syncTrs, dropped, popped, stale, underPool>>
  BY DEF ReceiveTransaction
<1>2. list \in Seq(Tx)
  OBVIOUS
<1>3. r = ReceiveAll(Receiving(book, pool), list, Confirmed, invalidIds)
  OBVIOUS
<1> HIDE DEF r, list
<1>4. /\ IsKept(r.bk, r.trs, Confirmed, dropped, stale)
      /\ r.bk.balance = book.balance /\ r.bk.asset = book.asset
      /\ IsCovered(book, pool) => IsCovered(r.bk, r.trs)
  <2>1. IsKept(book, pool, Confirmed, dropped, stale) /\ dropped \in BOOLEAN /\ stale \in BOOLEAN
    BY Inside
  <2> QED BY <1>2, <1>3, <2>1, ReceiveKeeps
<1>5. Covered'
  BY <1>1, <1>4 DEF IInv, Covered
<1>6. /\ phase' \in {"idle", "popping", "loading"} /\ syncTrs' \in Seq(Tx) /\ underPool' \in BOOLEAN
  BY <1>1 DEF IInv, TypeOK
<1> QED BY <1>1, <1>4, <1>5, <1>6, PoolTask

\* Dropping one.
LEMMA DropTransactionStep ==
  ASSUME IInv, NEW t \in Tx, DropTransaction(t)
  PROVE  IInv'
<1> DEFINE l == Without(pool, {t})
<1>1. /\ pool' = l /\ dropped' = TRUE
      /\ UNCHANGED <<book, saved, invalidIds, chain, phase, syncTrs, popped, stale, underPool>>
  BY DEF DropTransaction
<1>2. /\ l \in Seq(Tx) /\ ToSet(l) \subseteq ToSet(pool) /\ ToSet(pool) \in SUBSET Tx
      /\ IsInjective(pool) => IsInjective(l)
  <2>1. l \in Seq(Tx \ {t}) /\ ToSet(l) = ToSet(pool) \ {t} /\ (IsInjective(pool) => IsInjective(l))
    BY Inside, WithoutIs
  <2>2. \A m \in Seq(Tx \ {t}) : m \in Seq(Tx)
    OBVIOUS
  <2> QED BY <2>1, <2>2, Inside, Types
<1> HIDE DEF l
<1>3. IsKept(book, l, Confirmed, TRUE, stale)
  <2>1. ASSUME NEW a \in Account
        PROVE  /\ book.u_balance[a] + SentBy(a, ToSet(l)) <= book.balance[a]
               /\ ~stale => book.cache[a] + SpentBy(a, ToSet(l)) <= book.asset[a]
    <3>1. /\ SentBy(a, ToSet(l)) <= SentBy(a, ToSet(pool))
          /\ SpentBy(a, ToSet(l)) <= SpentBy(a, ToSet(pool))
      BY <1>2, SentByIs, SpentByIs
    <3>2. /\ SentBy(a, ToSet(l)) \in Int /\ SentBy(a, ToSet(pool)) \in Int
          /\ SpentBy(a, ToSet(l)) \in Int /\ SpentBy(a, ToSet(pool)) \in Int
      <4>1. ToSet(l) \in SUBSET Tx
        BY <1>2
      <4> QED BY <1>2, <4>1, SentByIs, SpentByIs
    <3>3. /\ book.balance[a] \in Int /\ book.u_balance[a] \in Int
          /\ book.asset[a] \in Int /\ book.cache[a] \in Int
      BY Inside DEF Book
    <3>4. /\ book.u_balance[a] + SentBy(a, ToSet(pool)) <= book.balance[a]
          /\ ~stale => book.cache[a] + SpentBy(a, ToSet(pool)) <= book.asset[a]
      BY Inside DEF IsKept
    <3> QED BY <3>1, <3>2, <3>3, <3>4
  <2>2. book \in Book /\ IsInjective(pool) /\ ToSet(pool) \cap Confirmed = {}
    BY Inside DEF IsKept
  <2> QED BY <1>2, <2>1, <2>2 DEF IsKept
<1>4. Covered'
  BY <1>1, <1>2 DEF IInv, Covered, IsCovered
<1>5. /\ phase' \in {"idle", "popping", "loading"} /\ syncTrs' \in Seq(Tx) /\ underPool' \in BOOLEAN
  BY <1>1 DEF IInv, TypeOK
<1>6. IsKept(book', pool', Confirmed, dropped', stale)
  BY <1>1, <1>3
<1> QED BY <1>1, <1>4, <1>5, <1>6, PoolTask

\* Taking the pool away for a synchronisation.
LEMMA StartSyncStep ==
  ASSUME IInv, StartSync
  PROVE  IInv'
<1>1. /\ phase' = "popping" /\ syncTrs' = Reverse(pool)
      /\ book' = FoldLeft(UndoUnconfirmed, book, pool) /\ pool' = <<>> /\ underPool' = FALSE
      /\ UNCHANGED <<saved, invalidIds, chain, dropped, popped, stale>>
  BY DEF StartSync, UndoPool
<1>2. IsFree(book', dropped, stale) /\ book'.balance = book.balance /\ book'.asset = book.asset
  BY <1>1, Inside, PoolUndone
<1>3. IsKept(book', <<>>, Confirmed, dropped, stale) /\ IsCovered(book', <<>>)
  BY <1>2, FreeIsKept
<1>4. Covered'
  BY <1>1, <1>3 DEF Covered
<1>5. syncTrs' \in Seq(Tx)
  BY <1>1, Inside, ReverseIs
<1>6. IsKept(book', pool', Confirmed, dropped', stale)
  BY <1>1, <1>3
<1> QED BY <1>1, <1>2, <1>4, <1>5, <1>6, PoolTask

\* Giving it back.
LEMMA FinishSyncStep ==
  ASSUME IInv, FinishSync
  PROVE  IInv'
<1>1. PICK r \in Redone(book, pool, syncTrs, Confirmed, invalidIds) : book' = r.bk /\ pool' = r.trs
  BY DEF FinishSync
<1>2. /\ phase' = "idle" /\ syncTrs' = <<>>
      /\ UNCHANGED <<saved, invalidIds, chain, dropped, popped, stale, underPool>>
  BY DEF FinishSync
<1>3. syncTrs \in Seq(Tx)
  BY DEF IInv, TypeOK
<1>4. /\ IsKept(r.bk, r.trs, Confirmed, dropped, stale)
      /\ r.bk.balance = book.balance /\ r.bk.asset = book.asset
      /\ IsCovered(book, pool) => IsCovered(r.bk, r.trs)
  BY <1>3, Inside, RedoneKeeps
<1>5. Covered'
  BY <1>1, <1>2, <1>4 DEF IInv, Covered
<1>6. /\ phase' \in {"idle", "popping", "loading"} /\ syncTrs' \in Seq(Tx) /\ underPool' \in BOOLEAN
  BY <1>2 DEF IInv, TypeOK
<1> QED BY <1>1, <1>2, <1>4, <1>5, <1>6, PoolTask

\* The last block has nothing in common with those before.
LEMMA LastApart ==
  ASSUME IInv, chain # <<>>
  PROVE  Upto(chain, Len(chain) - 1) \cap ToSet(chain[Len(chain)]) = {}
<1>1. chain \in Seq(Seq(Tx))
  BY Inside
<1>2. Len(chain) \in Nat \ {0} /\ DOMAIN chain = 1 .. Len(chain)
  BY <1>1
<1>3. \A g \in 1 .. Len(chain) - 1 : ToSet(chain[g]) \cap ToSet(chain[Len(chain)]) = {}
  <2> SUFFICES ASSUME NEW g \in 1 .. Len(chain) - 1
               PROVE  ToSet(chain[g]) \cap ToSet(chain[Len(chain)]) = {}
    OBVIOUS
  <2> DEFINE n == Len(chain)
  <2>0. n \in Nat \ {0} /\ DOMAIN chain = 1 .. n /\ g \in 1 .. n - 1
    BY <1>2
  <2> HIDE DEF n
  <2>a. g \in DOMAIN chain /\ n \in DOMAIN chain /\ g # n
    BY <2>0
  <2>1. g \in DOMAIN chain /\ Len(chain) \in DOMAIN chain /\ g # Len(chain)
    BY <2>a DEF n
  <2> QED BY <2>1 DEF IInv, BlocksOnce
<1> QED BY <1>3 DEF Upto

\* Popping a block.
LEMMA PopBlockStep ==
  ASSUME IInv, PopBlock
  PROVE  IInv'
<1> DEFINE n == Len(chain)
           block == chain[n]
           S == ToSet(block)
           x == FoldLeft(UndoBoth, book, Reverse(block))
<1>1. /\ phase = "popping" /\ chain # <<>> /\ chain' = SubSeq(chain, 1, n - 1) /\ book' = x
      /\ popped' = (popped \/ \E t \in S : t.asset)
      /\ underPool' = (underPool \/ pool # <<>>)
      /\ UNCHANGED <<saved, pool, invalidIds, phase, syncTrs, dropped, stale>>
  BY DEF PopBlock
<1>2. /\ chain' \in Seq(Seq(Tx)) /\ Len(chain') = n - 1 /\ DOMAIN chain' = 1 .. n - 1
      /\ DOMAIN chain = 1 .. n /\ n \in Nat \ {0} /\ block \in Seq(Tx)
      /\ \A h \in 1 .. n - 1 : chain'[h] = chain[h]
      /\ \A h \in 0 .. n - 1 : Upto(chain', h) = Upto(chain, h)
      /\ Upto(chain, n) = Upto(chain, n - 1) \cup S
  BY <1>1, Inside, ChainPopped
<1> DEFINE U == Upto(chain, n - 1)
<1>3. U \cap S = {}
  BY <1>1, LastApart
<1>4. Confirmed = U \cup S /\ Confirmed' = U /\ U \in SUBSET Tx /\ S \in SUBSET Tx
  <2>1. Confirmed' = Upto(chain', n - 1)
    BY <1>2 DEF Confirmed, Upto
  <2>2. n - 1 \in 0 .. n - 1
    BY <1>2
  <2>3. Confirmed' = U
    BY <1>2, <2>1, <2>2
  <2>4. Confirmed = U \cup S /\ Confirmed \in SUBSET Tx
    BY <1>2, Inside
  <2> QED BY <2>3, <2>4
<1>5. Reverse(block) \in Seq(Tx) /\ ToSet(Reverse(block)) = S /\ IsInjective(Reverse(block))
  <2>1. IsInjective(block)
    <3>1. n \in DOMAIN chain
      BY <1>2
    <3> QED BY <3>1 DEF IInv, BlocksOnce
  <2> QED BY <1>2, <2>1, ReverseIs
<1>6. book \in Book
  BY Inside
<1>7. x \in Book /\ IsUndone(x, book, S)
  BY <1>5, <1>6, UndoAll
<1>8. n - 1 \in 0 .. n /\ \A h \in 0 .. n - 1 : h \in 0 .. n
  BY <1>2
<1>9. \A a \in Account : /\ Moves(a, U \cup S) = Moves(a, U) + Moves(a, S)
                         /\ AssetMoves(a, U \cup S) = AssetMoves(a, U) + AssetMoves(a, S)
  BY <1>3, <1>4, MovesOfBoth
<1>10. \A a \in Account : /\ Moves(a, U) \in Int /\ Moves(a, S) \in Int
                          /\ AssetMoves(a, U) \in Int /\ AssetMoves(a, S) \in Int
                          /\ Funds[a] \in Int /\ AssetFunds[a] \in Int
  BY <1>4, MovesAre, AssetMovesAre, ConstantsAssumption
<1>11. \A a \in Account : /\ book.balance[a] = Funds[a] + Moves(a, U \cup S)
                          /\ book.asset[a] = AssetFunds[a] + AssetMoves(a, U \cup S)
  BY <1>4 DEF IInv, BooksOfChain
<1>12. \A a \in Account : /\ Funds[a] + Moves(a, U) >= 0
                          /\ AssetFunds[a] + AssetMoves(a, U) >= 0
  BY <1>8 DEF IInv, Solvent
<1> HIDE DEF n, S, block, x, U
<1>13. \A a \in Account : /\ x.balance[a] = Funds[a] + Moves(a, U)
                          /\ x.asset[a] = AssetFunds[a] + AssetMoves(a, U)
                          /\ x.balance[a] >= 0 /\ x.asset[a] >= 0
  <2> SUFFICES ASSUME NEW a \in Account
               PROVE  /\ x.balance[a] = Funds[a] + Moves(a, U)
                      /\ x.asset[a] = AssetFunds[a] + AssetMoves(a, U)
                      /\ x.balance[a] >= 0 /\ x.asset[a] >= 0
    OBVIOUS
  <2>1. /\ x.balance[a] = book.balance[a] - Moves(a, S)
        /\ x.asset[a] = book.asset[a] - AssetMoves(a, S)
    BY <1>7 DEF IsUndone
  <2>4. /\ book.balance[a] = Funds[a] + (Moves(a, U) + Moves(a, S))
        /\ book.asset[a] = AssetFunds[a] + (AssetMoves(a, U) + AssetMoves(a, S))
    BY <1>9, <1>11
  <2>5. /\ Moves(a, U) \in Int /\ Moves(a, S) \in Int
        /\ AssetMoves(a, U) \in Int /\ AssetMoves(a, S) \in Int
        /\ Funds[a] \in Int /\ AssetFunds[a] \in Int
    BY <1>10
  <2>2. x.balance[a] = Funds[a] + Moves(a, U)
    BY <2>1, <2>4, <2>5
  <2>3. x.asset[a] = AssetFunds[a] + AssetMoves(a, U)
    BY <2>1, <2>4, <2>5
  <2> QED BY <1>12, <2>2, <2>3
<1>14. TypeOK'
  <2>1. /\ saved' \in [Account -> Int] /\ pool' \in Seq(Tx) /\ syncTrs' \in Seq(Tx)
        /\ invalidIds' \subseteq Tx /\ phase' \in {"idle", "popping", "loading"}
        /\ dropped' \in BOOLEAN /\ stale' \in BOOLEAN
    BY <1>1 DEF IInv, TypeOK
  <2>2. popped' \in BOOLEAN /\ underPool' \in BOOLEAN
    BY <1>1 DEF IInv, TypeOK
  <2> QED BY <1>1, <1>2, <1>7, <1>13, <2>1, <2>2 DEF TypeOK
<1>15. BooksOfChain'
  BY <1>1, <1>4, <1>13 DEF BooksOfChain
<1>16. BlocksOnce'
  <2>1. \A h \in 1 .. n - 1 : h \in DOMAIN chain /\ chain'[h] = chain[h]
    BY <1>2
  <2>2. DOMAIN chain' = 1 .. n - 1
    BY <1>2
  <2>3. \A h \in DOMAIN chain : IsInjective(chain[h])
    BY DEF IInv, BlocksOnce
  <2>4. \A g, h \in DOMAIN chain : g # h => ToSet(chain[g]) \cap ToSet(chain[h]) = {}
    BY DEF IInv, BlocksOnce
  <2>5. \A h \in DOMAIN chain' : IsInjective(chain'[h])
    BY <2>1, <2>2, <2>3
  <2>6. \A g, h \in DOMAIN chain' : g # h => ToSet(chain'[g]) \cap ToSet(chain'[h]) = {}
    BY <2>1, <2>2, <2>4
  <2> QED BY <2>5, <2>6 DEF BlocksOnce
<1>17. IsKept(book', pool', Confirmed', dropped', stale')
  <2>1. pool \in Seq(Tx) /\ IsInjective(pool) /\ ToSet(pool) \cap Confirmed = {}
        /\ ToSet(pool) \in SUBSET Tx
    BY Inside, Types DEF IsKept
  <2>2. ToSet(pool) \cap U = {}
    BY <1>4, <2>1
  <2>3. ASSUME NEW a \in Account
        PROVE  /\ x.u_balance[a] + SentBy(a, ToSet(pool)) <= x.balance[a]
               /\ ~dropped => x.u_balance[a] + SentBy(a, ToSet(pool)) = x.balance[a]
               /\ ~stale => x.cache[a] + SpentBy(a, ToSet(pool)) <= x.asset[a]
               /\ ~stale /\ ~dropped => x.cache[a] + SpentBy(a, ToSet(pool)) = x.asset[a]
    <3>1. /\ x.u_balance[a] - x.balance[a] = book.u_balance[a] - book.balance[a]
          /\ x.cache[a] - x.asset[a] = book.cache[a] - book.asset[a]
      BY <1>7 DEF IsUndone
    <3>2. /\ x.balance[a] \in Int /\ x.u_balance[a] \in Int
          /\ x.asset[a] \in Int /\ x.cache[a] \in Int
      BY <1>7 DEF Book
    <3>3. /\ book.balance[a] \in Int /\ book.u_balance[a] \in Int
          /\ book.asset[a] \in Int /\ book.cache[a] \in Int
      BY <1>6 DEF Book
    <3>4. SentBy(a, ToSet(pool)) \in Int /\ SpentBy(a, ToSet(pool)) \in Int
      BY <2>1, SentByIs, SpentByIs
    <3>5. /\ book.u_balance[a] + SentBy(a, ToSet(pool)) <= book.balance[a]
          /\ ~dropped => book.u_balance[a] + SentBy(a, ToSet(pool)) = book.balance[a]
          /\ ~stale => book.cache[a] + SpentBy(a, ToSet(pool)) <= book.asset[a]
          /\ ~stale /\ ~dropped => book.cache[a] + SpentBy(a, ToSet(pool)) = book.asset[a]
      BY Inside DEF IsKept
    <3> QED BY <3>1, <3>2, <3>3, <3>4, <3>5
  <2>4. IsKept(x, pool, U, dropped, stale)
    BY <1>7, <2>1, <2>2, <2>3 DEF IsKept
  <2> QED BY <1>1, <1>4, <2>4
<1>18. Solvent'
  <2>1. \A h \in 0 .. n, a \in Account :
          Funds[a] + Moves(a, Upto(chain, h)) >= 0 /\ AssetFunds[a] + AssetMoves(a, Upto(chain, h)) >= 0
    BY DEF IInv, Solvent, n
  <2>2. \A h \in 0 .. n - 1, a \in Account :
          Funds[a] + Moves(a, Upto(chain', h)) >= 0 /\ AssetFunds[a] + AssetMoves(a, Upto(chain', h)) >= 0
    BY <1>2, <1>8, <2>1
  <2> QED BY <1>2, <2>2 DEF Solvent
<1>19. SavedReflects'
  <2> SUFFICES ASSUME ~stale', ~popped', NEW a \in Account
               PROVE  /\ saved'[a] <= book'.asset[a]
                      /\ ~dropped' => saved'[a] = book'.asset[a]
    BY DEF SavedReflects
  <2>1. ~stale /\ ~popped /\ \A t \in S : ~t.asset
    BY <1>1
  <2>2. x.asset[a] = book.asset[a]
    BY <1>7, <2>1 DEF IsUndone
  <2>3. saved[a] <= book.asset[a] /\ (~dropped => saved[a] = book.asset[a])
    BY <2>1 DEF IInv, SavedReflects
  <2> QED BY <1>1, <2>2, <2>3
<1>20. Covered'
  <2> SUFFICES ASSUME ~underPool' PROVE IsCovered(book', pool')
    BY DEF Covered
  <2>1. pool' = <<>>
    BY <1>1
  <2>2. ToSet(<<>>) = {}
    BY DEF ToSet
  <2> QED BY <2>1, <2>2 DEF IsCovered
<1> QED BY <1>14, <1>15, <1>16, <1>17, <1>18, <1>19, <1>20 DEF IInv

\* Applying a block, or failing to.
LEMMA ApplyBlockStep ==
  ASSUME IInv, NEW S \in SUBSET Tx, ApplyBlock(S)
  PROVE  IInv'
<1> DEFINE undone == FoldLeft(UndoUnconfirmed, book, pool)
           l == Sorted(S)
           p == Process(undone, l)
           fails == p.failed # {}
           redo == Without(Reverse(pool), p.done)
           base == IF fails THEN RolledBack(undone, p.bk) ELSE p.bk
           v == invalidIds \cup p.failed
           n == Len(chain)
<1>1. /\ S \cap Confirmed = {}
      /\ chain' = IF fails THEN chain ELSE Append(chain, l)
      /\ saved' = IF fails THEN saved ELSE p.bk.cache
      /\ invalidIds' = v
      /\ \E r \in Redone(base, <<>>, redo, Confirmed', v) : book' = r.bk /\ pool' = r.trs
      /\ phase' \in {phase, "loading"} /\ popped' = FALSE
      /\ stale' = (stale \/ (popped /\ fails))
      /\ underPool' = FALSE /\ UNCHANGED <<syncTrs, dropped>>
  BY DEF ApplyBlock, UndoPool
<1>2. l \in Seq(Tx) /\ ToSet(l) = S /\ IsInjective(l)
  BY SortedIs
<1>3. /\ IsFree(undone, dropped, stale)
      /\ undone.balance = book.balance /\ undone.asset = book.asset
  <2>1. IsKept(book, pool, Confirmed, dropped, stale) /\ dropped \in BOOLEAN /\ stale \in BOOLEAN
    BY Inside
  <2>2. undone = FoldLeft(UndoUnconfirmed, book, pool)
    OBVIOUS
  <2> HIDE DEF undone
  <2> QED BY <2>1, <2>2, PoolUndone
<1> HIDE DEF undone, l
<1>4. undone \in Book
  BY <1>3 DEF IsFree
<1>5. p \in Processings /\ IsProcessed(p, undone, S)
  BY <1>2, <1>4, ProcessAll
<1> HIDE DEF p
<1>6. p.bk \in Book /\ p.failed \in SUBSET Tx /\ p.done \in SUBSET S
  BY <1>5 DEF Processings, IsProcessed
<1>7. redo \in Seq(Tx)
  <2>1. Reverse(pool) \in Seq(Tx)
    BY Inside, ReverseIs
  <2>2. redo \in Seq(Tx \ p.done)
    BY <2>1, WithoutIs
  <2>3. \A m \in Seq(Tx \ p.done) : m \in Seq(Tx)
    OBVIOUS
  <2> QED BY <2>2, <2>3
<1>8. /\ chain \in Seq(Seq(Tx)) /\ n \in Nat /\ DOMAIN chain = 1 .. n
      /\ Confirmed = Upto(chain, n) /\ Confirmed \in SUBSET Tx
  <2>1. chain \in Seq(Seq(Tx))
    BY Inside
  <2> QED BY <2>1, Inside
<1>9. stale \in BOOLEAN /\ dropped \in BOOLEAN /\ popped \in BOOLEAN /\ stale' \in BOOLEAN
      /\ dropped' = dropped
  BY <1>1 DEF IInv, TypeOK
<1> DEFINE C == Confirmed'
\* In both cases: what the pool is redone on.
<1>10. /\ IsFree(base, dropped, stale')
       /\ \A a \in Account : /\ base.balance[a] = Funds[a] + Moves(a, C)
                             /\ base.asset[a] = AssetFunds[a] + AssetMoves(a, C)
                             /\ base.balance[a] >= 0 /\ base.asset[a] >= 0
       /\ chain' \in Seq(Seq(Tx)) /\ BlocksOnce' /\ Solvent'
       /\ saved' \in [Account -> Int]
       /\ ~stale' => \A a \in Account : /\ saved'[a] <= base.asset[a]
                                        /\ ~dropped => saved'[a] = base.asset[a]
  <2>1. \A a \in Account : /\ book.balance[a] = Funds[a] + Moves(a, Confirmed)
                           /\ book.asset[a] = AssetFunds[a] + AssetMoves(a, Confirmed)
                           /\ book.balance[a] >= 0 /\ book.asset[a] >= 0
    BY DEF IInv, BooksOfChain, TypeOK
  <2>2. CASE fails
    <3>1. chain' = chain /\ saved' = saved /\ base = [undone EXCEPT !.cache = saved]
          /\ (~stale' => ~stale /\ ~popped)
      BY <1>1, <2>2 DEF RolledBack
    <3>2. C = Confirmed
      BY <3>1 DEF Confirmed
    <3>3. saved \in [Account -> Int]
      BY DEF IInv, TypeOK
    <3>4. /\ base \in Book /\ base.balance = undone.balance /\ base.asset = undone.asset
          /\ base.u_balance = undone.u_balance /\ base.cache = saved
      BY <1>4, <3>1, <3>3 DEF Book
    <3> HIDE DEF base, C, fails
    <3>5. ~stale' => \A a \in Account : /\ saved[a] <= book.asset[a]
                                        /\ ~dropped => saved[a] = book.asset[a]
      BY <3>1 DEF IInv, SavedReflects
    <3>6. IsFree(base, dropped, stale')
      BY <1>3, <3>4, <3>5 DEF IsFree
    <3>7. BlocksOnce' /\ Solvent'
      BY <3>1 DEF IInv, BlocksOnce, Solvent
    <3>8. \A a \in Account : /\ base.balance[a] = Funds[a] + Moves(a, C)
                             /\ base.asset[a] = AssetFunds[a] + AssetMoves(a, C)
                             /\ base.balance[a] >= 0 /\ base.asset[a] >= 0
      BY <1>3, <2>1, <3>2, <3>4
    <3>9. ~stale' => \A a \in Account : /\ saved'[a] <= base.asset[a]
                                        /\ ~dropped => saved'[a] = base.asset[a]
      BY <1>3, <3>1, <3>4, <3>5
    <3>10. chain' \in Seq(Seq(Tx)) /\ saved' \in [Account -> Int]
      BY <1>8, <3>1, <3>3
    <3> QED BY <3>6, <3>7, <3>8, <3>9, <3>10
  <2>3. CASE ~fails
    <3>1. chain' = Append(chain, l) /\ saved' = p.bk.cache /\ base = p.bk
          /\ (~stale' => ~stale) /\ p.failed = {}
      BY <1>1, <2>3
    <3>2. p.done = S
      BY <1>5, <3>1 DEF IsProcessed
    <3> HIDE DEF base, fails
    <3>3. /\ chain' \in Seq(Seq(Tx)) /\ Len(chain') = n + 1 /\ DOMAIN chain' = 1 .. n + 1
          /\ chain'[n + 1] = l /\ \A h \in 1 .. n : chain'[h] = chain[h]
          /\ \A h \in 0 .. n : Upto(chain', h) = Upto(chain, h)
          /\ Upto(chain', n + 1) = Upto(chain, n) \cup ToSet(l)
      <4>1. chain \in Seq(Seq(Tx)) /\ l \in Seq(Tx) /\ chain' = Append(chain, l)
        BY <1>2, <1>8, <3>1
      <4>2. /\ Append(chain, l) \in Seq(Seq(Tx)) /\ Len(Append(chain, l)) = Len(chain) + 1
            /\ DOMAIN Append(chain, l) = 1 .. Len(chain) + 1
            /\ DOMAIN chain = 1 .. Len(chain)
            /\ Append(chain, l)[Len(chain) + 1] = l /\ \A h \in 1 .. Len(chain) : Append(chain, l)[h] = chain[h]
            /\ \A h \in 0 .. Len(chain) : Upto(Append(chain, l), h) = Upto(chain, h)
            /\ Upto(Append(chain, l), Len(chain) + 1) = Upto(chain, Len(chain)) \cup ToSet(l)
        BY <4>1, ChainAppended
      <4> QED BY <4>1, <4>2
    <3>4. C = Confirmed \cup S
      <4>1. C = Upto(chain', n + 1)
        BY <3>3 DEF Confirmed, Upto
      <4> QED BY <1>2, <1>8, <3>3, <4>1
    <3> HIDE DEF C, n
    <3>5. \A a \in Account : /\ Moves(a, Confirmed \cup S) = Moves(a, Confirmed) + Moves(a, S)
                             /\ AssetMoves(a, Confirmed \cup S) = AssetMoves(a, Confirmed) + AssetMoves(a, S)
      BY <1>1, <1>8, MovesOfBoth
    <3>6. ASSUME NEW a \in Account
          PROVE  /\ base.balance[a] = Funds[a] + Moves(a, C)
                 /\ base.asset[a] = AssetFunds[a] + AssetMoves(a, C)
                 /\ base.balance[a] >= 0 /\ base.asset[a] >= 0
      <4>1. /\ base.balance[a] = undone.balance[a] + Moves(a, S)
            /\ base.asset[a] = undone.asset[a] + AssetMoves(a, S)
            /\ undone.balance[a] >= 0 => base.balance[a] >= 0
            /\ undone.asset[a] >= 0 => base.asset[a] >= 0
        BY <1>5, <3>1, <3>2 DEF IsProcessed
      <4>2. /\ undone.balance[a] = Funds[a] + Moves(a, Confirmed)
            /\ undone.asset[a] = AssetFunds[a] + AssetMoves(a, Confirmed)
            /\ undone.balance[a] >= 0 /\ undone.asset[a] >= 0
        BY <1>3, <2>1
      <4>3. /\ Moves(a, Confirmed) \in Int /\ Moves(a, S) \in Int
            /\ AssetMoves(a, Confirmed) \in Int /\ AssetMoves(a, S) \in Int
            /\ Funds[a] \in Int /\ AssetFunds[a] \in Int
        BY <1>8, MovesAre, AssetMovesAre, ConstantsAssumption
      <4>4. /\ Moves(a, C) = Moves(a, Confirmed) + Moves(a, S)
            /\ AssetMoves(a, C) = AssetMoves(a, Confirmed) + AssetMoves(a, S)
        BY <3>4, <3>5
      <4> QED BY <4>1, <4>2, <4>3, <4>4
    <3>7. ASSUME NEW a \in Account
          PROVE  /\ base.u_balance[a] <= base.balance[a]
                 /\ ~dropped => base.u_balance[a] = base.balance[a]
                 /\ ~stale => base.cache[a] <= base.asset[a]
                 /\ ~stale /\ ~dropped => base.cache[a] = base.asset[a]
      <4>1. /\ base.u_balance[a] - base.balance[a] = undone.u_balance[a] - undone.balance[a]
            /\ base.cache[a] - base.asset[a] = undone.cache[a] - undone.asset[a]
        BY <1>5, <3>1 DEF IsProcessed
      <4>2. /\ undone.u_balance[a] <= undone.balance[a]
            /\ ~dropped => undone.u_balance[a] = undone.balance[a]
            /\ ~stale => undone.cache[a] <= undone.asset[a]
            /\ ~stale /\ ~dropped => undone.cache[a] = undone.asset[a]
        BY <1>3 DEF IsFree
      <4>3. /\ undone.balance[a] \in Int /\ undone.u_balance[a] \in Int
            /\ undone.asset[a] \in Int /\ undone.cache[a] \in Int
        BY <1>4 DEF Book
      <4>4. /\ base.balance[a] \in Int /\ base.u_balance[a] \in Int
            /\ base.asset[a] \in Int /\ base.cache[a] \in Int
        BY <1>6, <3>1 DEF Book
      <4> QED BY <4>1, <4>2, <4>3, <4>4
    <3>8. IsFree(base, dropped, stale')
      BY <1>6, <3>1, <3>7 DEF IsFree
    <3>9. ~stale' => \A a \in Account : /\ saved'[a] <= base.asset[a]
                                        /\ ~dropped => saved'[a] = base.asset[a]
      BY <3>1, <3>7
    <3>10. saved' \in [Account -> Int]
      BY <1>6, <3>1 DEF Book
    <3>11. Solvent'
      <4>1. \A h \in 0 .. n, a \in Account : /\ Funds[a] + Moves(a, Upto(chain, h)) >= 0
                                             /\ AssetFunds[a] + AssetMoves(a, Upto(chain, h)) >= 0
        BY DEF IInv, Solvent, n
      <4>2. \A a \in Account : Funds[a] + Moves(a, C) >= 0 /\ AssetFunds[a] + AssetMoves(a, C) >= 0
        BY <3>6
      <4>3. C = Upto(chain', n + 1)
        BY <1>2, <1>8, <3>3, <3>4 DEF n
      <4>4. \A h : h \in 0 .. n + 1 => h \in 0 .. n \/ h = n + 1
        BY <1>8 DEF n
      <4> SUFFICES ASSUME NEW h \in 0 .. n + 1, NEW a \in Account
                   PROVE  /\ Funds[a] + Moves(a, Upto(chain', h)) >= 0
                          /\ AssetFunds[a] + AssetMoves(a, Upto(chain', h)) >= 0
        BY <3>3 DEF Solvent
      <4>5. CASE h \in 0 .. n
        BY <3>3, <4>1, <4>5
      <4>6. CASE h = n + 1
        BY <4>2, <4>3, <4>6
      <4> QED BY <4>4, <4>5, <4>6
    <3>12. BlocksOnce'
      <4>1. \A h \in 1 .. n : h \in DOMAIN chain /\ chain'[h] = chain[h] /\ h \in 1 .. n + 1
        BY <1>8, <3>3 DEF n
      <4>2. DOMAIN chain' = 1 .. n + 1
        BY <3>3
      <4>3. \A h \in DOMAIN chain : IsInjective(chain[h])
        BY DEF IInv, BlocksOnce
      <4>4. \A g, h \in DOMAIN chain : g # h => ToSet(chain[g]) \cap ToSet(chain[h]) = {}
        BY DEF IInv, BlocksOnce
      <4>5. \A h \in DOMAIN chain' : h \in 1 .. n \/ h = n + 1
        BY <1>8, <4>2 DEF n
      <4>6. \A h \in 1 .. n : ToSet(chain'[h]) \cap S = {}
        <5>1. \A h \in DOMAIN chain : ToSet(chain[h]) \subseteq Confirmed
          BY DEF Confirmed
        <5> QED BY <1>1, <4>1, <5>1
      <4>7. ToSet(chain'[n + 1]) = S /\ IsInjective(chain'[n + 1])
        BY <1>2, <3>3
      <4>8. \A h \in DOMAIN chain' : IsInjective(chain'[h])
        BY <4>1, <4>3, <4>5, <4>7
      <4>9. \A g, h \in DOMAIN chain' : g # h => ToSet(chain'[g]) \cap ToSet(chain'[h]) = {}
        <5> SUFFICES ASSUME NEW g \in DOMAIN chain', NEW h \in DOMAIN chain', g # h
                     PROVE  ToSet(chain'[g]) \cap ToSet(chain'[h]) = {}
          OBVIOUS
        <5>1. CASE g \in 1 .. n /\ h \in 1 .. n
          BY <4>1, <4>4, <5>1
        <5>2. CASE g \in 1 .. n /\ h = n + 1
          BY <4>6, <4>7, <5>2
        <5>3. CASE g = n + 1 /\ h \in 1 .. n
          BY <4>6, <4>7, <5>3
        <5> QED BY <4>5, <5>1, <5>2, <5>3
      <4> QED BY <4>8, <4>9 DEF BlocksOnce
    <3> QED BY <3>3, <3>6, <3>8, <3>9, <3>10, <3>11, <3>12
  <2> QED BY <2>2, <2>3
<1> HIDE DEF base, redo, v
<1>11. PICK r \in Redone(base, <<>>, redo, C, v) : book' = r.bk /\ pool' = r.trs
  BY <1>1
<1> HIDE DEF C, fails, n
<1>12. IsKept(base, <<>>, C, dropped, stale') /\ IsCovered(base, <<>>)
  BY <1>10, FreeIsKept
<1>13. /\ IsKept(r.bk, r.trs, C, dropped, stale')
       /\ r.bk.balance = base.balance /\ r.bk.asset = base.asset
       /\ IsCovered(base, <<>>) => IsCovered(r.bk, r.trs)
  BY <1>7, <1>9, <1>12, RedoneKeeps
<1>14. r.bk \in Book /\ r.trs \in Seq(Tx)
  BY <1>13 DEF IsKept
<1>15. TypeOK'
  <2>1. /\ book' \in Book /\ pool' \in Seq(Tx)
        /\ \A a \in Account : book'.balance[a] >= 0 /\ book'.asset[a] >= 0
    BY <1>10, <1>11, <1>13, <1>14
  <2>2. invalidIds' \subseteq Tx
    BY <1>1, <1>6 DEF v, IInv, TypeOK
  <2>3. /\ phase' \in {"idle", "popping", "loading"} /\ syncTrs' \in Seq(Tx)
        /\ dropped' \in BOOLEAN /\ popped' \in BOOLEAN /\ stale' \in BOOLEAN /\ underPool' \in BOOLEAN
    BY <1>1, <1>9 DEF IInv, TypeOK
  <2> QED BY <1>10, <2>1, <2>2, <2>3 DEF TypeOK
<1>16. BooksOfChain'
  BY <1>10, <1>11, <1>13 DEF BooksOfChain, C
<1>17. SavedReflects'
  BY <1>9, <1>10, <1>11, <1>13 DEF SavedReflects
<1>18. Covered'
  BY <1>11, <1>12, <1>13 DEF Covered
<1>19. IsKept(book', pool', Confirmed', dropped', stale')
  BY <1>9, <1>11, <1>13 DEF C
<1> QED BY <1>10, <1>15, <1>16, <1>17, <1>18, <1>19 DEF IInv

\* Starting again.
LEMMA RestartStep ==
  ASSUME IInv, Restart
  PROVE  IInv'
<1>1. /\ book' = [book EXCEPT !.u_balance = book.balance, !.cache = book.asset]
      /\ saved' = book.asset
      /\ pool' = <<>> /\ invalidIds' = {} /\ phase' = "idle" /\ syncTrs' = <<>>
      /\ dropped' = FALSE /\ popped' = FALSE /\ stale' = FALSE /\ underPool' = FALSE
      /\ chain' = chain
  BY DEF Restart
<1>2. book \in Book
  BY Inside
<1>3. /\ book' \in Book /\ book'.balance = book.balance /\ book'.asset = book.asset
      /\ book'.u_balance = book.balance /\ book'.cache = book.asset
      /\ saved' \in [Account -> Int]
  BY <1>1, <1>2 DEF Book
<1>4. Confirmed' = Confirmed
  BY <1>1 DEF Confirmed
<1>5. \A a \in Account : book.balance[a] \in Int /\ book.asset[a] \in Int
  BY <1>2 DEF Book
<1>6. IsFree(book', FALSE, FALSE)
  BY <1>3, <1>5 DEF IsFree
<1>7. IsKept(book', pool', Confirmed', dropped', stale') /\ IsCovered(book', pool')
  BY <1>1, <1>6, FreeIsKept
<1>8. TypeOK'
  <2>1. \A a \in Account : book'.balance[a] >= 0 /\ book'.asset[a] >= 0
    BY <1>3 DEF IInv, TypeOK
  <2>2. chain' \in Seq(Seq(Tx)) /\ <<>> \in Seq(Tx)
    BY <1>1 DEF IInv, TypeOK
  <2>3. /\ pool' \in Seq(Tx) /\ syncTrs' \in Seq(Tx) /\ invalidIds' \subseteq Tx
        /\ phase' \in {"idle", "popping", "loading"}
        /\ {dropped', popped', stale', underPool'} \subseteq BOOLEAN
    BY <1>1, <2>2
  <2> QED BY <1>3, <2>1, <2>2, <2>3 DEF TypeOK
<1>9. BooksOfChain' /\ BlocksOnce' /\ Solvent'
  BY <1>1, <1>3, <1>4 DEF IInv, BooksOfChain, BlocksOnce, Solvent
<1>10. SavedReflects' /\ Covered'
  BY <1>1, <1>3, <1>5, <1>7 DEF SavedReflects, Covered
<1> QED BY <1>7, <1>8, <1>9, <1>10 DEF IInv

\* The genesis block.
LEMMA InitHolds ==
  Init => IInv
<1> SUFFICES ASSUME Init PROVE IInv
  OBVIOUS
<1>1. /\ book = [balance |-> Funds, u_balance |-> Funds, asset |-> AssetFunds, cache |-> AssetFunds]
      /\ saved = AssetFunds /\ pool = <<>> /\ invalidIds = {} /\ chain = <<>>
      /\ phase = "idle" /\ syncTrs = <<>>
      /\ dropped = FALSE /\ popped = FALSE /\ stale = FALSE /\ underPool = FALSE
  BY DEF Init
<1>2. \A a \in Account : /\ Funds[a] \in Int /\ AssetFunds[a] \in Int
                         /\ Funds[a] >= 0 /\ AssetFunds[a] >= 0
  BY ConstantsAssumption
<1>3. /\ book \in Book
      /\ book.balance = Funds /\ book.u_balance = Funds
      /\ book.asset = AssetFunds /\ book.cache = AssetFunds
      /\ saved \in [Account -> Int]
  BY <1>1, ConstantsAssumption DEF Book
<1>4. Len(chain) = 0 /\ DOMAIN chain = {} /\ chain \in Seq(Seq(Tx)) /\ <<>> \in Seq(Tx)
  BY <1>1
<1>5. Confirmed = {} /\ Upto(chain, 0) = {}
  BY <1>4 DEF Confirmed, Upto
<1>6. \A a \in Account : Moves(a, {}) = 0 /\ AssetMoves(a, {}) = 0
  BY MovesAre, AssetMovesAre
<1>7. IsFree(book, dropped, stale)
  BY <1>2, <1>3 DEF IsFree
<1>8. IsKept(book, pool, Confirmed, dropped, stale) /\ IsCovered(book, pool)
  BY <1>1, <1>7, FreeIsKept
<1>9. TypeOK
  BY <1>1, <1>2, <1>3, <1>4 DEF TypeOK
<1>10. BooksOfChain
  BY <1>2, <1>3, <1>5, <1>6 DEF BooksOfChain
<1>11. Solvent
  <2>1. \A h \in 0 .. Len(chain) : h = 0
    BY <1>4
  <2> QED BY <1>2, <1>5, <1>6, <2>1 DEF Solvent
<1>12. BlocksOnce
  BY <1>4 DEF BlocksOnce
<1>13. SavedReflects /\ Covered
  BY <1>1, <1>2, <1>3, <1>8 DEF SavedReflects, Covered
<1> QED BY <1>8, <1>9, <1>10, <1>11, <1>12, <1>13 DEF IInv

\* Every task keeps the invariant.
LEMMA NextKeeps ==
  IInv /\ [Next]_vars => IInv'
<1> SUFFICES ASSUME IInv, [Next]_vars PROVE IInv'
  OBVIOUS
<1>1. CASE \E t \in Tx : ReceiveTransaction(t)
  BY <1>1, ReceiveTransactionStep
<1>2. CASE \E t \in Tx : DropTransaction(t)
  BY <1>2, DropTransactionStep
<1>3. CASE \E S \in SUBSET Tx : ApplyBlock(S)
  BY <1>3, ApplyBlockStep
<1>4. CASE StartSync
  BY <1>4, StartSyncStep
<1>5. CASE PopBlock
  BY <1>5, PopBlockStep
<1>6. CASE FinishSync
  BY <1>6, FinishSyncStep
<1>7. CASE Restart
  BY <1>7, RestartStep
<1>8. CASE UNCHANGED vars
  BY <1>8 DEF vars, IInv, TypeOK, BooksOfChain, BlocksOnce, Solvent, SavedReflects, Covered, Confirmed
<1> QED BY <1>1, <1>2, <1>3, <1>4, <1>5, <1>6, <1>7, <1>8 DEF Next

-----------------------------------------------------------------------------
(* The theorems *)

\* The inductive invariant holds of every reachable state of the balances.
THEOREM BooksInvariance == Spec => []IInv
<1>1. Init => IInv
  BY InitHolds
<1>2. IInv /\ [Next]_vars => IInv'
  BY NextKeeps
<1> QED BY <1>1, <1>2, PTL DEF Spec

\* The database has what the blocks of the chain amount to, and nobody has less than
\* nothing, through failing blocks, popped blocks and synchronisations (applyBlock,
\* popLastBlock, apply, undo).
THEOREM LedgerSound == Spec => []LedgerReflectsChain
<1>1. IInv => LedgerReflectsChain
  BY ReflectsBooks DEF IInv
<1> QED BY <1>1, BooksInvariance, PTL

\* The unconfirmed balance is the confirmed one less what the pool holds
\* (undoUnconfirmedList, receiveTransactions).
THEOREM UnconfirmedSound == Spec => []UnconfirmedReflectsPool
<1>1. IInv => UnconfirmedReflectsPool
  BY KeptIs DEF IInv
<1> QED BY <1>1, BooksInvariance, PTL

\* So is the cached asset balance, though it is rolled back by a log of its own.
THEOREM CacheSound == Spec => []CacheReflectsPool
<1>1. IInv => CacheReflectsPool
  BY KeptIs DEF IInv
<1> QED BY <1>1, BooksInvariance, PTL

\* No transaction is in two blocks, twice in one, or in a block and in the pool.
THEOREM SinglePayment == Spec => []PaidOnce
<1>1. IInv => PaidOnce
  BY KeptIs DEF IInv, BlocksOnce, PaidOnce
<1> QED BY <1>1, BooksInvariance, PTL

\* What the pool has undone provides for everything that was in it.
LEMMA PoolProvided ==
  ASSUME IInv, ~stale, ~underPool
  PROVE  UndoPool(book) \in Book /\ IsProvided(UndoPool(book), ToSet(pool))
<1> DEFINE u == UndoPool(book)
           P == ToSet(pool)
<1>1. u = FoldLeft(UndoUnconfirmed, book, pool)
  BY DEF UndoPool
<1> HIDE DEF u
<1>2. IsKept(book, pool, Confirmed, dropped, stale) /\ dropped \in BOOLEAN /\ stale \in BOOLEAN
      /\ book \in Book /\ P \in SUBSET Tx
  BY Inside, Types
<1>3. /\ IsFree(u, dropped, stale) /\ u.balance = book.balance /\ u.asset = book.asset
      /\ IsReleased(u, book, P)
  BY <1>1, <1>2, PoolUndone
<1> HIDE DEF P
<1>4. u \in Book
  BY <1>3 DEF IsFree
<1>5. \A a \in Account : /\ u.u_balance[a] <= u.balance[a] /\ u.cache[a] <= u.asset[a]
                         /\ u.asset[a] >= 0
  BY <1>3 DEF IsFree, IInv, TypeOK
<1>6. ASSUME NEW t \in P
      PROVE  /\ u.u_balance[t.sender] >= SentBy(t.sender, P)
             /\ t.asset => u.cache[t.sender] >= SpentBy(t.sender, P)
  <2> DEFINE a == t.sender
  <2>1. a \in Account
    BY <1>2, TransferTypes
  <2>2. book.u_balance[a] >= 0 /\ (t.asset => book.cache[a] >= 0)
    BY DEF IInv, Covered, IsCovered, P
  <2> HIDE DEF a
  <2>3. /\ u.u_balance[a] = book.u_balance[a] + SentBy(a, P)
        /\ u.cache[a] = book.cache[a] + SpentBy(a, P)
    BY <1>3, <2>1 DEF IsReleased
  <2>4. book.u_balance[a] \in Int /\ book.cache[a] \in Int
    BY <1>2, <2>1 DEF Book
  <2>5. SentBy(a, P) \in Int /\ SpentBy(a, P) \in Int
    BY <1>2, <2>1, SentByIs, SpentByIs
  <2>6. u.u_balance[a] >= SentBy(a, P) /\ (t.asset => u.cache[a] >= SpentBy(a, P))
    BY <2>2, <2>3, <2>4, <2>5
  <2> QED BY <2>6 DEF a
<1>7. IsProvided(u, P)
  BY <1>5, <1>6 DEF IsProvided
<1> QED BY <1>4, <1>7 DEF u, P

\* A node can forge any part of its pool, in the order of sortTransactions.
THEOREM PoolForgeable == Spec => []PoolCanBeForged
<1>1. ASSUME IInv, ~stale, ~underPool, NEW S \in SUBSET ToSet(pool)
      PROVE  Process(UndoPool(book), Sorted(S)).failed = {}
  <2>1. ToSet(pool) \in SUBSET Tx
    BY <1>1, Inside, Types
  <2>2. Sorted(S) \in Seq(S) /\ IsInjective(Sorted(S))
    BY <2>1, SortedIs
  <2> DEFINE b == UndoPool(book)
             l == Sorted(S)
             P == ToSet(pool)
  <2>3. l \in Seq(P)
    <3>1. S \subseteq P
      OBVIOUS
    <3> HIDE DEF l, P
    <3> QED BY <2>2, <3>1 DEF l
  <2>4. b \in Book /\ IsProvided(b, P)
    BY <1>1, PoolProvided
  <2> HIDE DEF b, l, P
  <2>5. Process(b, l).failed = {}
    BY <2>1, <2>2, <2>3, <2>4, ForgeAll DEF P, l
  <2> QED BY <2>5 DEF b, l
<1>2. IInv => PoolCanBeForged
  BY <1>1 DEF PoolCanBeForged
<1> QED BY <1>2, BooksInvariance, PTL

=============================================================================
