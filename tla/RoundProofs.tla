---------------------------- MODULE RoundProofs ----------------------------
(***************************************************************************)
(* Proofs about the rounds of Round.tla, for every number of delegates,    *)
(* accounts, blocks, rollbacks and restarts.                               *)
(***************************************************************************)
EXTENDS Round, ListsProofs

-----------------------------------------------------------------------------
(* The heights of a round *)

\* The last height before the round r.
Before(r) == (r - 1) * N

\* The round r has the N heights after Before(r), and a height has one round.
LEMMA RoundFacts ==
  /\ \A r \in Nat \ {0} : /\ Before(r) \in Nat /\ r * N = Before(r) + N
                          /\ Before(r + 1) = Before(r) + N
  /\ Before(1) = 0
  /\ \A r, s \in Nat \ {0} : r < s => Before(r) + N <= Before(s)
  /\ \A h \in Nat \ {0} : /\ RoundOf(h) \in Nat \ {0}
                          /\ Before(RoundOf(h)) < h /\ h <= Before(RoundOf(h)) + N
                          /\ h % N = 0 <=> h = Before(RoundOf(h)) + N
<1>0. N \in Nat \ {0}
  BY ConstantsAssumption
<1>1. ASSUME NEW r \in Nat \ {0}
      PROVE  Before(r) \in Nat /\ r * N = Before(r) + N /\ Before(r + 1) = Before(r) + N
  <2>1. PICK q \in Nat : r = q + 1
    <3>1. r - 1 \in Nat /\ r = (r - 1) + 1
      OBVIOUS
    <3> QED BY <3>1
  <2>2. q * N \in Nat /\ (q + 1) * N = q * N + N
    BY <1>0
  <2> QED BY <1>0, <2>1, <2>2 DEF Before
<1>2. Before(1) = 0
  BY <1>0 DEF Before
<1>3. ASSUME NEW r \in Nat \ {0}, NEW s \in Nat \ {0}, r < s PROVE Before(r) + N <= Before(s)
  <2>1. PICK q \in Nat : r = q + 1
    <3>1. r - 1 \in Nat /\ r = (r - 1) + 1
      OBVIOUS
    <3> QED BY <3>1
  <2>2. PICK k \in Nat : s = q + 1 + k + 1
    <3>1. s - r - 1 \in Nat /\ s = r + (s - r - 1) + 1
      BY <1>3
    <3> QED BY <2>1, <3>1
  <2>3. q * N \in Nat /\ k * N \in Nat /\ (q + 1 + k) * N = q * N + N + k * N
    BY <1>0
  <2> QED BY <1>0, <2>1, <2>2, <2>3 DEF Before
<1>4. ASSUME NEW h \in Nat \ {0}
      PROVE  /\ RoundOf(h) \in Nat \ {0}
             /\ Before(RoundOf(h)) < h /\ h <= Before(RoundOf(h)) + N
             /\ h % N = 0 <=> h = Before(RoundOf(h)) + N
  <2> DEFINE q == h \div N
             m == h % N
  <2>1. q \in Nat /\ m \in 0 .. N - 1 /\ h = q * N + m
    BY <1>0
  <2>2. RoundOf(h) = q + (IF m > 0 THEN 1 ELSE 0)
    BY DEF RoundOf
  <2> HIDE DEF q, m
  <2>3. CASE m = 0
    <3>1. RoundOf(h) = q /\ h = q * N
      BY <1>0, <2>1, <2>2, <2>3
    <3>2. q # 0
      BY <1>0, <3>1
    <3>3. PICK k \in Nat : q = k + 1
      <4>1. q - 1 \in Nat /\ q = (q - 1) + 1
        BY <2>1, <3>2
      <4> QED BY <4>1
    <3>4. k * N \in Nat /\ (k + 1) * N = k * N + N /\ Before(q) = k * N
      BY <1>0, <3>3 DEF Before
    <3> QED BY <1>0, <2>1, <2>3, <3>1, <3>2, <3>3, <3>4 DEF m
  <2>4. CASE m # 0
    <3>1. RoundOf(h) = q + 1 /\ Before(q + 1) = q * N /\ q * N \in Nat
      BY <1>0, <2>1, <2>2, <2>4 DEF Before
    <3> QED BY <1>0, <2>1, <2>4, <3>1 DEF m
  <2> QED BY <2>3, <2>4
<1> HIDE DEF Before
<1> QED BY <1>1, <1>2, <1>3, <1>4
-----------------------------------------------------------------------------
(* What a block does to the database *)

\* What the constants are.
LEMMA Constants ==
  /\ N \in Nat \ {0} /\ Delegate \subseteq Account /\ IsFiniteSet(Account) /\ IsFiniteSet(Delegate)
  /\ Genesis \in Account \ Delegate /\ NoVote \notin Vote
  /\ Reward \in Nat /\ RewardPool \in Nat /\ MaxHeight \in Nat \ {0}
  /\ Funds \in [Account -> Nat] /\ InitialDelegates \in SUBSET Vote
<1>1. IsFiniteSet(Delegate)
  BY ConstantsAssumption, FS_Subset
<1> QED BY <1>1, ConstantsAssumption

\* What a block has.
LEMMA Blocks ==
  ASSUME NEW b \in Block \cup {GenesisBlock}
  PROVE  /\ b.generator \in Account /\ b.fee \in Nat /\ b.moves \in [Account -> Int]
         /\ b.vote # NoVote => b.vote \in Vote /\ b.vote[1] \in Account /\ b.vote[2] \in Delegate
         /\ b.vote = NoVote \/ b.vote \in Vote
<1>1. CASE b \in Block
  BY <1>1, ConstantsAssumption DEF Vote
<1>2. CASE b = GenesisBlock
  BY <1>2, ConstantsAssumption DEF GenesisBlock, NoMoves
<1> QED BY <1>1, <1>2

\* What a block is in the accumulators.
LEMMA GatheredIs ==
  ASSUME NEW b \in Block \cup {GenesisBlock}, NEW h \in Nat
  PROVE  /\ Gathered(h, b) \in Entry
         /\ Gathered(h, b).generator = b.generator /\ Gathered(h, b).fee = b.fee
         /\ Gathered(h, b).reward = IF h <= 1 THEN 0 ELSE Reward
BY Blocks, Constants DEF Gathered, Entry, RewardAt

\* Touch changes the blocks of some accounts.
IsTouched(t, d, S, id) ==
  /\ t.balance = d.balance /\ t.fees = d.fees /\ t.rewards = d.rewards
  /\ t.produced = d.produced /\ t.missed = d.missed /\ t.vote = d.vote
  /\ t.delegates = d.delegates /\ t.memRound = d.memRound /\ t.pool = d.pool
  /\ \A a \in Account : t.blockId[a] = IF a \in S THEN id ELSE d.blockId[a]

\* Touch changes the block of the accounts in S, and no other.
LEMMA TouchIs ==
  ASSUME NEW d \in Db, NEW S, NEW id \in Int, NEW t, t = Touch(d, S, id)
  PROVE  t \in Db /\ IsTouched(t, d, S, id)
BY DEF Touch, Db, IsTouched

MemRounds == [Rounds -> [Delegate -> Int]]

\* Flushed empties one round.
LEMMA FlushedIs ==
  ASSUME NEW m \in MemRounds, NEW r \in Rounds, NEW k, k = Flushed(m, r)
  PROVE  /\ k \in MemRounds
         /\ \A q \in Rounds : \A y \in Delegate : k[q][y] = IF q = r THEN 0 ELSE m[q][y]
<1> DEFINE z == [e \in Delegate |-> 0]
<1>1. z \in [Delegate -> Int] /\ \A y \in Delegate : z[y] = 0
  OBVIOUS
<1>2. k = [m EXCEPT ![r] = z]
  BY DEF Flushed
<1> HIDE DEF z
<1> QED BY <1>1, <1>2 DEF MemRounds

\* What the voters of e have in the tables d.
Held(d, e) == Total(d.balance, Voters(d.delegates, e))

\* The voters are accounts, and what they have is a number.
LEMMA HeldInt ==
  ASSUME NEW d \in Db, NEW e \in Delegate
  PROVE  Voters(d.delegates, e) \in SUBSET Account /\ Held(d, e) \in Int
<1> DEFINE A == Account
           f == d.balance
           V == Voters(d.delegates, e)
<1>1. IsFiniteSet(A) /\ f \in [A -> Int] /\ V \in SUBSET A
  BY Constants DEF Db, Voters
<1>2. Total(f, V) \in Int
  <2> HIDE DEF A, f, V
  <2> QED BY <1>1, TotalMore
<1> QED BY <1>1, <1>2 DEF Held

\* mem_round has what the voters of each delegate have in t, and not in d.
IsRecorded(t, d, r) ==
  \A q \in Rounds : \A e \in Delegate :
    t.memRound[q][e] = d.memRound[q][e] + IF q = r THEN Held(t, e) - Held(d, e) ELSE 0

\* Credit changes the balances, and records what that means for the delegates.
LEMMA CreditIs ==
  ASSUME NEW d \in Db, NEW r \in Rounds, NEW coins \in [Account -> Int],
         NEW t, t = Credit(d, r, coins)
  PROVE  /\ t \in Db
         /\ t.fees = d.fees /\ t.rewards = d.rewards /\ t.produced = d.produced
         /\ t.missed = d.missed /\ t.vote = d.vote /\ t.pool = d.pool
         /\ t.delegates = d.delegates /\ t.blockId = d.blockId
         /\ \A a \in Account : t.balance[a] = d.balance[a] + coins[a]
         /\ IsRecorded(t, d, r)
<1> DEFINE A == Account
           f == d.balance
           ba == [a \in A |-> f[a] + coins[a]]
           om == d.memRound
           D == d.delegates
           row == [e \in Delegate |-> om[r][e] + Total(coins, Voters(D, e))]
           me == [om EXCEPT ![r] = row]
<1>1. t = [d EXCEPT !.balance = ba, !.memRound = me]
  BY DEF Credit
<1>2. /\ IsFiniteSet(A) /\ f \in [A -> Int] /\ om \in MemRounds /\ coins \in [A -> Int]
      /\ \A e \in Delegate : Voters(D, e) \in SUBSET A
  BY Constants, HeldInt DEF Db, MemRounds
<1>3. ba \in [A -> Int] /\ \A a \in A : ba[a] = f[a] + coins[a]
  BY <1>2
<1> HIDE DEF A, f, ba
<1>4. \A e \in Delegate : Total(coins, Voters(D, e)) \in Int
  BY <1>2, TotalMore
<1>5. row \in [Delegate -> Int] /\ \A e \in Delegate : row[e] = om[r][e] + Total(coins, Voters(D, e))
  BY <1>2, <1>4 DEF MemRounds
<1> HIDE DEF row, D
<1>6. /\ me \in MemRounds
      /\ \A q \in Rounds : \A e \in Delegate :
           me[q][e] = IF q = r THEN om[q][e] + Total(coins, Voters(D, e)) ELSE om[q][e]
  BY <1>2, <1>5 DEF MemRounds
<1> HIDE DEF me
<1>7. /\ t \in Db /\ t.balance = ba /\ t.memRound = me
      /\ t.fees = d.fees /\ t.rewards = d.rewards /\ t.produced = d.produced
      /\ t.missed = d.missed /\ t.vote = d.vote /\ t.pool = d.pool
      /\ t.delegates = d.delegates /\ t.blockId = d.blockId
  BY <1>1, <1>3, <1>6 DEF Db, MemRounds, A
<1>8. \A e \in Delegate : Total(ba, Voters(D, e)) = Total(f, Voters(D, e)) + Total(coins, Voters(D, e))
  <2>1. Adds(ba, f, coins, A)
    BY <1>2, <1>3 DEF Adds
  <2> QED BY <1>2, <2>1, TotalPlus
<1>9. \A e \in Delegate : /\ Held(t, e) = Total(ba, Voters(D, e)) /\ Held(d, e) = Total(f, Voters(D, e))
                          /\ Held(t, e) \in Int /\ Held(d, e) \in Int
  BY <1>7, HeldInt DEF Held, D, f
<1>10. IsRecorded(t, d, r)
  <2> SUFFICES ASSUME NEW q \in Rounds, NEW e \in Delegate
               PROVE  t.memRound[q][e] = d.memRound[q][e] + IF q = r THEN Held(t, e) - Held(d, e) ELSE 0
    BY DEF IsRecorded
  <2>1. om[q][e] \in Int
    BY <1>2 DEF MemRounds
  <2> HIDE DEF om
  <2>2. t.memRound[q][e] = IF q = r THEN om[q][e] + Total(coins, Voters(D, e)) ELSE om[q][e]
    BY <1>6, <1>7
  <2>3. Held(t, e) - Held(d, e) = Total(coins, Voters(D, e))
    BY <1>4, <1>8, <1>9
  <2> QED BY <2>1, <2>2, <2>3 DEF om
<1> QED BY <1>3, <1>7, <1>10 DEF A, f

\* t has the votes of d, with `vote' added or withdrawn.
IsToggled(t, d, v) == \A x \in Vote : x \in t.delegates <=> (IF x = v THEN x \notin d.delegates
                                                           ELSE x \in d.delegates)

\* A vote changes the votes of its sender, and is recorded with what he has.
LEMMA CastVoteIs ==
  ASSUME NEW d \in Db, NEW vote \in Vote, NEW r \in Rounds, NEW t, t = CastVote(d, vote, r)
  PROVE  /\ t \in Db
         /\ t.fees = d.fees /\ t.rewards = d.rewards /\ t.produced = d.produced
         /\ t.missed = d.missed /\ t.vote = d.vote /\ t.pool = d.pool
         /\ t.balance = d.balance /\ t.blockId = d.blockId
         /\ IsToggled(t, d, vote) /\ IsRecorded(t, d, r)
<1>0. vote[1] \in Account /\ vote[2] \in Delegate /\ vote # NoVote /\ vote = <<vote[1], vote[2]>>
  BY Constants DEF Vote
<1> DEFINE A == Account
           f == d.balance
           x == vote[1]
           y == vote[2]
           om == d.memRound
           D == d.delegates
           p == vote \in D
           K == IF p THEN D \ {vote} ELSE D \cup {vote}
           w == IF p THEN -f[x] ELSE f[x]
           row == Plus(om[r], y, w)
           me == [om EXCEPT ![r] = row]
<1>1. t = [d EXCEPT !.delegates = K, !.memRound = me]
  BY <1>0 DEF CastVote
<1>2. /\ IsFiniteSet(A) /\ f \in [A -> Int] /\ om \in MemRounds /\ D \in SUBSET Vote /\ f[x] \in Int
      /\ \A e \in Delegate : Voters(D, e) \in SUBSET A
  BY <1>0, Constants, HeldInt DEF Db, MemRounds
<1>3. w \in Int
  <2> HIDE DEF f, p
  <2> QED BY <1>2
<1> HIDE DEF w
<1>4. row \in [Delegate -> Int]
      /\ \A e \in Delegate : row[e] = om[r][e] + IF e = y THEN w ELSE 0
  BY <1>0, <1>2, <1>3 DEF MemRounds, Plus
<1> HIDE DEF row
<1>5. /\ me \in MemRounds
      /\ \A q \in Rounds : \A e \in Delegate :
           me[q][e] = om[q][e] + IF q = r /\ e = y THEN w ELSE 0
  BY <1>2, <1>4 DEF MemRounds
<1> HIDE DEF me
<1>12. K \in SUBSET Vote
  BY <1>2
<1>6. /\ t \in Db /\ t.delegates = K /\ t.memRound = me
      /\ t.fees = d.fees /\ t.rewards = d.rewards /\ t.produced = d.produced
      /\ t.missed = d.missed /\ t.vote = d.vote /\ t.pool = d.pool
      /\ t.balance = d.balance /\ t.blockId = d.blockId
  <2> HIDE DEF K, om
  <2> QED BY <1>1, <1>2, <1>5, <1>12 DEF Db, MemRounds
<1>7. IsToggled(t, d, vote)
  BY <1>6 DEF IsToggled
<1>8. ASSUME NEW e \in Delegate, e # y PROVE Voters(K, e) = Voters(D, e)
  BY <1>0, <1>8 DEF Voters
<1>9. Total(f, Voters(K, y)) - Total(f, Voters(D, y)) = w
  <2>1. CASE p
    <3>1. Voters(D, y) = Voters(K, y) \cup {x} /\ x \notin Voters(K, y) /\ w = -f[x]
      BY <1>0, <2>1 DEF Voters, w
    <3>2. Voters(K, y) \in SUBSET A /\ x \in A \ Voters(K, y)
      BY <1>0, <1>2, <3>1
    <3>3. Total(f, Voters(K, y)) \in Int /\ Total(f, Voters(D, y)) = Total(f, Voters(K, y)) + f[x]
      <4> HIDE DEF K, D, A, f, x, y
      <4> QED BY <1>2, <3>1, <3>2, TotalMore
    <3> HIDE DEF K, D, A, f, x, y
    <3> QED BY <1>2, <3>1, <3>3
  <2>2. CASE ~p
    <3>1. Voters(K, y) = Voters(D, y) \cup {x} /\ x \notin Voters(D, y) /\ w = f[x]
      BY <1>0, <2>2 DEF Voters, w
    <3>2. Voters(D, y) \in SUBSET A /\ x \in A \ Voters(D, y)
      BY <1>0, <1>2, <3>1
    <3>3. Total(f, Voters(D, y)) \in Int /\ Total(f, Voters(K, y)) = Total(f, Voters(D, y)) + f[x]
      <4> HIDE DEF K, D, A, f, x, y
      <4> QED BY <1>2, <3>1, <3>2, TotalMore
    <3> HIDE DEF K, D, A, f, x, y
    <3> QED BY <1>2, <3>1, <3>3
  <2> QED BY <2>1, <2>2
<1>10. \A e \in Delegate : /\ Held(t, e) = Total(f, Voters(K, e)) /\ Held(d, e) = Total(f, Voters(D, e))
                           /\ Held(d, e) \in Int
  BY <1>6, HeldInt DEF Held
<1>11. IsRecorded(t, d, r)
  <2> SUFFICES ASSUME NEW q \in Rounds, NEW e \in Delegate
               PROVE  t.memRound[q][e] = d.memRound[q][e] + IF q = r THEN Held(t, e) - Held(d, e) ELSE 0
    BY DEF IsRecorded
  <2>1. om[q][e] \in Int /\ t.memRound[q][e] = om[q][e] + IF q = r /\ e = y THEN w ELSE 0
    BY <1>2, <1>5, <1>6 DEF MemRounds
  <2>2. Held(t, e) - Held(d, e) = IF e = y THEN w ELSE 0
    <3> HIDE DEF K, D, A, f, y
    <3> QED BY <1>8, <1>9, <1>10
  <2> HIDE DEF y
  <2> QED BY <2>1, <2>2
<1> QED BY <1>6, <1>7, <1>11

\* A block changes the accounts of its generator and of its transactions.
IsProduced(t, d, b, r, n, id) ==
  /\ t.fees = d.fees /\ t.rewards = d.rewards /\ t.missed = d.missed
  /\ t.vote = d.vote /\ t.pool = d.pool
  /\ \A a \in Account :
       /\ t.balance[a] = d.balance[a] + n * b.moves[a]
       /\ t.produced[a] = d.produced[a] + IF a = b.generator THEN n ELSE 0
       /\ t.blockId[a] = IF a \in Concerned(b) THEN id ELSE d.blockId[a]
  /\ IsToggled(t, d, b.vote) /\ IsRecorded(t, d, r)

\* Two changes of a round are recorded together.
LEMMA RecordedTwice ==
  ASSUME NEW d \in Db, NEW s \in Db, NEW t, NEW r, IsRecorded(s, d, r), IsRecorded(t, s, r),
         \A e \in Delegate : Held(t, e) \in Int
  PROVE  IsRecorded(t, d, r)
<1> SUFFICES ASSUME NEW q \in Rounds, NEW e \in Delegate
             PROVE  t.memRound[q][e] = d.memRound[q][e] + IF q = r THEN Held(t, e) - Held(d, e) ELSE 0
  BY DEF IsRecorded
<1>1. d.memRound[q][e] \in Int
  BY DEF Db
<1>2. Held(d, e) \in Int /\ Held(s, e) \in Int /\ Held(t, e) \in Int
  BY HeldInt
<1>3. /\ s.memRound[q][e] = d.memRound[q][e] + IF q = r THEN Held(s, e) - Held(d, e) ELSE 0
      /\ t.memRound[q][e] = s.memRound[q][e] + IF q = r THEN Held(t, e) - Held(s, e) ELSE 0
  BY DEF IsRecorded
<1> QED BY <1>1, <1>2, <1>3

\* Produced changes the tables as IsProduced says.
LEMMA ProducedIs ==
  ASSUME NEW d \in Db, NEW b \in Block \cup {GenesisBlock}, NEW r \in Rounds,
         NEW n \in Int, NEW id \in Int, NEW t, t = Produced(d, b, r, n, id)
  PROVE  t \in Db /\ IsProduced(t, d, b, r, n, id)
<1> DEFINE vote == b.vote
           m == [a \in Account |-> n * b.moves[a]]
           c == Credit(d, r, m)
           v == CastVote(c, vote, r)
           x == b.generator
           pr == Plus(v.produced, x, n)
           w == [v EXCEPT !.produced = pr]
           S == Concerned(b)
<1>0. x \in Account /\ (vote = NoVote \/ vote \in Vote) /\ b.moves \in [Account -> Int]
  BY Blocks
<1>1. t = Touch(w, S, id)
  BY DEF Produced
<1>2. m \in [Account -> Int] /\ \A a \in Account : m[a] = n * b.moves[a]
  BY <1>0
<1> HIDE DEF m
<1>3. /\ c \in Db
      /\ c.fees = d.fees /\ c.rewards = d.rewards /\ c.produced = d.produced
      /\ c.missed = d.missed /\ c.vote = d.vote /\ c.pool = d.pool
      /\ c.delegates = d.delegates /\ c.blockId = d.blockId
      /\ \A a \in Account : c.balance[a] = d.balance[a] + m[a]
      /\ IsRecorded(c, d, r)
  BY <1>2, CreditIs
<1> HIDE DEF c
<1>4. /\ v \in Db
      /\ v.fees = c.fees /\ v.rewards = c.rewards /\ v.produced = c.produced
      /\ v.missed = c.missed /\ v.vote = c.vote /\ v.pool = c.pool
      /\ v.balance = c.balance /\ v.blockId = c.blockId
      /\ IsToggled(v, c, vote) /\ IsRecorded(v, d, r)
  <2>1. CASE vote = NoVote
    <3>1. v = c /\ vote \notin Vote
      BY <2>1, Constants DEF CastVote
    <3>2. IsToggled(v, c, vote)
      BY <3>1 DEF IsToggled
    <3> HIDE DEF v, vote
    <3> QED BY <1>3, <3>1, <3>2
  <2>2. CASE vote \in Vote
    <3> HIDE DEF v, vote
    <3>2. v = CastVote(c, vote, r)
      BY DEF v
    <3>3. /\ v \in Db
          /\ v.fees = c.fees /\ v.rewards = c.rewards /\ v.produced = c.produced
          /\ v.missed = c.missed /\ v.vote = c.vote /\ v.pool = c.pool
          /\ v.balance = c.balance /\ v.blockId = c.blockId
          /\ IsToggled(v, c, vote) /\ IsRecorded(v, c, r)
      BY <1>3, <2>2, <3>2, CastVoteIs
    <3>4. \A e \in Delegate : Held(v, e) \in Int
      BY <3>3, HeldInt
    <3>5. IsRecorded(v, d, r)
      BY <1>3, <3>3, <3>4, RecordedTwice
    <3> QED BY <3>3, <3>5
  <2> QED BY <1>0, <2>1, <2>2
<1> HIDE DEF v
<1>5. pr \in [Account -> Int] /\ \A a \in Account : pr[a] = v.produced[a] + IF a = x THEN n ELSE 0
  <2>1. v.produced \in [Account -> Int]
    BY <1>4 DEF Db
  <2> QED BY <1>0, <2>1 DEF Plus
<1> HIDE DEF pr
<1>6. /\ w \in Db
      /\ w.fees = v.fees /\ w.rewards = v.rewards /\ w.balance = v.balance
      /\ w.missed = v.missed /\ w.vote = v.vote /\ w.pool = v.pool /\ w.blockId = v.blockId
      /\ w.delegates = v.delegates /\ w.memRound = v.memRound /\ w.produced = pr
  BY <1>4, <1>5 DEF Db
<1> HIDE DEF w, S
<1>7. /\ t \in Db
      /\ t.balance = w.balance /\ t.fees = w.fees /\ t.rewards = w.rewards
      /\ t.produced = w.produced /\ t.missed = w.missed /\ t.vote = w.vote
      /\ t.delegates = w.delegates /\ t.memRound = w.memRound /\ t.pool = w.pool
      /\ \A a \in Account : t.blockId[a] = IF a \in S THEN id ELSE w.blockId[a]
  BY <1>1, <1>6, TouchIs DEF IsTouched
<1>8. \A a \in Account : /\ t.balance[a] = d.balance[a] + n * b.moves[a]
                         /\ t.produced[a] = d.produced[a] + IF a = x THEN n ELSE 0
                         /\ t.blockId[a] = IF a \in S THEN id ELSE d.blockId[a]
  BY <1>2, <1>3, <1>4, <1>5, <1>6, <1>7
<1>9. IsToggled(t, d, vote)
  BY <1>3, <1>4, <1>6, <1>7 DEF IsToggled
<1>10. \A e \in Delegate : Held(t, e) = Held(v, e)
  BY <1>6, <1>7 DEF Held
<1>11. IsRecorded(t, d, r)
  BY <1>4, <1>6, <1>7, <1>10 DEF IsRecorded
<1>12. t.fees = d.fees /\ t.rewards = d.rewards /\ t.missed = d.missed
       /\ t.vote = d.vote /\ t.pool = d.pool
  BY <1>3, <1>4, <1>6, <1>7
<1> QED BY <1>7, <1>8, <1>9, <1>11, <1>12 DEF IsProduced, S

-----------------------------------------------------------------------------
(* What a round pays *)

\* The heights of a list of blocks.
LEMMA DomainIs ==
  ASSUME NEW g \in Seq(Entry)
  PROVE  /\ IsFiniteSet(DOMAIN g) /\ DOMAIN g = 1 .. Len(g) /\ Len(g) \in Nat
         /\ \A i \in DOMAIN g : g[i].generator \in Account /\ g[i].fee \in Nat /\ g[i].reward \in Nat
<1>1. DOMAIN g = 1 .. Len(g) /\ Len(g) \in Nat
  OBVIOUS
<1>2. IsFiniteSet(1 .. Len(g))
  BY <1>1, FS_Interval
<1>3. \A i \in DOMAIN g : g[i] \in Entry
  OBVIOUS
<1> QED BY <1>1, <1>2, <1>3 DEF Entry

\* The fees and rewards of a list of blocks, and the parts of an account.
LEMMA PayIs ==
  ASSUME NEW g \in Seq(Entry), NEW last
  PROVE  /\ Fees(g) \in Nat /\ Rewards(g) \in Nat
         /\ \A i \in DOMAIN g : ShareOf(g, i, last) \in Int
         /\ \A a \in Account : FeesFor(g, a, last) \in Int /\ RewardsFor(g, a) \in Nat
<1> DEFINE D == DOMAIN g
           f == [i \in D |-> g[i].fee]
           w == [i \in D |-> g[i].reward]
           s == [i \in D |-> ShareOf(g, i, last)]
<1>1. IsFiniteSet(D) /\ f \in [D -> Nat] /\ w \in [D -> Nat]
  BY DomainIs
<1>2. Fees(g) = Total(f, D) /\ Rewards(g) = Total(w, D)
      /\ \A a \in Account : /\ RewardsFor(g, a) = Total(w, ByOne(g, a))
                            /\ FeesFor(g, a, last) = Total(s, ByOne(g, a))
  BY DEF Fees, Rewards, RewardsFor, FeesFor
<1>3. \A a \in Account : ByOne(g, a) \in SUBSET D
  BY DEF ByOne
<1> HIDE DEF f, w
<1>4. Fees(g) \in Nat /\ Rewards(g) \in Nat /\ \A a \in Account : RewardsFor(g, a) \in Nat
  <2> HIDE DEF D
  <2>1. \A V \in SUBSET D : Total(f, V) \in Nat
    BY <1>1, TotalNat
  <2>2. \A V \in SUBSET D : Total(w, V) \in Nat
    BY <1>1, TotalNat
  <2> QED BY <1>2, <1>3, <2>1, <2>2
<1>5. \A i \in D : ShareOf(g, i, last) \in Int
  BY <1>4, Constants DEF ShareOf
<1>6. s \in [D -> Int]
  BY <1>5
<1> HIDE DEF s
<1>7. \A a \in Account : FeesFor(g, a, last) \in Int
  <2> HIDE DEF D
  <2> QED BY <1>1, <1>2, <1>3, <1>6, TotalMore
<1> QED BY <1>4, <1>5, <1>7

\* All rewards of a list of blocks go to the accounts.
LEMMA RewardsShared ==
  ASSUME NEW g \in Seq(Entry), NEW F \in [Account -> Int], \A a \in Account : F[a] = RewardsFor(g, a)
  PROVE  Total(F, Account) = Rewards(g)
<1> DEFINE D == DOMAIN g
           w == [i \in D |-> g[i].reward]
           o == [i \in D |-> g[i].generator]
<1>1. IsFiniteSet(D) /\ w \in [D -> Int] /\ o \in [D -> Account] /\ IsFiniteSet(Account)
  BY DomainIs, Constants
<1>2. \A a \in Account : F[a] = Total(w, Fibre(o, D, a))
  <2> TAKE a \in Account
  <2>1. Fibre(o, D, a) = ByOne(g, a)
    BY DEF ByOne, Fibre
  <2> QED BY <2>1 DEF RewardsFor
<1>3. Rewards(g) = Total(w, D)
  BY DEF Rewards
<1>4. IsShare(F, w, o, D, Account)
  <2> HIDE DEF D, w, o
  <2> QED BY <1>1, <1>2 DEF IsShare
<1> HIDE DEF D, w, o
<1> QED BY <1>3, <1>4, TotalFibres

Signs == {1, -1}

\* Settle pays the generators of g, counts the votes and the missed blocks.
IsSettled(t, d, g, last, sign, list, r, id) ==
  /\ t.produced = d.produced /\ t.delegates = d.delegates /\ t.pool = d.pool
  /\ \A a \in Account :
       /\ t.fees[a] = d.fees[a] + sign * FeesFor(g, a, last)
       /\ t.rewards[a] = d.rewards[a] + sign * RewardsFor(g, a)
       /\ t.balance[a] = d.balance[a] + (t.fees[a] - d.fees[a]) + (t.rewards[a] - d.rewards[a])
       /\ t.blockId[a] = IF a \in Generators(g) THEN id ELSE d.blockId[a]
  /\ \A e \in Delegate :
       /\ t.vote[e] = d.vote[e] + d.memRound[r][e] + (Held(t, e) - Held(d, e))
       /\ t.missed[e] = d.missed[e] + IF e \in Outsiders(list, g) THEN sign ELSE 0
  /\ \A q \in Rounds : \A e \in Delegate :
       t.memRound[q][e] = IF q = r THEN 0 ELSE d.memRound[q][e]

\* Settle changes the tables as IsSettled says.
LEMMA SettleIs ==
  ASSUME NEW d \in Db, NEW g \in Seq(Entry), NEW last, NEW sign \in Signs,
         NEW list \in SUBSET Delegate, NEW r \in Rounds, NEW id \in Int,
         NEW t, t = Settle(d, g, last, sign, list, r, id)
  PROVE  t \in Db /\ IsSettled(t, d, g, last, sign, list, r, id)
<1> DEFINE fe == [a \in Account |-> sign * FeesFor(g, a, last)]
           re == [a \in Account |-> sign * RewardsFor(g, a)]
           co == [a \in Account |-> fe[a] + re[a]]
           p == Credit(d, r, co)
           mi == [e \in Delegate |-> d.missed[e] + IF e \in Outsiders(list, g) THEN sign ELSE 0]
           nf == [a \in Account |-> d.fees[a] + fe[a]]
           nr == [a \in Account |-> d.rewards[a] + re[a]]
           om == p.memRound
           vo == [e \in Delegate |-> d.vote[e] + om[r][e]]
           me == Flushed(om, r)
           u == [p EXCEPT !.missed = mi, !.fees = nf, !.rewards = nr,
                          !.vote = vo, !.memRound = me]
           S == Generators(g)
<1>1. t = Touch(u, S, id)
  BY DEF Settle
<1>2. /\ d.fees \in [Account -> Int] /\ d.balance \in [Account -> Int]
      /\ d.rewards \in [Account -> Int] /\ d.missed \in [Delegate -> Int]
      /\ d.vote \in [Delegate -> Int]
  BY DEF Db
<1>3. \A a \in Account : FeesFor(g, a, last) \in Int /\ RewardsFor(g, a) \in Int
  <2>1. \A a \in Account : FeesFor(g, a, last) \in Int /\ RewardsFor(g, a) \in Nat
    BY PayIs
  <2> QED BY <2>1
<1>4. /\ fe \in [Account -> Int] /\ re \in [Account -> Int]
      /\ \A a \in Account : fe[a] = sign * FeesFor(g, a, last) /\ re[a] = sign * RewardsFor(g, a)
  BY <1>3 DEF Signs
<1> HIDE DEF fe, re
<1>5. co \in [Account -> Int] /\ \A a \in Account : co[a] = fe[a] + re[a]
  BY <1>4
<1> HIDE DEF co
<1>6. /\ p \in Db
      /\ p.produced = d.produced /\ p.pool = d.pool
      /\ p.delegates = d.delegates /\ p.blockId = d.blockId
      /\ \A a \in Account : p.balance[a] = d.balance[a] + co[a]
      /\ IsRecorded(p, d, r)
  BY <1>5, CreditIs
<1> HIDE DEF p
<1>7. om \in MemRounds
  BY <1>6 DEF Db, MemRounds
<1>8. /\ nf \in [Account -> Int] /\ nr \in [Account -> Int]
      /\ \A a \in Account : nf[a] = d.fees[a] + fe[a] /\ nr[a] = d.rewards[a] + re[a]
  BY <1>2, <1>4
<1>9. mi \in [Delegate -> Int]
      /\ \A e \in Delegate : mi[e] = d.missed[e] + IF e \in Outsiders(list, g) THEN sign ELSE 0
  BY <1>2 DEF Signs
<1> HIDE DEF om, me, nf, nr, mi, vo, S
<1>10. vo \in [Delegate -> Int] /\ \A e \in Delegate : vo[e] = d.vote[e] + om[r][e]
  BY <1>2, <1>7 DEF MemRounds, vo
<1>11. /\ me \in MemRounds
       /\ \A q \in Rounds : \A y \in Delegate : me[q][y] = IF q = r THEN 0 ELSE om[q][y]
  <2>1. me = Flushed(om, r)
    BY DEF me
  <2> QED BY <1>7, <2>1, FlushedIs
<1>12. /\ u \in Db
       /\ u.produced = p.produced /\ u.delegates = p.delegates /\ u.pool = p.pool
       /\ u.blockId = p.blockId /\ u.balance = p.balance /\ u.fees = nf /\ u.rewards = nr
       /\ u.missed = mi /\ u.vote = vo /\ u.memRound = me
  BY <1>6, <1>8, <1>9, <1>10, <1>11 DEF Db, MemRounds
<1> HIDE DEF u
<1>13. /\ t \in Db
       /\ t.balance = u.balance /\ t.fees = u.fees /\ t.rewards = u.rewards
       /\ t.produced = u.produced /\ t.missed = u.missed /\ t.vote = u.vote
       /\ t.delegates = u.delegates /\ t.memRound = u.memRound /\ t.pool = u.pool
       /\ \A a \in Account : t.blockId[a] = IF a \in S THEN id ELSE u.blockId[a]
  BY <1>1, <1>12, TouchIs DEF IsTouched
<1>14. \A a \in Account :
         /\ t.fees[a] = d.fees[a] + fe[a] /\ t.rewards[a] = d.rewards[a] + re[a]
         /\ t.balance[a] = d.balance[a] + co[a]
         /\ d.fees[a] \in Int /\ d.rewards[a] \in Int /\ d.balance[a] \in Int
         /\ fe[a] \in Int /\ re[a] \in Int
  BY <1>2, <1>4, <1>6, <1>8, <1>12, <1>13
<1>15. \A a \in Account : t.balance[a] = d.balance[a] + (t.fees[a] - d.fees[a])
                                                      + (t.rewards[a] - d.rewards[a])
  <2> TAKE a \in Account
  <2>1. /\ t.fees[a] = d.fees[a] + fe[a] /\ t.rewards[a] = d.rewards[a] + re[a]
        /\ t.balance[a] = d.balance[a] + co[a] /\ co[a] = fe[a] + re[a]
        /\ d.fees[a] \in Int /\ d.rewards[a] \in Int /\ d.balance[a] \in Int
        /\ fe[a] \in Int /\ re[a] \in Int
    BY <1>5, <1>14
  <2> QED BY <2>1
<1>16. \A e \in Delegate : /\ Held(t, e) = Held(p, e)
                           /\ Held(p, e) \in Int /\ Held(d, e) \in Int
  BY <1>6, <1>12, <1>13, HeldInt DEF Held
<1>17. \A q \in Rounds : \A e \in Delegate :
         /\ om[q][e] = d.memRound[q][e] + IF q = r THEN Held(t, e) - Held(d, e) ELSE 0
         /\ d.memRound[q][e] \in Int /\ d.vote[e] \in Int
  <2>1. \A q \in Rounds : \A e \in Delegate : d.memRound[q][e] \in Int /\ d.vote[e] \in Int
    BY DEF Db
  <2>2. \A q \in Rounds : \A e \in Delegate :
          om[q][e] = d.memRound[q][e] + IF q = r THEN Held(p, e) - Held(d, e) ELSE 0
    BY <1>6 DEF IsRecorded, om
  <2> QED BY <1>16, <2>1, <2>2
<1>18. \A q \in Rounds : \A e \in Delegate :
         t.memRound[q][e] = IF q = r THEN 0 ELSE d.memRound[q][e]
  BY <1>11, <1>12, <1>13, <1>17
<1>19. \A a \in Account : t.blockId[a] = IF a \in Generators(g) THEN id ELSE d.blockId[a]
  BY <1>6, <1>12, <1>13 DEF S
<1>20. \A a \in Account : /\ t.fees[a] = d.fees[a] + sign * FeesFor(g, a, last)
                          /\ t.rewards[a] = d.rewards[a] + sign * RewardsFor(g, a)
  BY <1>4, <1>14
<1>21. \A e \in Delegate : t.vote[e] = d.vote[e] + d.memRound[r][e] + (Held(t, e) - Held(d, e))
  BY <1>10, <1>12, <1>13, <1>16, <1>17
<1>22. \A e \in Delegate : t.missed[e] = d.missed[e] + IF e \in Outsiders(list, g) THEN sign ELSE 0
  BY <1>9, <1>12, <1>13
<1>23. t.produced = d.produced /\ t.delegates = d.delegates /\ t.pool = d.pool
  BY <1>6, <1>12, <1>13
<1> QED BY <1>13, <1>15, <1>18, <1>19, <1>20, <1>21, <1>22, <1>23 DEF IsSettled

\* tick gathers a block, pays a round or refuses the block.
TickMade(d, h, b) == Produced(d, b, RoundOf(h), 1, h)
TickAll(g, h, b) == Append(g, Gathered(h, b))
TickPaid(d, g, h, b, list) ==
  Settle(TickMade(d, h, b), TickAll(g, h, b), Len(TickAll(g, h, b)), 1,
         IF h = 1 THEN {} ELSE list, RoundOf(h), h)

\* Tick gathers the block, refuses it for want of rewards, or settles the round.
LEMMA TickCases ==
  ASSUME NEW d \in Db, NEW g \in Seq(Entry), NEW h \in Nat \ {0}, RoundOf(h) \in Rounds,
         NEW b \in Block \cup {GenesisBlock}, NEW list \in SUBSET Delegate,
         NEW t, t = Tick(d, g, h, b, list)
  PROVE  /\ t.ok \in BOOLEAN /\ t.db \in Db /\ t.gathered \in Seq(Entry)
         /\ TickMade(d, h, b) \in Db /\ TickAll(g, h, b) \in Seq(Entry)
         /\ TickPaid(d, g, h, b, list) \in Db
         /\ Len(TickAll(g, h, b)) = Len(g) + 1
         /\ ~Settles(TickAll(g, h, b), h)
              => t.ok /\ t.db = TickMade(d, h, b) /\ t.gathered = TickAll(g, h, b)
         /\ Settles(TickAll(g, h, b), h) /\ d.pool < Rewards(TickAll(g, h, b))
              => ~t.ok /\ t.db = d /\ t.gathered = << >>
         /\ Settles(TickAll(g, h, b), h) /\ d.pool >= Rewards(TickAll(g, h, b))
              => /\ t.ok /\ t.gathered = << >>
                 /\ t.db.pool = d.pool - Rewards(TickAll(g, h, b))
                 /\ t.db.balance = TickPaid(d, g, h, b, list).balance
                 /\ t.db.fees = TickPaid(d, g, h, b, list).fees
                 /\ t.db.rewards = TickPaid(d, g, h, b, list).rewards
                 /\ t.db.produced = TickPaid(d, g, h, b, list).produced
                 /\ t.db.missed = TickPaid(d, g, h, b, list).missed
                 /\ t.db.vote = TickPaid(d, g, h, b, list).vote
                 /\ t.db.delegates = TickPaid(d, g, h, b, list).delegates
                 /\ t.db.memRound = TickPaid(d, g, h, b, list).memRound
                 /\ t.db.blockId = TickPaid(d, g, h, b, list).blockId
<1> DEFINE r == RoundOf(h)
           one == 1
           made == TickMade(d, h, b)
           e == Gathered(h, b)
           all == TickAll(g, h, b)
           n == Len(all)
           l == IF h = 1 THEN {} ELSE list
           paid == TickPaid(d, g, h, b, list)
<1>1. r \in Rounds /\ h \in Int /\ one \in Int /\ one \in Signs /\ l \in SUBSET Delegate
  BY Constants DEF Signs
<1>2. e \in Entry
  BY GatheredIs
<1>3. all \in Seq(Entry) /\ n = Len(g) + 1
  <2>1. all = Append(g, e)
    BY DEF TickAll
  <2> HIDE DEF e, all
  <2>2. Append(g, e) \in Seq(Entry) /\ Len(Append(g, e)) = Len(g) + 1
    BY <1>2
  <2> QED BY <2>1, <2>2
<1>4. made \in Db /\ made.pool = d.pool
  <2>1. made = Produced(d, b, r, one, h)
    BY DEF TickMade
  <2> HIDE DEF made, one, r
  <2>2. made \in Db /\ IsProduced(made, d, b, r, one, h)
    BY <1>1, <2>1, ProducedIs
  <2> QED BY <2>2 DEF IsProduced
<1>5. paid \in Db /\ paid.pool = made.pool
  <2>1. paid = Settle(made, all, n, one, l, r, h)
    BY DEF TickPaid
  <2> HIDE DEF paid, made, one, r, all, n, l
  <2>2. paid \in Db /\ IsSettled(paid, made, all, n, one, l, r, h)
    BY <1>1, <1>3, <1>4, <2>1, SettleIs
  <2> QED BY <2>2 DEF IsSettled
<1>6. t = IF ~Settles(all, h) THEN [ok |-> TRUE, db |-> made, gathered |-> all]
          ELSE IF ~CanPay(made, all) THEN [ok |-> FALSE, db |-> d, gathered |-> << >>]
          ELSE [ok |-> TRUE, db |-> [paid EXCEPT !.pool = Draw(made.pool, all)], gathered |-> << >>]
  BY DEF Tick, TickMade, TickAll, TickPaid
<1>7. Rewards(all) \in Nat
  BY <1>3, PayIs
<1>8. << >> \in Seq(Entry)
  OBVIOUS
<1>9. CASE ~Settles(all, h)
  BY <1>3, <1>4, <1>5, <1>6, <1>9
<1>10. CASE Settles(all, h) /\ d.pool < Rewards(all)
  <2>1. ~CanPay(made, all) /\ ~(d.pool >= Rewards(all))
    BY <1>4, <1>7, <1>10 DEF CanPay, Db
  <2> QED BY <1>3, <1>4, <1>5, <1>6, <1>8, <1>10, <2>1
<1>11. CASE Settles(all, h) /\ d.pool >= Rewards(all)
  <2> DEFINE p == d.pool - Rewards(all)
             q == [paid EXCEPT !.pool = p]
  <2>1. CanPay(made, all) /\ ~(d.pool < Rewards(all)) /\ p \in Nat /\ p = Draw(made.pool, all)
    BY <1>4, <1>7, <1>11 DEF CanPay, Db, Draw
  <2> HIDE DEF p
  <2>2. /\ q \in Db /\ q.pool = p /\ q.balance = paid.balance /\ q.fees = paid.fees
        /\ q.rewards = paid.rewards /\ q.produced = paid.produced /\ q.missed = paid.missed
        /\ q.vote = paid.vote /\ q.delegates = paid.delegates /\ q.memRound = paid.memRound
        /\ q.blockId = paid.blockId
    BY <1>5, <2>1 DEF Db
  <2>3. t = [ok |-> TRUE, db |-> q, gathered |-> << >>]
    BY <1>6, <1>11, <2>1
  <2> HIDE DEF q
  <2>4. t.ok /\ t.db = q /\ t.gathered = << >>
    BY <2>3
  <2> QED BY <1>3, <1>4, <1>5, <1>8, <1>11, <2>1, <2>2, <2>4 DEF p
<1>12. \/ ~Settles(all, h)
       \/ Settles(all, h) /\ d.pool < Rewards(all)
       \/ Settles(all, h) /\ d.pool >= Rewards(all)
  BY <1>7 DEF Db
<1> HIDE DEF n
<1> QED BY <1>9, <1>10, <1>11, <1>12 

\* What a settled round adds to the rewards in the accounts.
LEMMA SettledRewards ==
  ASSUME NEW d \in Db, NEW t \in Db, NEW g \in Seq(Entry), NEW last, NEW sign \in Signs, NEW list,
         NEW r, NEW id, IsSettled(t, d, g, last, sign, list, r, id)
  PROVE  /\ Total(d.rewards, Account) \in Int
         /\ Total(t.rewards, Account) = Total(d.rewards, Account) + sign * Rewards(g)
<1> DEFINE A == Account
           x == d.rewards
           y == t.rewards
           w == [a \in A |-> RewardsFor(g, a)]
<1>1. IsFiniteSet(A) /\ x \in [A -> Int] /\ y \in [A -> Int]
  BY Constants DEF Db
<1>2. w \in [A -> Int] /\ Rewards(g) \in Nat
  <2>1. Rewards(g) \in Nat /\ \A a \in Account : RewardsFor(g, a) \in Nat
    BY PayIs
  <2> QED BY <2>1
<1>3. Total(w, A) = Rewards(g)
  <2>1. \A a \in Account : w[a] = RewardsFor(g, a)
    OBVIOUS
  <2> HIDE DEF w
  <2> QED BY <1>2, <2>1, RewardsShared
<1>4. \A a \in A : y[a] = x[a] + sign * w[a]
  BY DEF IsSettled
<1>5. A \in SUBSET A
  OBVIOUS
<1>6. \A a \in A : w[a] \in Int
  BY <1>2
<1> HIDE DEF A, x, y, w
<1>7. Total(x, A) \in Int /\ Total(w, A) \in Int
  BY <1>1, <1>2, <1>5, TotalMore
<1>8. CASE sign = 1
  <2>1. \A a \in A : y[a] = x[a] + w[a]
    BY <1>4, <1>6, <1>8
  <2>2. Adds(y, x, w, A)
    BY <1>1, <1>2, <2>1 DEF Adds
  <2>3. Total(y, A) = Total(x, A) + Total(w, A)
    BY <1>5, <2>2, TotalPlus
  <2> QED BY <1>2, <1>3, <1>7, <1>8, <2>3 DEF x, y, A
<1>9. CASE sign = -1
  <2>1. \A a \in A : x[a] = y[a] + w[a]
    <3>1. \A a \in A : x[a] \in Int /\ y[a] \in Int
      BY <1>1
    <3> QED BY <1>4, <1>6, <1>9, <3>1
  <2>2. Adds(x, y, w, A)
    BY <1>1, <1>2, <2>1 DEF Adds
  <2>4. Total(x, A) = Total(y, A) + Total(w, A)
    BY <1>5, <2>2, TotalPlus
  <2>3. Total(y, A) \in Int
    BY <1>1, <1>5, TotalMore
  <2> QED BY <1>2, <1>3, <1>7, <1>9, <2>3, <2>4 DEF x, y, A
<1> QED BY <1>8, <1>9 DEF Signs

\* tick takes from the pool what it adds to the rewards, and notes the block.
LEMMA TickDraws ==
  ASSUME NEW d \in Db, NEW g \in Seq(Entry), NEW h \in Nat \ {0}, RoundOf(h) \in Rounds,
         NEW b \in Block \cup {GenesisBlock}, NEW list \in SUBSET Delegate,
         NEW t, t = Tick(d, g, h, b, list)
  PROVE  /\ t.ok \in BOOLEAN /\ t.db \in Db /\ t.gathered \in Seq(Entry)
         /\ Total(t.db.rewards, Account) + t.db.pool = Total(d.rewards, Account) + d.pool
         /\ t.db.pool <= d.pool
         /\ \A a \in Account : t.db.blockId[a] \in {h, d.blockId[a]}
<1> DEFINE r == RoundOf(h)
           one == 1
           made == TickMade(d, h, b)
           all == TickAll(g, h, b)
           n == Len(all)
           l == IF h = 1 THEN {} ELSE list
           paid == TickPaid(d, g, h, b, list)
<1>1. /\ t.ok \in BOOLEAN /\ t.db \in Db /\ t.gathered \in Seq(Entry)
      /\ made \in Db /\ all \in Seq(Entry) /\ paid \in Db
  BY TickCases
<1>2. r \in Rounds /\ h \in Int /\ one \in Int /\ one \in Signs /\ l \in SUBSET Delegate
  BY Constants DEF Signs
<1>3. IsProduced(made, d, b, r, one, h)
  <2>1. made = Produced(d, b, r, one, h)
    BY DEF TickMade
  <2> HIDE DEF made, one, r
  <2> QED BY <1>2, <2>1, ProducedIs
<1>4. IsSettled(paid, made, all, n, one, l, r, h)
  <2>1. paid = Settle(made, all, n, one, l, r, h)
    BY DEF TickPaid
  <2> HIDE DEF paid, made, one, r, all, n, l
  <2> QED BY <1>1, <1>2, <2>1, SettleIs
<1>5. made.rewards = d.rewards /\ \A a \in Account : made.blockId[a] \in {h, d.blockId[a]}
  BY <1>3 DEF IsProduced
<1>6. \A a \in Account : paid.blockId[a] \in {h, d.blockId[a]}
  BY <1>4, <1>5 DEF IsSettled
<1>7. /\ Total(made.rewards, Account) \in Int
      /\ Total(paid.rewards, Account) = Total(made.rewards, Account) + one * Rewards(all)
  <2> HIDE DEF paid, made, one, r, all, n, l
  <2> QED BY <1>1, <1>2, <1>4, SettledRewards
<1>8. Rewards(all) \in Nat /\ d.pool \in Nat
  BY <1>1, PayIs DEF Db
<1>9. CASE ~Settles(all, h)
  <2>1. t.db = made /\ made.pool = d.pool
    BY <1>3, <1>9, TickCases DEF IsProduced
  <2> QED BY <1>1, <1>5, <1>7, <1>8, <2>1
<1>10. CASE Settles(all, h) /\ d.pool < Rewards(all)
  <2>1. t.db = d
    BY <1>10, TickCases
  <2> QED BY <1>1, <1>5, <1>7, <1>8, <2>1
<1>11. CASE Settles(all, h) /\ d.pool >= Rewards(all)
  <2>1. /\ t.db.pool = d.pool - Rewards(all) /\ t.db.rewards = paid.rewards
        /\ t.db.blockId = paid.blockId
    BY <1>11, TickCases
  <2> QED BY <1>1, <1>5, <1>6, <1>7, <1>8, <2>1
<1> QED BY <1>8, <1>9, <1>10, <1>11

-----------------------------------------------------------------------------
(* The blocks applied again *)

Replays == [ok : BOOLEAN, db : Db, gathered : Seq(Entry), lists : [Rounds -> SUBSET Delegate]]

\* The chain the node has: the genesis block, and blocks up to the bound.
ChainOK ==
  /\ chain \in Seq(Block \cup {GenesisBlock}) /\ Top \in 1 .. MaxHeight
  /\ chain[1] = GenesisBlock /\ \A h \in 2 .. Top : chain[h] \in Block

\* The heights up to the bound have a round that has a place in mem_round.
LEMMA RoundsOf ==
  /\ \A h \in 1 .. MaxHeight + 1 : RoundOf(h) \in Rounds
  /\ \A r \in Rounds : r \in Nat \ {0}
<1> DEFINE last == MaxHeight + 1
           m == RoundOf(last)
<1>1. last \in Nat \ {0} /\ \A h \in 1 .. last : h \in Nat \ {0} /\ h <= last
  BY Constants
<1>2. m \in Nat \ {0} /\ Before(m) < last /\ last <= Before(m) + N
  BY <1>1, RoundFacts
<1>3. Rounds = 1 .. m
  BY DEF Rounds
<1>4. ASSUME NEW h \in 1 .. last PROVE RoundOf(h) \in 1 .. m
  <2> DEFINE k == RoundOf(h)
  <2>1. k \in Nat \ {0} /\ Before(k) < h /\ h <= last
    BY <1>1, RoundFacts
  <2>2. ~(m < k)
    <3>1. m < k => Before(m) + N <= Before(k)
      BY <1>2, <2>1, RoundFacts
    <3>2. Before(m) \in Nat /\ Before(k) \in Nat
      BY <1>2, <2>1, RoundFacts
    <3> QED BY <1>1, <1>2, <2>1, <3>1, <3>2, Constants
  <2> HIDE DEF k, m
  <2>3. k \in 1 .. m
    BY <1>2, <2>1, <2>2
  <2> QED BY <2>3 DEF k
<1> QED BY <1>2, <1>3, <1>4

\* The tick of a block of the chain that is applied again.
ReplayTick(s, h) == Tick(s.db, s.gathered, h, chain[h], List(s.db.vote))

\* A block of the chain is applied again, or fails.
LEMMA ReplayOneIs ==
  ASSUME ChainOK, NEW s \in Replays, NEW h \in 2 .. Top
  PROVE  LET x == ReplayOne(s, h)
             t == ReplayTick(s, h)
         IN  /\ x \in Replays
             /\ x.db \in {s.db, t.db}
             /\ x.ok => /\ s.ok /\ t.ok /\ Affordable(s.db, chain[h])
                        /\ x.db = t.db /\ x.gathered = t.gathered
                        /\ x.lists = [s.lists EXCEPT ![RoundOf(h)] = List(s.db.vote)]
<1> DEFINE d == s.db
           g == s.gathered
           b == chain[h]
           list == List(s.db.vote)
           t == ReplayTick(s, h)
           ls == [s.lists EXCEPT ![RoundOf(h)] = list]
           x == ReplayOne(s, h)
           p == Affordable(d, b)
<1>1. d \in Db /\ g \in Seq(Entry) /\ s.lists \in [Rounds -> SUBSET Delegate] /\ s.ok \in BOOLEAN
  BY DEF Replays
<1>2. h \in Nat \ {0} /\ RoundOf(h) \in Rounds /\ b \in Block \cup {GenesisBlock}
  <2>1. h \in Nat \ {0} /\ h \in 1 .. MaxHeight + 1
    BY Constants DEF ChainOK
  <2>2. RoundOf(h) \in Rounds
    BY <2>1, RoundsOf
  <2> QED BY <2>1, <2>2 DEF ChainOK
<1>3. list \in SUBSET Delegate
  BY DEF List
<1>4. t.ok \in BOOLEAN /\ t.db \in Db /\ t.gathered \in Seq(Entry)
  <2>1. t = Tick(d, g, h, b, list)
    BY DEF ReplayTick
  <2> HIDE DEF d, g, b, list, t
  <2> QED BY <1>1, <1>2, <1>3, <2>1, TickDraws
<1>5. ls \in [Rounds -> SUBSET Delegate]
  BY <1>1, <1>3
<1>6. x = IF ~s.ok \/ ~p THEN [s EXCEPT !.ok = FALSE]
          ELSE [ok |-> t.ok, db |-> t.db, gathered |-> t.gathered, lists |-> ls]
  BY DEF ReplayOne, ReplayTick
<1> HIDE DEF t, ls, x, p
<1>7. CASE ~s.ok \/ ~p
  <2>1. x = [s EXCEPT !.ok = FALSE]
    BY <1>6, <1>7
  <2>2. x \in Replays /\ ~x.ok /\ x.db = s.db
    BY <2>1 DEF Replays
  <2> QED BY <2>2 DEF x
<1>8. CASE s.ok /\ p
  <2>1. x = [ok |-> t.ok, db |-> t.db, gathered |-> t.gathered, lists |-> ls]
    BY <1>6, <1>8
  <2>2. x \in Replays
    BY <1>4, <1>5, <2>1 DEF Replays
  <2>3. x.ok = t.ok /\ x.db = t.db /\ x.gathered = t.gathered /\ x.lists = ls
    BY <2>1
  <2> QED BY <1>8, <2>2, <2>3 DEF x, t, ls, p
<1> QED BY <1>1, <1>7, <1>8

\* What holds at the start, and after each block if before it, holds at the end.
LEMMA ReplayFold ==
  ASSUME ChainOK, ReplayStart \in Replays, NEW J, ReplayStart \in J[1],
         \A h \in 2 .. Top : \A x \in Replays : x \in J[h - 1] => ReplayOne(x, h) \in J[h]
  PROVE  Replayed \in Replays /\ Replayed \in J[Top]
<1> DEFINE T == 2 .. Top
           s == ReplayStart
           l == [i \in 1 .. Top - 1 |-> i + 1]
           One(x, t) == ReplayOne(x, t)
           G == [p \in Replays \X T |-> One(p[1], p[2])]
           K == [i \in 0 .. Top - 1 |-> J[i + 1]]
           Body(it) == [P \in SUBSET (DOMAIN l) |->
                         IF P = {} THEN s ELSE One(it[P \ {Max(P)}], l[Max(P)])]
           it == CHOOSE it : it = Body(it)
<1>0. Top \in Nat \ {0}
  BY Constants DEF ChainOK
<1>1. \A x \in Replays, t \in T : One(x, t) \in Replays
  BY ReplayOneIs
<1>2. Replayed = it[DOMAIN l]
  BY DEF Replayed, FoldLeft, MapThenFoldSet
<1>3. l \in Seq(T) /\ Len(l) = Top - 1 /\ \A i \in 1 .. Len(l) : l[i] = i + 1
  <2>1. \A i \in 1 .. Top - 1 : i + 1 \in T
    BY <1>0
  <2> HIDE DEF T
  <2>2. Top - 1 \in Nat /\ l \in [1 .. Top - 1 -> T]
    BY <1>0, <2>1
  <2>3. l \in Seq(T) /\ Len(l) = Top - 1
    BY <2>2, FunctionIsList
  <2> QED BY <2>3
<1>4. \A i \in 1 .. Len(l) : \A x \in Replays : x \in K[i - 1] => One(x, l[i]) \in K[i]
  <2> SUFFICES ASSUME NEW i \in 1 .. Len(l), NEW x \in Replays, x \in K[i - 1]
               PROVE  One(x, l[i]) \in K[i]
    OBVIOUS
  <2>1. i \in 1 .. Top - 1 /\ i + 1 \in 2 .. Top /\ l[i] = i + 1
    BY <1>0, <1>3
  <2>2. K[i] = J[i + 1] /\ K[i - 1] = J[(i + 1) - 1]
    BY <1>0, <2>1
  <2> HIDE DEF K, l, One
  <2>3. ReplayOne(x, i + 1) \in J[i + 1]
    BY <2>1, <2>2
  <2> QED BY <2>1, <2>2, <2>3 DEF One
<1>5. s \in K[0] /\ K[Len(l)] = J[Top]
  BY <1>0, <1>3
<1> HIDE DEF One, l, K, T, s
<1>6. G \in [Replays \X T -> Replays] /\ \A x \in Replays, t \in T : G[<<x, t>>] = One(x, t)
  BY <1>1
<1> HIDE DEF G
<1>7. s \in Replays
  BY DEF s
<1>8. PICK jt : IsFold(jt, s, G, l, Replays, T)
  BY <1>3, <1>6, <1>7, FoldExists
<1>9. jt = Body(jt)
  BY <1>6, <1>8 DEF IsFold
<1>10. it = Body(it)
  BY <1>9
<1> HIDE DEF it
<1>11. Follows(it, s, G, l, Replays)
  <2>1. ASSUME NEW P \in SUBSET (DOMAIN l), P # {}, it[P \ {Max(P)}] \in Replays
        PROVE  it[P] = G[<<it[P \ {Max(P)}], l[Max(P)]>>]
    <3>1. l[Max(P)] \in T
      BY <1>8, <2>1 DEF IsFold
    <3>2. it[P] = One(it[P \ {Max(P)}], l[Max(P)])
      BY <1>10, <2>1
    <3> QED BY <1>6, <2>1, <3>1, <3>2
  <2>2. it[{}] = s
    BY <1>10
  <2> QED BY <2>1, <2>2 DEF Follows
<1>12. Keeps(G, l, Replays, K)
  BY <1>3, <1>4, <1>6 DEF Keeps
<1>13. it[DOMAIN l] \in Replays /\ it[DOMAIN l] \in K[Len(l)]
  BY <1>3, <1>5, <1>6, <1>7, <1>11, <1>12, FoldWithin
<1> QED BY <1>2, <1>5, <1>13

-----------------------------------------------------------------------------
(* What is drawn from the pool, and what an interruption leaves *)

\* No account was last touched by a deleted block, and the rewards in the accounts are
\* what was drawn from a pool that had p.
Fresh(d, p) ==
  /\ d \in Db /\ d.pool <= p
  /\ Total(d.rewards, Account) + d.pool = p
  /\ \A a \in Account : d.blockId[a] # NoBlock

\* The tables without any round.
IsNew(n, p) ==
  /\ n \in Db /\ n.pool = p /\ n.balance = Funds /\ n.delegates = InitialDelegates
  /\ \A a \in Account : n.fees[a] = 0 /\ n.rewards[a] = 0 /\ n.produced[a] = 0 /\ n.blockId[a] = 1
  /\ \A e \in Delegate : n.missed[e] = 0 /\ n.vote[e] = 0
  /\ \A r \in Rounds : \A e \in Delegate :
       n.memRound[r][e] = IF r = 1 THEN Held(n, e) ELSE 0

\* What the voters of the genesis block have, as mem_round has it.
NewRows == [r \in Rounds |-> [d \in Delegate |->
              IF r = 1 THEN Total(Funds, Voters(InitialDelegates, d)) ELSE 0]]

\* The votes of the genesis block are recorded for the first round.
LEMMA NewRowsAre ==
  /\ NewRows \in MemRounds
  /\ \A r \in Rounds : \A e \in Delegate :
       NewRows[r][e] = IF r = 1 THEN Total(Funds, Voters(InitialDelegates, e)) ELSE 0
<1> DEFINE F == [e \in Delegate |-> Total(Funds, Voters(InitialDelegates, e))]
<1>1. \A e \in Delegate : Total(Funds, Voters(InitialDelegates, e)) \in Int
  <2> TAKE e \in Delegate
  <2> DEFINE A == Account
             V == Voters(InitialDelegates, e)
  <2>1. IsFiniteSet(A) /\ Funds \in [A -> Int] /\ V \in SUBSET A
    BY Constants DEF Voters
  <2> HIDE DEF A, V
  <2>2. Total(Funds, V) \in Int
    BY <2>1, TotalMore
  <2> QED BY <2>2 DEF V
<1>2. NewRows = [r \in Rounds |-> [d \in Delegate |-> IF r = 1 THEN F[d] ELSE 0]]
  BY DEF NewRows
<1>3. \A e \in Delegate : F[e] \in Int /\ F[e] = Total(Funds, Voters(InitialDelegates, e))
  BY <1>1
<1> HIDE DEF F
<1> QED BY <1>2, <1>3 DEF MemRounds

\* NewDb has the tables without any round.
LEMMA NewDbIs ==
  ASSUME NEW p \in Nat, NEW n, n = [NewDb EXCEPT !.pool = p]
  PROVE  IsNew(n, p) /\ NewDb \in Db /\ NewDb.pool = RewardPool
<1> DEFINE z == [a \in Account |-> 0]
           y == [e \in Delegate |-> 0]
           m == NewRows
           o == [a \in Account |-> 1]
           q == InitialDelegates
           k == NewDb
<1>1. /\ z \in [Account -> Int] /\ y \in [Delegate -> Int] /\ o \in [Account -> Int]
      /\ q \in SUBSET Vote /\ Funds \in [Account -> Int]
      /\ \A a \in Account : o[a] = 1 /\ z[a] = 0
      /\ \A e \in Delegate : y[e] = 0
  BY Constants
<1>2. m \in MemRounds /\ \A r \in Rounds : \A e \in Delegate :
        m[r][e] = IF r = 1 THEN Total(Funds, Voters(q, e)) ELSE 0
  BY NewRowsAre
<1>3. k = [balance |-> Funds, fees |-> z, rewards |-> z, produced |-> z, missed |-> y,
           vote |-> y, delegates |-> q, memRound |-> m, blockId |-> o,
           pool |-> RewardPool]
  BY DEF NewDb, NewRows
<1>4. n = [k EXCEPT !.pool = p] /\ q = InitialDelegates
  OBVIOUS
<1> HIDE DEF z, y, m, o, q, k
<1>5. /\ k \in Db /\ k.rewards = z /\ k.fees = z /\ k.produced = z /\ k.blockId = o
      /\ k.balance = Funds /\ k.vote = y /\ k.delegates = q /\ k.missed = y
      /\ k.memRound = m /\ k.pool = RewardPool
  BY <1>1, <1>2, <1>3, Constants DEF Db, MemRounds
<1>6. /\ n \in Db /\ n.pool = p /\ n.rewards = z /\ n.fees = z /\ n.produced = z /\ n.blockId = o
      /\ n.balance = Funds /\ n.vote = y /\ n.delegates = q /\ n.missed = y
      /\ n.memRound = m
  BY <1>4, <1>5 DEF Db
<1>7. \A e \in Delegate : Held(n, e) = Total(Funds, Voters(q, e))
  BY <1>6 DEF Held
<1> QED BY <1>1, <1>2, <1>4, <1>5, <1>6, <1>7 DEF IsNew, k

\* NewDb has the whole pool.
LEMMA NewDbSame == NewDb = [NewDb EXCEPT !.pool = RewardPool]
<1> DEFINE y == [e \in Delegate |-> 0]
           z == [a \in Account |-> 0]
           m == NewRows
           o == [a \in Account |-> 1]
<1>1. NewDb = [balance |-> Funds, fees |-> z, rewards |-> z, produced |-> z, missed |-> y,
               vote |-> y, delegates |-> InitialDelegates, memRound |-> m, blockId |-> o,
               pool |-> RewardPool]
  BY DEF NewDb, NewRows
<1> HIDE DEF y, z, m, o
<1> QED BY <1>1

\* The tables after the genesis block.
LEMMA StartedIs ==
  ASSUME NEW p \in Nat
  PROVE  LET s == Started([NewDb EXCEPT !.pool = p])
         IN  /\ s.ok \in BOOLEAN /\ s.db \in Db /\ s.gathered \in Seq(Entry)
             /\ Fresh(s.db, p)
<1> DEFINE n == [NewDb EXCEPT !.pool = p]
           z == [a \in Account |-> 0]
           b == GenesisBlock
           g == << >>
           l == {}
           s == Started(n)
<1>1. n \in Db /\ n.pool = p /\ n.rewards = z /\ \A a \in Account : n.blockId[a] = 1
  <2>1. n = [NewDb EXCEPT !.pool = p]
    OBVIOUS
  <2> HIDE DEF n
  <2>2. IsNew(n, p)
    BY <2>1, NewDbIs
  <2>3. n.rewards \in [Account -> Int] /\ \A a \in Account : n.rewards[a] = 0
    BY <2>2 DEF IsNew, Db
  <2>4. n.rewards = z
    BY <2>3
  <2> QED BY <2>2, <2>4 DEF IsNew
<1>2. Total(z, Account) = 0
  <2>1. z \in [Account -> Int] /\ (\A a \in Account : z[a] = 0) /\ Account \in SUBSET Account
    OBVIOUS
  <2>2. Cardinality(Account) \in Nat /\ IsFiniteSet(Account)
    BY Constants, FS_CardinalityType
  <2> HIDE DEF z
  <2>3. Total(z, Account) = Cardinality(Account) * 0
    BY <2>1, <2>2, TotalConst
  <2> QED BY <2>2, <2>3
<1>3. 1 \in Nat \ {0} /\ RoundOf(1) \in Rounds /\ g \in Seq(Entry) /\ l \in SUBSET Delegate
      /\ b \in Block \cup {GenesisBlock}
  <2>1. 1 \in 1 .. MaxHeight + 1
    BY Constants
  <2> QED BY <2>1, RoundsOf
<1> DEFINE one == 1
<1>4. s = Tick(n, g, one, b, l)
  BY DEF Started
<1> HIDE DEF n, s, g, b, l, one
<1>5. one \in Nat \ {0} /\ RoundOf(one) \in Rounds
  BY <1>3 DEF one
<1>6. /\ s.ok \in BOOLEAN /\ s.db \in Db /\ s.gathered \in Seq(Entry)
      /\ Total(s.db.rewards, Account) + s.db.pool = Total(n.rewards, Account) + n.pool
      /\ s.db.pool <= n.pool
      /\ \A a \in Account : s.db.blockId[a] \in {one, n.blockId[a]}
  BY <1>1, <1>3, <1>4, <1>5, TickDraws
<1>7. \A a \in Account : s.db.blockId[a] # NoBlock
  BY <1>1, <1>6 DEF NoBlock, one
<1> QED BY <1>1, <1>2, <1>6, <1>7 DEF Fresh, s, n

\* tick keeps the tables so.
LEMMA TickFresh ==
  ASSUME NEW p \in Nat, NEW d, Fresh(d, p), NEW g \in Seq(Entry),
         NEW h \in Nat \ {0}, RoundOf(h) \in Rounds,
         NEW b \in Block \cup {GenesisBlock}, NEW list \in SUBSET Delegate,
         NEW t, t = Tick(d, g, h, b, list)
  PROVE  Fresh(t.db, p)
<1>1. d \in Db /\ d.pool <= p /\ Total(d.rewards, Account) + d.pool = p
      /\ \A a \in Account : d.blockId[a] # NoBlock
  BY DEF Fresh
<1>2. /\ t.db \in Db
      /\ Total(t.db.rewards, Account) + t.db.pool = Total(d.rewards, Account) + d.pool
      /\ t.db.pool <= d.pool
      /\ \A a \in Account : t.db.blockId[a] \in {h, d.blockId[a]}
  BY <1>1, TickDraws
<1>3. \A a \in Account : t.db.blockId[a] # NoBlock
  BY <1>1, <1>2 DEF NoBlock
<1>4. t.db.pool \in Int /\ d.pool \in Int
  BY <1>1, <1>2 DEF Db
<1> QED BY <1>1, <1>2, <1>3, <1>4 DEF Fresh

\* What is replayed starts from what is left in the pool.
LEMMA ReplayedIs ==
  ASSUME ChainOK, db \in Db
  PROVE  Replayed \in Replays /\ Fresh(Replayed.db, db.pool)
<1> DEFINE p == db.pool
           J == [h \in 1 .. Top |-> {s \in Replays : Fresh(s.db, p)}]
           n == [NewDb EXCEPT !.pool = p]
           s == ReplayStart
<1>1. p \in Nat
  BY DEF Db
<1>2. s \in Replays /\ Fresh(s.db, p)
  <2> DEFINE g == Started(n)
             ls == [r \in Rounds |-> {}]
  <2>1. g.ok \in BOOLEAN /\ g.db \in Db /\ g.gathered \in Seq(Entry) /\ Fresh(g.db, p)
    BY <1>1, StartedIs
  <2>2. s = [ok |-> TRUE, db |-> g.db, gathered |-> g.gathered, lists |-> ls]
    BY DEF ReplayStart
  <2>3. ls \in [Rounds -> SUBSET Delegate]
    OBVIOUS
  <2> HIDE DEF g, ls, s
  <2> QED BY <2>1, <2>2, <2>3 DEF Replays
<1>3. Top \in Nat \ {0}
  BY Constants DEF ChainOK
<1>4. ASSUME NEW h \in 2 .. Top, NEW x \in Replays, x \in J[h - 1]
      PROVE  ReplayOne(x, h) \in J[h]
  <2> DEFINE y == ReplayOne(x, h)
             d == x.db
             g == x.gathered
             b == chain[h]
             list == List(d.vote)
             t == ReplayTick(x, h)
  <2>1. Fresh(d, p) /\ d \in Db /\ g \in Seq(Entry) /\ x.ok \in BOOLEAN
    BY <1>3, <1>4 DEF Replays
  <2>2. h \in Nat \ {0} /\ RoundOf(h) \in Rounds /\ b \in Block \cup {GenesisBlock}
        /\ list \in SUBSET Delegate
    <3>1. h \in Nat \ {0} /\ h \in 1 .. MaxHeight + 1
      BY Constants DEF ChainOK
    <3>2. RoundOf(h) \in Rounds
      BY <3>1, RoundsOf
    <3> QED BY <3>1, <3>2 DEF ChainOK, List
  <2>3. Fresh(t.db, p)
    <3>1. t = Tick(d, g, h, b, list)
      BY DEF ReplayTick
    <3> HIDE DEF d, g, b, list, p, t
    <3> QED BY <1>1, <2>1, <2>2, <3>1, TickFresh
  <2>4. y \in Replays /\ y.db \in {d, t.db}
    BY ReplayOneIs
  <2> HIDE DEF y, t, p
  <2>5. Fresh(y.db, p)
    BY <2>1, <2>3, <2>4
  <2>6. h \in 1 .. Top
    BY <1>3
  <2> QED BY <2>4, <2>5, <2>6 DEF y
<1>5. s \in J[1]
  BY <1>2, <1>3
<1> HIDE DEF J
<1>6. Replayed \in Replays /\ Replayed \in J[Top]
  BY <1>2, <1>4, <1>5, ReplayFold
<1> QED BY <1>3, <1>6 DEF J

-----------------------------------------------------------------------------
(* The shape of the state *)

\* Where the chain and a synchronisation are.
Shape ==
  /\ ChainOK
  /\ phase = "idle" => target = 0 /\ oldTop = 0 /\ ungathered = Empty
  /\ phase = "popping" =>
       /\ target \in 1 .. Top /\ Top <= oldTop /\ oldTop <= MaxHeight /\ target < oldTop
       /\ rollbacks # 0 /\ gathered = Empty

\* What is in the accounts has left the pool, and nothing else if nothing was popped.
Drawn ==
  /\ db.pool <= RewardPool
  /\ Total(db.rewards, Account) + db.pool <= RewardPool
  /\ rollbacks = 0 => Fresh(db, RewardPool)

Base == TypeOK /\ Shape /\ Drawn /\ InterruptionIsSeen

\* The types of TypeOK, one by one.
LEMMA Types ==
  ASSUME TypeOK
  PROVE  /\ db \in Db /\ chain \in Seq(Block \cup {GenesisBlock}) /\ chain # << >>
         /\ gathered \in [Rounds -> Seq(Entry)] /\ ungathered \in [Rounds -> Seq(Entry)]
         /\ cache \in [height : Nat, list : SUBSET Delegate]
         /\ phase \in {"idle", "popping"} /\ target \in Nat /\ oldTop \in Nat
         /\ rollbacks \in Nat /\ restarts \in Nat
         /\ lists \in [Rounds -> SUBSET Delegate]
         /\ lost \in BOOLEAN /\ unpaid \in BOOLEAN /\ votesOff \in BOOLEAN /\ relisted \in BOOLEAN
BY DEF TypeOK

\* The accumulators without any round.
LEMMA EmptyIs == Empty \in [Rounds -> Seq(Entry)] /\ \A r \in Rounds : Empty[r] = << >>
<1> DEFINE e == << >>
<1>1. e \in Seq(Entry)
  OBVIOUS
<1>2. Empty = [r \in Rounds |-> e]
  BY DEF Empty
<1> HIDE DEF e
<1>3. Empty \in [Rounds -> Seq(Entry)] /\ \A r \in Rounds : Empty[r] = e
  BY <1>1, <1>2
<1> QED BY <1>3 DEF e

\* The lists of delegates there can be.
LEMMA ListForIs ==
  ASSUME TypeOK
  PROVE  \A h : ListFor(h) \in SUBSET Delegate
BY Types DEF ListFor, List

\* What is gathered when the node starts.
LEMMA GatheredFromIs ==
  ASSUME ChainOK
  PROVE  /\ GatheredFrom(chain) \in [Rounds -> Seq(Entry)]
         /\ \A q \in Rounds : q # RoundOf(Top) => GatheredFrom(chain)[q] = << >>
         /\ LET g == GatheredFrom(chain)[RoundOf(Top)]
                f == Before(RoundOf(Top))
            IN  /\ Len(g) = Top - f
                /\ \A i \in 1 .. Top - f : g[i] = Gathered(f + i, chain[f + i])
<1> DEFINE r == RoundOf(Top)
           f == (r - 1) * N
           n == Top - f
           l == [i \in 1 .. n |-> Gathered(f + i, chain[f + i])]
<1>1. Top \in Nat \ {0} /\ Top \in 1 .. MaxHeight + 1
  BY Constants DEF ChainOK
<1>2. r \in Rounds
  BY <1>1, RoundsOf
<1>3. f = Before(r) /\ f \in Nat /\ n \in Nat
  <2>1. Before(r) \in Nat /\ Before(r) < Top
    BY <1>1, RoundFacts
  <2>2. f = Before(r)
    BY DEF Before
  <2> HIDE DEF f
  <2> QED BY <1>1, <2>1, <2>2
<1>4. l \in [1 .. n -> Entry]
  <2> SUFFICES ASSUME NEW i \in 1 .. n PROVE Gathered(f + i, chain[f + i]) \in Entry
    OBVIOUS
  <2> HIDE DEF f
  <2>1. f + i \in 1 .. Top /\ f + i \in Nat
    BY <1>1, <1>3
  <2>2. chain[f + i] \in Block \cup {GenesisBlock}
    BY <2>1 DEF ChainOK
  <2> QED BY <2>1, <2>2, GatheredIs
<1>5. GatheredFrom(chain) = [Empty EXCEPT ![r] = l]
  BY DEF GatheredFrom, Top
<1> HIDE DEF f, n, r
<1>6. \A i \in 1 .. n : l[i] = Gathered(f + i, chain[f + i])
  OBVIOUS
<1> HIDE DEF l
<1>7. l \in Seq(Entry) /\ Len(l) = n
  BY <1>3, <1>4, FunctionIsList
<1>8. /\ GatheredFrom(chain) \in [Rounds -> Seq(Entry)] /\ GatheredFrom(chain)[r] = l
      /\ \A q \in Rounds : q # r => GatheredFrom(chain)[q] = << >>
  BY <1>2, <1>5, <1>7, EmptyIs
<1> QED BY <1>3, <1>6, <1>7, <1>8 DEF r, n

\* The tables without the votes of one round.
LEMMA FlushIs ==
  ASSUME NEW d \in Db, NEW r \in Rounds, NEW t, t = [d EXCEPT !.memRound = Flushed(d.memRound, r)]
  PROVE  /\ t \in Db
         /\ t.balance = d.balance /\ t.fees = d.fees /\ t.rewards = d.rewards
         /\ t.produced = d.produced /\ t.missed = d.missed /\ t.vote = d.vote
         /\ t.delegates = d.delegates /\ t.blockId = d.blockId /\ t.pool = d.pool
         /\ \A q \in Rounds : \A e \in Delegate :
              t.memRound[q][e] = IF q = r THEN 0 ELSE d.memRound[q][e]
<1> DEFINE m == d.memRound
           k == Flushed(m, r)
<1>1. m \in MemRounds
  BY DEF Db, MemRounds
<1>2. t = [d EXCEPT !.memRound = k]
  OBVIOUS
<1> HIDE DEF m, k
<1>3. k = Flushed(m, r)
  BY DEF k
<1>4. k \in MemRounds /\ \A q \in Rounds : \A e \in Delegate : k[q][e] = IF q = r THEN 0 ELSE m[q][e]
  BY <1>1, <1>3, FlushedIs
<1>5. /\ t \in Db /\ t.memRound = k
      /\ t.balance = d.balance /\ t.fees = d.fees /\ t.rewards = d.rewards
      /\ t.produced = d.produced /\ t.missed = d.missed /\ t.vote = d.vote
      /\ t.delegates = d.delegates /\ t.blockId = d.blockId /\ t.pool = d.pool
  BY <1>2, <1>4 DEF Db, MemRounds
<1> QED BY <1>4, <1>5 DEF m

\* The parts of popLastBlock and backwardTick.
PopUn == Append(ungathered[RoundOf(Top)], Gathered(Top, chain[Top]))
PopUndone == Produced(db, chain[Top], RoundOf(Top), -1, Top)
PopSettles ==
  \/ Top = 2
  \/ RoundOf(Top - 1) # RoundOf(Top) /\ Len(PopUn) = N
PopBack ==
  IF PopSettles THEN Settle(PopUndone, PopUn, 1, -1, ListFor(Top), RoundOf(Top), Top)
  ELSE PopUndone

\* A popped block is taken out of the tables and of the chain.
LEMMA PopIs ==
  ASSUME TypeOK, Shape, PopBlock
  PROVE  /\ phase = "popping" /\ Top \in 2 .. MaxHeight /\ target < Top
         /\ RoundOf(Top) \in Rounds /\ chain[Top] \in Block
         /\ PopUn \in Seq(Entry) /\ Len(PopUn) = Len(ungathered[RoundOf(Top)]) + 1
         /\ PopUndone \in Db /\ PopBack \in Db /\ db' \in Db
         /\ IsProduced(PopUndone, db, chain[Top], RoundOf(Top), -1, Top)
         /\ PopSettles => IsSettled(PopBack, PopUndone, PopUn, 1, -1, ListFor(Top), RoundOf(Top), Top)
         /\ ~PopSettles => PopBack = PopUndone
         /\ db'.balance = PopBack.balance /\ db'.fees = PopBack.fees
         /\ db'.rewards = PopBack.rewards /\ db'.produced = PopBack.produced
         /\ db'.missed = PopBack.missed /\ db'.vote = PopBack.vote
         /\ db'.delegates = PopBack.delegates /\ db'.memRound = PopBack.memRound
         /\ db'.pool = PopBack.pool
         /\ chain' \in Seq(Block \cup {GenesisBlock}) /\ Top' = Top - 1
         /\ \A h \in 1 .. Top - 1 : chain'[h] = chain[h]
         /\ ungathered' = [ungathered EXCEPT ![RoundOf(Top)] = IF PopSettles THEN << >> ELSE PopUn]
         /\ cache' = (IF PopSettles THEN [height |-> Top, list |-> ListFor(Top)] ELSE cache)
         /\ \E a \in Account : db'.blockId[a] = NoBlock
<1> DEFINE r == RoundOf(Top)
           b == chain[Top]
           e == Gathered(Top, b)
           u == ungathered[r]
           un == PopUn
           undone == PopUndone
           back == PopBack
           l == ListFor(Top)
           minus == -1
           one == 1
           h == Top
           id == NoBlock
           S == {a \in Account : back.blockId[a] = Top}
<1>1. phase = "popping" /\ Top > target /\ target \in 1 .. Top
  BY DEF PopBlock, Shape
<1>2. Top \in 2 .. MaxHeight /\ chain \in Seq(Block \cup {GenesisBlock})
  BY <1>1, Constants DEF Shape, ChainOK
<1>3. b \in Block /\ b \in Block \cup {GenesisBlock}
  BY <1>2 DEF Shape, ChainOK
<1>4. r \in Rounds
  BY <1>2, RoundsOf, Constants
<1>5. u \in Seq(Entry) /\ e \in Entry
  BY <1>2, <1>3, <1>4, Types, GatheredIs
<1>6. un \in Seq(Entry) /\ Len(un) = Len(u) + 1
  <2>1. un = Append(u, e)
    BY DEF PopUn
  <2> HIDE DEF un, u, e
  <2>2. Append(u, e) \in Seq(Entry) /\ Len(Append(u, e)) = Len(u) + 1
    BY <1>5
  <2> QED BY <2>1, <2>2
<1>7. db \in Db /\ minus \in Int /\ h \in Int /\ minus \in Signs /\ id \in Int
      /\ l \in SUBSET Delegate
  BY <1>2, Types, ListForIs, Constants DEF Signs, NoBlock
<1>8. undone \in Db /\ IsProduced(undone, db, b, r, minus, h)
  <2>1. undone = Produced(db, b, r, minus, h)
    BY DEF PopUndone
  <2> HIDE DEF undone, b, r, minus, h
  <2> QED BY <1>3, <1>4, <1>7, <2>1, ProducedIs
<1>9. /\ back \in Db
      /\ ~PopSettles => back = undone
      /\ PopSettles => IsSettled(back, undone, un, one, minus, l, r, h)
  <2>1. CASE PopSettles
    <3>1. back = Settle(undone, un, one, minus, l, r, h)
      BY <2>1 DEF PopBack
    <3> HIDE DEF back, undone, un, one, minus, l, r, h
    <3>2. back \in Db /\ IsSettled(back, undone, un, one, minus, l, r, h)
      BY <1>4, <1>6, <1>7, <1>8, <3>1, SettleIs
    <3> QED BY <2>1, <3>2
  <2>2. CASE ~PopSettles
    BY <1>8, <2>2 DEF PopBack
  <2> QED BY <2>1, <2>2
<1>10. /\ db' = Touch(back, S, id)
       /\ chain' = SubSeq(chain, 1, Top - 1)
       /\ ungathered' = [ungathered EXCEPT ![r] = IF PopSettles THEN << >> ELSE un]
       /\ cache' = IF PopSettles THEN [height |-> Top, list |-> l] ELSE cache
  BY DEF PopBlock, PopUn, PopUndone, PopSettles, PopBack
<1>11. /\ db' \in Db
       /\ db'.balance = back.balance /\ db'.fees = back.fees /\ db'.rewards = back.rewards
       /\ db'.produced = back.produced /\ db'.missed = back.missed /\ db'.vote = back.vote
       /\ db'.delegates = back.delegates /\ db'.memRound = back.memRound /\ db'.pool = back.pool
       /\ \A a \in Account : db'.blockId[a] = IF a \in S THEN id ELSE back.blockId[a]
  <2> DEFINE d == PopBack
             t == db'
  <2>1. d \in Db /\ t = Touch(d, S, id)
    BY <1>9, <1>10
  <2> HIDE DEF d, t, S, id
  <2>2. t \in Db /\ IsTouched(t, d, S, id)
    BY <1>7, <2>1, TouchIs
  <2> QED BY <2>2 DEF IsTouched, d, t
<1>12. b.generator \in Account /\ back.blockId[b.generator] = Top
  <2>1. b.generator \in Account
    BY <1>3, Blocks
  <2>2. undone.blockId[b.generator] = Top
    <3>1. b.generator \in Concerned(b)
      BY DEF Concerned
    <3> HIDE DEF undone, b
    <3> QED BY <1>8, <2>1, <3>1 DEF IsProduced, h
  <2>3. PopSettles => back.blockId[b.generator] \in {Top, undone.blockId[b.generator]}
    BY <1>9, <2>1 DEF IsSettled
  <2> QED BY <1>9, <2>1, <2>2, <2>3
<1>13. \E a \in Account : db'.blockId[a] = NoBlock
  BY <1>11, <1>12
<1>14. /\ chain' \in Seq(Block \cup {GenesisBlock}) /\ Top' = Top - 1
       /\ \A i \in 1 .. Top - 1 : chain'[i] = chain[i]
  <2> DEFINE T == Block \cup {GenesisBlock}
             k == Top - 1
  <2>1. k \in 0 .. Len(chain) /\ chain \in Seq(T)
    BY <1>2 DEF Top
  <2> HIDE DEF k, T
  <2>2. chain' = SubSeq(chain, 1, k)
    BY <1>10 DEF k
  <2>3. SubSeq(chain, 1, k) \in Seq(T) /\ Len(SubSeq(chain, 1, k)) = k
        /\ \A i \in 1 .. k : SubSeq(chain, 1, k)[i] = chain[i]
    BY <2>1, PrefixIs
  <2> QED BY <2>2, <2>3 DEF k, T, Top
<1> HIDE DEF S
<1> QED BY <1>1, <1>2, <1>3, <1>4, <1>6, <1>8, <1>9, <1>10, <1>11, <1>13, <1>14

-----------------------------------------------------------------------------
(* What holds at the start and is kept by every step: Base *)

\* A block is applied to the chain, or refused.
LEMMA ApplyIs ==
  ASSUME TypeOK, Shape, NEW b \in Block, ApplyBlock(b)
  PROVE  LET h == Top + 1
             r == RoundOf(h)
             t == Tick(db, gathered[r], h, b, ListFor(h))
         IN  /\ phase = "idle" /\ h \in 2 .. MaxHeight /\ r \in Rounds
             /\ gathered[r] \in Seq(Entry) /\ ListFor(h) \in SUBSET Delegate
             /\ t.ok \in BOOLEAN /\ t.db \in Db /\ t.gathered \in Seq(Entry)
             /\ db' = t.db /\ gathered' = [gathered EXCEPT ![r] = t.gathered]
             /\ chain' \in Seq(Block \cup {GenesisBlock})
             /\ t.ok => /\ Top' = h /\ chain'[h] = b
                        /\ \A i \in 1 .. Top : chain'[i] = chain[i]
             /\ ~t.ok => chain' = chain
<1> DEFINE h == Top + 1
           r == RoundOf(h)
           g == gathered[r]
           l == ListFor(h)
           t == Tick(db, g, h, b, l)
<1>1. phase = "idle" /\ h <= MaxHeight
  BY DEF ApplyBlock
<1>2. Top \in Nat \ {0} /\ h \in 2 .. MaxHeight /\ h \in Nat \ {0} /\ h \in 1 .. MaxHeight + 1
  BY <1>1, Constants DEF Shape, ChainOK
<1>3. r \in Rounds
  BY <1>2, RoundsOf
<1>4. g \in Seq(Entry) /\ l \in SUBSET Delegate /\ db \in Db /\ b \in Block \cup {GenesisBlock}
      /\ chain \in Seq(Block \cup {GenesisBlock})
  BY <1>3, Types, ListForIs
<1>5. t.ok \in BOOLEAN /\ t.db \in Db /\ t.gathered \in Seq(Entry)
  <2> HIDE DEF g, l, h
  <2> QED BY <1>2, <1>3, <1>4, TickDraws
<1>6. db' = t.db /\ gathered' = [gathered EXCEPT ![r] = t.gathered]
      /\ chain' = IF t.ok THEN Append(chain, b) ELSE chain
  BY DEF ApplyBlock
<1>7. t.ok => /\ chain' \in Seq(Block \cup {GenesisBlock}) /\ Top' = h /\ chain'[h] = b
              /\ \A i \in 1 .. Top : chain'[i] = chain[i]
  <2> DEFINE T == Block \cup {GenesisBlock}
  <2> HIDE DEF T
  <2>1. chain \in Seq(T) /\ b \in T
    BY <1>4 DEF T
  <2>2. /\ Append(chain, b) \in Seq(T) /\ Len(Append(chain, b)) = Len(chain) + 1
        /\ \A i \in 1 .. Len(chain) : Append(chain, b)[i] = chain[i]
        /\ Append(chain, b)[Len(chain) + 1] = b
    BY <2>1, AppendIs
  <2>3. t.ok => chain' = Append(chain, b)
    BY <1>6
  <2> QED BY <2>2, <2>3 DEF T, Top
<1>8. ~t.ok => chain' = chain
  BY <1>6
<1> HIDE DEF t
<1> QED BY <1>1, <1>2, <1>3, <1>4, <1>5, <1>6, <1>7, <1>8 DEF t

\* Base holds when the genesis block is applied.
LEMMA BaseInit == Init => Base
<1> SUFFICES ASSUME Init PROVE Base
  OBVIOUS
<1> DEFINE p == RewardPool
           n == [NewDb EXCEPT !.pool = p]
           s == Started(n)
<1>1. NewDb = n
  BY NewDbSame
<1>2. Fresh(db, p) /\ db \in Db
  <2>1. s.db \in Db /\ Fresh(s.db, p)
    BY Constants, StartedIs
  <2>2. db = s.db
    BY <1>1 DEF Init
  <2> HIDE DEF s, p
  <2> QED BY <2>1, <2>2
<1>3. ChainOK /\ Top = 1
  <2>1. chain = <<GenesisBlock>>
    BY DEF Init
  <2>2. Len(chain) = 1 /\ chain[1] = GenesisBlock /\ chain \in Seq(Block \cup {GenesisBlock})
    BY <2>1
  <2> QED BY <2>2, Constants DEF ChainOK, Top
<1>4. gathered \in [Rounds -> Seq(Entry)] /\ ungathered \in [Rounds -> Seq(Entry)]
  BY <1>3, GatheredFromIs, EmptyIs DEF Init
<1>5. lists \in [Rounds -> SUBSET Delegate]
  BY DEF Init
<1>6. cache \in [height : Nat, list : SUBSET Delegate]
  <2>1. cache = [height |-> 0, list |-> {}]
    BY DEF Init, NoList
  <2> QED BY <2>1
<1>7. TypeOK
  <2>1. chain \in Seq(Block \cup {GenesisBlock}) /\ chain # << >>
    BY <1>3 DEF ChainOK, Top
  <2>2. phase = "idle" /\ target = 0 /\ oldTop = 0 /\ rollbacks = 0 /\ restarts = 0
        /\ lost = FALSE /\ unpaid = FALSE /\ votesOff = FALSE /\ relisted = FALSE
    BY DEF Init
  <2>3. {target, oldTop, rollbacks, restarts} \subseteq Nat
    BY <2>2
  <2>4. {lost, unpaid, votesOff, relisted} \subseteq BOOLEAN
    <3>1. lost \in BOOLEAN /\ unpaid \in BOOLEAN /\ votesOff \in BOOLEAN /\ relisted \in BOOLEAN
      BY <2>2
    <3> QED BY <3>1
  <2> QED BY <1>2, <1>4, <1>5, <1>6, <2>1, <2>2, <2>3, <2>4 DEF TypeOK
<1>8. Shape
  BY <1>3 DEF Init, Shape
<1>9. Drawn
  BY <1>2, Constants DEF Drawn, Fresh
<1>10. InterruptionIsSeen
  BY DEF Init, InterruptionIsSeen
<1> QED BY <1>7, <1>8, <1>9, <1>10 DEF Base

\* TypeOK, from the types of the variables.
LEMMA TypesAgain ==
  ASSUME db' \in Db, chain' \in Seq(Block \cup {GenesisBlock}), chain' # << >>,
         gathered' \in [Rounds -> Seq(Entry)], ungathered' \in [Rounds -> Seq(Entry)],
         cache' \in [height : Nat, list : SUBSET Delegate],
         phase' \in {"idle", "popping"}, target' \in Nat, oldTop' \in Nat,
         rollbacks' \in Nat, restarts' \in Nat, lists' \in [Rounds -> SUBSET Delegate],
         lost' \in BOOLEAN, unpaid' \in BOOLEAN, votesOff' \in BOOLEAN, relisted' \in BOOLEAN
  PROVE  TypeOK'
<1>1. {target', oldTop', rollbacks', restarts'} \subseteq Nat
      /\ {lost', unpaid', votesOff', relisted'} \subseteq BOOLEAN
      /\ {gathered', ungathered'} \subseteq [Rounds -> Seq(Entry)]
  OBVIOUS
<1> QED BY <1>1 DEF TypeOK

\* A block that is applied or refused keeps Base: what is paid is drawn.
LEMMA BaseApply ==
  ASSUME Base, NEW b \in Block, ApplyBlock(b)
  PROVE  Base'
<1> DEFINE h == Top + 1
           r == RoundOf(h)
           g == gathered[r]
           l == ListFor(h)
           t == Tick(db, g, h, b, l)
<1>0. TypeOK /\ Shape /\ Drawn
  BY DEF Base
<1>1. /\ phase = "idle" /\ h \in 2 .. MaxHeight /\ r \in Rounds
      /\ g \in Seq(Entry) /\ l \in SUBSET Delegate
      /\ t.ok \in BOOLEAN /\ t.db \in Db /\ t.gathered \in Seq(Entry)
      /\ db' = t.db /\ gathered' = [gathered EXCEPT ![r] = t.gathered]
      /\ chain' \in Seq(Block \cup {GenesisBlock})
      /\ t.ok => Top' = h /\ chain'[h] = b /\ \A i \in 1 .. Top : chain'[i] = chain[i]
      /\ ~t.ok => chain' = chain
  BY <1>0, ApplyIs
<1>2. h \in Nat \ {0} /\ h \in Nat /\ b \in Block \cup {GenesisBlock} /\ db \in Db
  BY <1>0, <1>1, Types
<1>3. /\ Total(db'.rewards, Account) + db'.pool = Total(db.rewards, Account) + db.pool
      /\ db'.pool <= db.pool
  <2> HIDE DEF g, l, h, r
  <2>1. /\ Total(t.db.rewards, Account) + t.db.pool = Total(db.rewards, Account) + db.pool
        /\ t.db.pool <= db.pool
    <3> HIDE DEF t
    <3>1. t = Tick(db, g, h, b, l) /\ RoundOf(h) \in Rounds
      BY <1>1 DEF t, r
    <3> QED BY <1>1, <1>2, <3>1, TickDraws
  <2> QED BY <1>1, <2>1
<1>4. /\ phase' = "idle"
      /\ UNCHANGED <<ungathered, phase, target, oldTop, rollbacks, restarts, votesOff, relisted>>
      /\ cache' = [height |-> h, list |-> l]
      /\ lists' = IF t.ok /\ (Top % N = 0 \/ Top = 1) THEN [lists EXCEPT ![r] = l] ELSE lists
      /\ unpaid' \in BOOLEAN /\ lost' \in BOOLEAN
  BY <1>0, <1>1, Types DEF ApplyBlock
<1>5. lists' \in [Rounds -> SUBSET Delegate]
  <2> HIDE DEF t, l, h, r
  <2> QED BY <1>0, <1>1, <1>4, Types
<1>6. gathered' \in [Rounds -> Seq(Entry)]
  <2> HIDE DEF t, l, h, r
  <2> QED BY <1>0, <1>1, Types
<1>7. ChainOK'
  <2> HIDE DEF t, l, g, r
  <2>1. CASE t.ok
    <3>1. Top \in Nat \ {0} /\ \A i \in 2 .. Top : chain'[i] \in Block
      BY <1>0, <1>1, <2>1, Constants DEF Shape, ChainOK
    <3>2. chain'[1] = GenesisBlock
      BY <1>0, <1>1, <2>1, <3>1 DEF Shape, ChainOK
    <3>3. \A i \in 2 .. Top' : i \in 2 .. Top \/ i = h
      BY <1>1, <2>1, <3>1
    <3>4. \A i \in 2 .. Top' : chain'[i] \in Block
      BY <1>1, <2>1, <3>1, <3>3
    <3>5. Top' \in 1 .. MaxHeight
      BY <1>1, <2>1
    <3> QED BY <1>1, <3>2, <3>4, <3>5 DEF ChainOK
  <2>2. CASE ~t.ok
    BY <1>0, <1>1, <2>2 DEF Shape, ChainOK, Top
  <2> QED BY <2>1, <2>2
<1>8. TypeOK'
  <2> HIDE DEF t, l, h, r
  <2>1. chain' # << >>
    <3>1. Len(chain') # 0
      BY <1>7, Constants DEF ChainOK, Top
    <3> QED BY <3>1
  <2>2. cache' \in [height : Nat, list : SUBSET Delegate]
    BY <1>1, <1>2, <1>4
  <2>3. db' \in Db
    BY <1>1
  <2> QED BY <1>0, <1>1, <1>4, <1>5, <1>6, <2>1, <2>2, <2>3, Types, TypesAgain
<1>9. Shape'
  BY <1>0, <1>1, <1>4, <1>7 DEF Shape
<1>10. Drawn'
  <2>1. db.pool \in Int /\ db'.pool \in Int /\ db' \in Db
    <3> HIDE DEF t
    <3>1. db' \in Db
      BY <1>1
    <3> QED BY <1>2, <3>1 DEF Db
  <2>2. db'.pool <= RewardPool /\ Total(db'.rewards, Account) + db'.pool <= RewardPool
    BY <1>0, <1>3, <2>1, Constants DEF Drawn
  <2>3. rollbacks' = 0 => Fresh(db', RewardPool)
    <3>1. CASE rollbacks = 0
      <4>1. Fresh(db, RewardPool)
        BY <1>0, <3>1 DEF Drawn
      <4>2. Fresh(t.db, RewardPool)
        <5> HIDE DEF t, g, h, r, l
        <5>1. t = Tick(db, g, h, b, l) /\ RoundOf(h) \in Rounds
          BY <1>1 DEF t, r
        <5> QED BY <1>1, <1>2, <4>1, <5>1, Constants, TickFresh
      <4> QED BY <1>1, <4>2
    <3> QED BY <1>4, <3>1
  <2> QED BY <2>2, <2>3 DEF Drawn
<1>11. InterruptionIsSeen'
  BY <1>4 DEF InterruptionIsSeen
<1> QED BY <1>8, <1>9, <1>10, <1>11 DEF Base


\* The start of a synchronisation keeps Base: it ends below the top.
LEMMA BaseStart ==
  ASSUME Base, NEW common \in 1 .. MaxHeight, StartRollback(common)
  PROVE  Base'
<1> DEFINE r == RoundOf(Top)
<1>0. TypeOK /\ Shape /\ Drawn
  BY DEF Base
<1>1. /\ phase = "idle" /\ common \in 1 .. Top - 1
      /\ phase' = "popping" /\ target' = PopTo(common) /\ oldTop' = Top /\ gathered' = Empty
      /\ db' = [db EXCEPT !.memRound = Flushed(db.memRound, r)]
      /\ rollbacks' = rollbacks + 1
      /\ UNCHANGED <<chain, ungathered, cache, restarts, lists, lost, unpaid, relisted>>
      /\ votesOff' \in BOOLEAN
  BY <1>0, Types DEF StartRollback
<1>2. Top \in Nat \ {0} /\ Top \in 1 .. MaxHeight /\ Top \in 1 .. MaxHeight + 1 /\ r \in Rounds
      /\ db \in Db
  <2>1. Top \in 1 .. MaxHeight
    BY <1>0 DEF Shape, ChainOK
  <2>2. Top \in Nat \ {0} /\ Top \in 1 .. MaxHeight + 1
    BY <2>1, Constants
  <2>3. r \in Rounds
    BY <2>2, RoundsOf
  <2>4. db \in Db
    BY <1>0, Types
  <2> QED BY <2>1, <2>2, <2>3, <2>4
<1>3. /\ db' \in Db /\ db'.rewards = db.rewards /\ db'.pool = db.pool /\ db'.blockId = db.blockId
  <2> DEFINE t == db'
  <2>1. t = [db EXCEPT !.memRound = Flushed(db.memRound, r)]
    BY <1>1
  <2> HIDE DEF t, r
  <2>2. t \in Db /\ t.rewards = db.rewards /\ t.pool = db.pool /\ t.blockId = db.blockId
    BY <1>2, <2>1, FlushIs
  <2> QED BY <2>2 DEF t
<1>4. PopTo(common) \in 1 .. common
  <2> DEFINE k == RoundOf(common)
             m == common % N
  <2>1. common \in Nat \ {0} /\ N \in Nat \ {0}
    BY <1>1, <1>2, Constants
  <2>2. m \in Nat /\ m <= common /\ (k # 1 => m < common)
    <3>1. m \in Nat /\ m < N /\ k \in Nat \ {0} /\ Before(k) < common /\ common <= Before(k) + N
      BY <2>1, RoundFacts
    <3>2. common \div N \in Nat /\ common = N * (common \div N) + m /\ N * (common \div N) \in Nat
      BY <2>1
    <3>3. m <= common
      BY <2>1, <3>1, <3>2
    <3>4. ASSUME k # 1 PROVE m < common
      <4>1. 1 \in Nat \ {0} /\ 1 < k
        BY <3>1, <3>4
      <4>2. Before(1) + N <= Before(k) /\ Before(1) = 0 /\ Before(k) \in Nat
        BY <3>1, <4>1, RoundFacts
      <4> QED BY <2>1, <3>1, <4>2
    <3> QED BY <3>1, <3>3, <3>4
  <2>3. PopTo(common) = common \/ PopTo(common) = 1 \/ (k # 1 /\ PopTo(common) = common - m)
    BY DEF PopTo
  <2> QED BY <2>1, <2>2, <2>3
<1>5. TypeOK'
  <2>1. chain' # << >> /\ gathered' \in [Rounds -> Seq(Entry)] /\ rollbacks' \in Nat
    BY <1>0, <1>1, Types, EmptyIs
  <2>2. target' \in Nat /\ oldTop' \in Nat /\ phase' \in {"idle", "popping"}
    BY <1>1, <1>2, <1>4
  <2> HIDE DEF r
  <2> QED BY <1>0, <1>1, <1>3, <2>1, <2>2, Types, TypesAgain
<1>6. ChainOK' /\ Top' = Top
  BY <1>0, <1>1 DEF Shape, ChainOK, Top
<1>7. Shape'
  <2>1. target' \in 1 .. Top' /\ Top' <= oldTop' /\ oldTop' <= MaxHeight /\ target' < oldTop'
    BY <1>1, <1>2, <1>4, <1>6
  <2>2. rollbacks' # 0
    BY <1>0, <1>1, Types
  <2> QED BY <1>1, <1>6, <2>1, <2>2 DEF Shape
<1>8. Drawn'
  <2>1. rollbacks' # 0
    BY <1>0, <1>1, Types
  <2> QED BY <1>0, <1>3, <2>1 DEF Drawn
<1>9. InterruptionIsSeen'
  BY <1>1, <1>2, <1>6 DEF InterruptionIsSeen
<1> QED BY <1>5, <1>7, <1>8, <1>9 DEF Base

\* A popped block keeps Base: its generator has a block that is missing, and the pool is
\* not refilled.
LEMMA BasePop ==
  ASSUME Base, PopBlock
  PROVE  Base'
<1> DEFINE r == RoundOf(Top)
           un == PopUn
           undone == PopUndone
           back == PopBack
           n == IF PopSettles THEN << >> ELSE un
<1>0. TypeOK /\ Shape /\ Drawn
  BY DEF Base
<1>1. /\ phase = "popping" /\ Top \in 2 .. MaxHeight /\ target < Top /\ r \in Rounds
      /\ un \in Seq(Entry) /\ undone \in Db /\ back \in Db /\ db' \in Db
      /\ IsProduced(undone, db, chain[Top], r, -1, Top)
      /\ PopSettles => IsSettled(back, undone, un, 1, -1, ListFor(Top), r, Top)
      /\ ~PopSettles => back = undone
      /\ db'.rewards = back.rewards /\ db'.pool = back.pool
      /\ chain' \in Seq(Block \cup {GenesisBlock}) /\ Top' = Top - 1
      /\ \A h \in 1 .. Top - 1 : chain'[h] = chain[h]
      /\ ungathered' = [ungathered EXCEPT ![r] = n]
      /\ cache' = (IF PopSettles THEN [height |-> Top, list |-> ListFor(Top)] ELSE cache)
      /\ \E a \in Account : db'.blockId[a] = NoBlock
  BY <1>0, PopIs
<1>2. /\ UNCHANGED <<gathered, phase, target, oldTop, rollbacks, restarts, lists, lost, votesOff>>
      /\ unpaid' \in BOOLEAN /\ relisted' \in BOOLEAN
  BY <1>0, Types DEF PopBlock
<1> HIDE DEF un, undone, back
<1>3. /\ Total(db'.rewards, Account) <= Total(db.rewards, Account)
      /\ Total(db'.rewards, Account) \in Int /\ db'.pool = db.pool
  <2> DEFINE one == 1
             minus == -1
             l == ListFor(Top)
             h == Top
  <2>1. undone.rewards = db.rewards /\ undone.pool = db.pool
    BY <1>1 DEF IsProduced
  <2>2. CASE PopSettles
    <3>1. IsSettled(back, undone, un, one, minus, l, r, h) /\ minus \in Signs /\ back \in Db
          /\ undone \in Db /\ un \in Seq(Entry)
      BY <1>1, <2>2 DEF Signs
    <3> HIDE DEF one, minus, l, h, r
    <3>2. /\ Total(undone.rewards, Account) \in Int
          /\ Total(back.rewards, Account) = Total(undone.rewards, Account) + minus * Rewards(un)
      BY <3>1, SettledRewards
    <3>3. Rewards(un) \in Nat /\ minus = -1
      BY <3>1, PayIs DEF minus
    <3>4. back.pool = undone.pool
      BY <3>1 DEF IsSettled
    <3> QED BY <1>1, <2>1, <3>2, <3>3, <3>4
  <2>3. CASE ~PopSettles
    <3>1. Total(db.rewards, Account) \in Int
      <4> DEFINE x == db.rewards
                 A == Account
      <4>1. x \in [A -> Int] /\ IsFiniteSet(A) /\ A \in SUBSET A
        BY <1>0, Types, Constants DEF Db
      <4> HIDE DEF x, A
      <4>2. Total(x, A) \in Int
        BY <4>1, TotalMore
      <4> QED BY <4>2 DEF x, A
    <3> QED BY <1>1, <2>1, <2>3, <3>1
  <2> QED BY <2>2, <2>3
<1>4. n \in Seq(Entry) /\ ungathered' \in [Rounds -> Seq(Entry)]
  <2>1. n \in Seq(Entry)
    BY <1>1
  <2> HIDE DEF n, r
  <2> QED BY <1>0, <1>1, <2>1, Types
<1>5. TypeOK'
  <2>1. cache' \in [height : Nat, list : SUBSET Delegate]
    <3>1. ListFor(Top) \in SUBSET Delegate /\ cache \in [height : Nat, list : SUBSET Delegate]
          /\ Top \in Nat
      BY <1>0, <1>1, ListForIs, Types, Constants
    <3> QED BY <1>1, <3>1
  <2>2. chain' # << >>
    <3>1. Len(chain') # 0
      BY <1>1, Constants DEF Top
    <3> QED BY <3>1
  <2> HIDE DEF r, n
  <2> QED BY <1>0, <1>1, <1>2, <1>4, <2>1, <2>2, Types, TypesAgain
<1>6. ChainOK'
  <2>1. Top' \in 1 .. MaxHeight /\ 1 \in 1 .. Top - 1
    BY <1>1, Constants
  <2>2. \A h \in 2 .. Top' : chain'[h] \in Block
    <3>1. \A h \in 2 .. Top' : h \in 1 .. Top - 1 /\ h \in 2 .. Top
      BY <1>1, Constants
    <3> QED BY <1>0, <1>1, <3>1 DEF Shape, ChainOK
  <2>3. chain'[1] = GenesisBlock
    BY <1>0, <1>1, <2>1 DEF Shape, ChainOK
  <2> QED BY <1>1, <2>1, <2>2, <2>3 DEF ChainOK
<1>7. Shape'
  <2>1. target' \in 1 .. Top' /\ Top' <= oldTop' /\ oldTop' <= MaxHeight /\ target' < oldTop'
        /\ rollbacks' # 0 /\ gathered' = Empty
    <3>1. target \in 1 .. Top /\ Top <= oldTop /\ oldTop <= MaxHeight /\ target < oldTop
          /\ rollbacks # 0 /\ gathered = Empty /\ oldTop \in Nat /\ target \in Nat
      BY <1>0, <1>1, Types DEF Shape
    <3> QED BY <1>1, <1>2, <3>1, Constants
  <2> QED BY <1>1, <1>2, <1>6, <2>1 DEF Shape
<1>8. Drawn'
  <2>1. rollbacks' # 0
    BY <1>0, <1>1, <1>2 DEF Shape
  <2>2. db'.pool <= RewardPool /\ Total(db'.rewards, Account) + db'.pool <= RewardPool
    <3>1. db.pool \in Int /\ Total(db.rewards, Account) \in Int
      <4> DEFINE x == db.rewards
                 A == Account
      <4>1. x \in [A -> Int] /\ IsFiniteSet(A) /\ A \in SUBSET A /\ db.pool \in Int
        BY <1>0, Types, Constants DEF Db
      <4> HIDE DEF x, A
      <4>2. Total(x, A) \in Int
        BY <4>1, TotalMore
      <4> QED BY <4>1, <4>2 DEF x, A
    <3> QED BY <1>0, <1>3, <3>1, Constants DEF Drawn
  <2> QED BY <2>1, <2>2 DEF Drawn
<1>9. InterruptionIsSeen'
  BY <1>1 DEF InterruptionIsSeen, MissingBlock
<1> QED BY <1>5, <1>7, <1>8, <1>9 DEF Base

\* The end of a synchronisation keeps Base.
LEMMA BaseEnd ==
  ASSUME Base, EndRollback
  PROVE  Base'
<1> DEFINE r == RoundOf(oldTop)
<1>0. TypeOK /\ Shape /\ Drawn
  BY DEF Base
<1>1. /\ phase = "popping" /\ phase' = "idle" /\ target' = 0 /\ oldTop' = 0
      /\ ungathered' = Empty /\ db' = [db EXCEPT !.memRound = Flushed(db.memRound, r)]
      /\ lost' \in BOOLEAN
      /\ UNCHANGED <<chain, gathered, cache, rollbacks, restarts, lists, unpaid, votesOff, relisted>>
  BY DEF EndRollback
<1>2. r \in Rounds /\ db \in Db
  <2>1. oldTop \in 1 .. MaxHeight + 1
    BY <1>0, <1>1, Types, Constants DEF Shape, ChainOK
  <2> QED BY <1>0, <2>1, RoundsOf, Types
<1>3. /\ db' \in Db /\ db'.rewards = db.rewards /\ db'.pool = db.pool
  <2> DEFINE t == db'
  <2>1. t = [db EXCEPT !.memRound = Flushed(db.memRound, r)]
    BY <1>1
  <2> HIDE DEF t, r
  <2>2. t \in Db /\ t.rewards = db.rewards /\ t.pool = db.pool
    BY <1>2, <2>1, FlushIs
  <2> QED BY <2>2 DEF t
<1>4. TypeOK'
  <2>1. ungathered' \in [Rounds -> Seq(Entry)] /\ chain' # << >> /\ target' \in Nat /\ oldTop' \in Nat
        /\ phase' \in {"idle", "popping"}
    BY <1>0, <1>1, Types, EmptyIs
  <2> HIDE DEF r
  <2> QED BY <1>0, <1>1, <1>3, <2>1, Types, TypesAgain
<1>5. Shape'
  BY <1>0, <1>1 DEF Shape, ChainOK, Top
<1>6. Drawn'
  <2>1. rollbacks' # 0
    BY <1>0, <1>1 DEF Shape
  <2> QED BY <1>0, <1>3, <2>1 DEF Drawn
<1>7. InterruptionIsSeen'
  BY <1>1 DEF InterruptionIsSeen
<1> QED BY <1>4, <1>5, <1>6, <1>7 DEF Base

\* A look at the list keeps Base: it changes the cache only.
LEMMA BaseLookUp ==
  ASSUME Base, LookUp
  PROVE  Base'
<1>0. TypeOK /\ Shape /\ Drawn
  BY DEF Base
<1>1. /\ phase = "idle" /\ cache' = [height |-> Top + 1, list |-> ListFor(Top + 1)]
      /\ UNCHANGED <<db, chain, gathered, ungathered, phase, target, oldTop,
                     rollbacks, restarts, lists, lost, unpaid, votesOff, relisted>>
  BY DEF LookUp
<1>2. TypeOK'
  <2>1. cache' \in [height : Nat, list : SUBSET Delegate]
    <3>1. ListFor(Top + 1) \in SUBSET Delegate /\ Top + 1 \in Nat
      BY <1>0, ListForIs, Constants DEF Shape, ChainOK
    <3> QED BY <1>1, <3>1
  <2>2. chain' # << >>
    BY <1>0, <1>1, Types
  <2> QED BY <1>0, <1>1, <2>1, <2>2, Types, TypesAgain
<1>3. Shape' /\ Drawn'
  BY <1>0, <1>1 DEF Shape, ChainOK, Top, Drawn
<1>4. InterruptionIsSeen'
  BY <1>1 DEF InterruptionIsSeen
<1> QED BY <1>2, <1>3, <1>4 DEF Base

\* A restart keeps Base: what all blocks draw anew comes out of what the pool still has.
LEMMA BaseRestart ==
  ASSUME Base, Restart
  PROVE  Base'
<1>0. TypeOK /\ Shape /\ Drawn
  BY DEF Base
<1>1. /\ restarts' = restarts + 1
      /\ gathered' = GatheredFrom(chain) /\ ungathered' = Empty
      /\ cache' = NoList /\ phase' = "idle" /\ target' = 0 /\ oldTop' = 0
      /\ lost' \in BOOLEAN
      /\ UNCHANGED <<chain, rollbacks>>
  BY DEF Restart
<1>2. /\ MissingBlock => /\ db' = Replayed.db /\ lists' = Replayed.lists
                         /\ unpaid' \in BOOLEAN /\ votesOff' \in BOOLEAN /\ relisted' \in BOOLEAN
      /\ ~MissingBlock => votesOff' \in BOOLEAN /\ UNCHANGED <<db, unpaid, lists, relisted>>
  <2>1. CASE MissingBlock
    <3>1. db' = Replayed.db /\ lists' = Replayed.lists
          /\ unpaid' = (~Replayed.ok \/ Top >= N) /\ votesOff' = FALSE /\ relisted' = FALSE
      BY <2>1 DEF Restart
    <3> DEFINE p == ~Replayed.ok \/ Top >= N
    <3>2. p \in BOOLEAN
      OBVIOUS
    <3>3. unpaid' \in BOOLEAN
      <4> HIDE DEF p
      <4>1. unpaid' = p
        BY <3>1 DEF p
      <4> QED BY <3>2, <4>1
    <3>4. votesOff' \in BOOLEAN /\ relisted' \in BOOLEAN
      BY <3>1
    <3> QED BY <2>1, <3>1, <3>3, <3>4
  <2>2. CASE ~MissingBlock
    <3>1. votesOff' = (votesOff \/ (phase = "popping" /\ Top % N # 0 /\ MovedUpTo(Top)))
          /\ UNCHANGED <<db, unpaid, lists, relisted>>
      BY <2>2 DEF Restart
    <3> QED BY <2>2, <3>1
  <2> QED BY <2>1, <2>2
<1>3. Replayed \in Replays /\ Fresh(Replayed.db, db.pool)
  BY <1>0, ReplayedIs, Types DEF Shape
<1>4. db' \in Db /\ lists' \in [Rounds -> SUBSET Delegate] /\ unpaid' \in BOOLEAN
      /\ votesOff' \in BOOLEAN /\ relisted' \in BOOLEAN
  <2>1. CASE MissingBlock
    BY <1>2, <1>3, <2>1 DEF Replays
  <2>2. CASE ~MissingBlock
    BY <1>0, <1>2, <2>2, Types
  <2> QED BY <2>1, <2>2
<1>5. TypeOK'
  <2>1. gathered' \in [Rounds -> Seq(Entry)] /\ ungathered' \in [Rounds -> Seq(Entry)]
    BY <1>0, <1>1, GatheredFromIs, EmptyIs DEF Shape
  <2>2. cache' \in [height : Nat, list : SUBSET Delegate]
    <3>1. cache' = [height |-> 0, list |-> {}]
      BY <1>1 DEF NoList
    <3> QED BY <3>1
  <2>3. restarts' \in Nat /\ chain' # << >> /\ target' \in Nat /\ oldTop' \in Nat
        /\ phase' \in {"idle", "popping"}
    BY <1>0, <1>1, Types
  <2> QED BY <1>0, <1>1, <1>4, <2>1, <2>2, <2>3, Types, TypesAgain
<1>6. Shape'
  BY <1>0, <1>1 DEF Shape, ChainOK, Top
<1>7. Drawn'
  <2>1. CASE MissingBlock
    <3>1. rollbacks # 0
      BY <1>0, <2>1 DEF Drawn, Fresh, MissingBlock
    <3>2. /\ db'.pool <= db.pool
          /\ Total(db'.rewards, Account) + db'.pool = db.pool
      BY <1>2, <1>3, <2>1 DEF Fresh
    <3>3. db.pool \in Int /\ db'.pool \in Int
      BY <1>0, <1>4, Types DEF Db
    <3> QED BY <1>0, <1>1, <3>1, <3>2, <3>3, Constants DEF Drawn
  <2>2. CASE ~MissingBlock
    BY <1>0, <1>1, <1>2, <2>2 DEF Drawn
  <2> QED BY <2>1, <2>2
<1>8. InterruptionIsSeen'
  BY <1>1 DEF InterruptionIsSeen
<1> QED BY <1>5, <1>6, <1>7, <1>8 DEF Base

\* Every step keeps Base.
LEMMA BaseNext == Base /\ [Next]_vars => Base'
<1> SUFFICES ASSUME Base, [Next]_vars PROVE Base'
  OBVIOUS
<1>1. ASSUME NEW b \in Block, ApplyBlock(b) PROVE Base'
  BY <1>1, BaseApply
<1>2. ASSUME NEW h \in 1 .. MaxHeight, StartRollback(h) PROVE Base'
  BY <1>2, BaseStart
<1>3. CASE PopBlock
  BY <1>3, BasePop
<1>4. CASE EndRollback
  BY <1>4, BaseEnd
<1>5. CASE LookUp
  BY <1>5, BaseLookUp
<1>6. CASE Restart
  BY <1>6, BaseRestart
<1>7. CASE UNCHANGED vars
  BY <1>7 DEF vars, Base, TypeOK, Shape, ChainOK, Top, Drawn, InterruptionIsSeen, MissingBlock
<1> QED BY <1>1, <1>2, <1>3, <1>4, <1>5, <1>6, <1>7 DEF Next

\* The types, the pool and an interruption are as Base says in every state.
THEOREM BaseInvariance == Spec => []Base
<1> QED BY BaseInit, BaseNext, PTL DEF Spec

\* The reward pool is never overdrawn, no more rewards are in the accounts than have left
\* it, and as many as that if nothing was ever taken back: tick looks at the pool before
\* it pays, backwardTick does not refill it (round.js).
THEOREM PoolSound == Spec => []RewardsFromPool
<1>1. Base => RewardsFromPool
  <2> SUFFICES ASSUME Base PROVE RewardsFromPool
    OBVIOUS
  <2>1. db \in Db /\ TypeOK
    BY Types DEF Base
  <2>2. db.pool \in Int /\ Total(db.rewards, Account) \in Int
    <3> DEFINE x == db.rewards
               A == Account
    <3>1. x \in [A -> Int] /\ IsFiniteSet(A) /\ A \in SUBSET A /\ db.pool \in Int
      BY <2>1, Constants DEF Db
    <3> HIDE DEF x, A
    <3>2. Total(x, A) \in Int
      BY <3>1, TotalMore
    <3> QED BY <3>1, <3>2 DEF x, A
  <2> QED BY <2>1, <2>2, Constants DEF Base, Drawn, Fresh, RewardsFromPool
<1> QED BY <1>1, BaseInvariance, PTL

\* A node that stops while it pops blocks finds, at its start, an account last touched by
\* a block it no longer has, and applies all blocks again (popLastBlock, loadBlockChain).
THEOREM InterruptionSound == Spec => []InterruptionIsSeen
<1>1. Base => InterruptionIsSeen
  BY DEF Base
<1> QED BY <1>1, BaseInvariance, PTL

-----------------------------------------------------------------------------
(* What a round amounts to, whichever way its blocks are counted *)

\* What FeesFor gives: a share for each block, and what is left over to one.
LEMMA FeesForIs ==
  ASSUME NEW g \in Seq(Entry), NEW last \in DOMAIN g, NEW a \in Account
  PROVE  FeesFor(g, a, last) =
           Cardinality(ByOne(g, a)) * (Fees(g) \div N)
             + IF g[last].generator = a THEN Fees(g) % N ELSE 0
<1> DEFINE D == DOMAIN g
           V == ByOne(g, a)
           q == Fees(g) \div N
           m == Fees(g) % N
           s == [i \in D |-> ShareOf(g, i, last)]
           c == [i \in D |-> q]
           p == [i \in D |-> IF i = last THEN m ELSE 0]
<1>1. Fees(g) \in Nat /\ N \in Nat \ {0} /\ IsFiniteSet(D)
  BY PayIs, DomainIs, Constants
<1>2. q \in Nat /\ m \in Nat /\ Fees(g) - q * N = m
  <2> DEFINE f == Fees(g)
  <2>1. f \in Nat /\ N \in Nat \ {0}
    BY <1>1
  <2> HIDE DEF f
  <2> DEFINE k == f \div N
             l == f % N
  <2>2. k \in Nat /\ l \in 0 .. N - 1 /\ f = k * N + l
    BY <2>1
  <2> HIDE DEF k, l
  <2>3. k * N \in Nat
    BY <2>1, <2>2
  <2>4. k \in Nat /\ l \in Nat /\ f - k * N = l
    BY <2>1, <2>2, <2>3
  <2> QED BY <2>4 DEF f, k, l
<1>3. V \in SUBSET D /\ (last \in V <=> g[last].generator = a)
  BY DEF ByOne
<1>4. FeesFor(g, a, last) = Total(s, V)
  BY DEF FeesFor
<1>5. \A i \in D : ShareOf(g, i, last) = q + IF i = last THEN m ELSE 0
  BY <1>2 DEF ShareOf
<1> HIDE DEF q, m, V, D
<1>6. c \in [D -> Int] /\ p \in [D -> Int] /\ s \in [D -> Int]
  BY <1>2, <1>5
<1>7. \A i \in D : s[i] = c[i] + p[i] /\ c[i] = q
  BY <1>5
<1>8. last \in D /\ p[last] = m /\ \A i \in D : i # last => p[i] = 0
  BY DEF D
<1> HIDE DEF s, c, p
<1>9. Adds(s, c, p, D)
  BY <1>1, <1>6, <1>7 DEF Adds
<1>10. Total(s, V) = Total(c, V) + Total(p, V)
  BY <1>3, <1>9, TotalPlus
<1>11. Total(c, V) = Cardinality(V) * q
  <2>1. \A i \in V : c[i] = q
    BY <1>3, <1>7
  <2>2. q \in Int
    BY <1>2
  <2>3. IsFiniteSet(D) /\ c \in [D -> Int] /\ V \in SUBSET D
    BY <1>1, <1>3, <1>6
  <2> QED BY <2>1, <2>2, <2>3, TotalConst, Zenon
<1>12. Total(p, V) = IF last \in V THEN m ELSE 0
  <2>1. Total(p, V) = IF last \in V THEN p[last] ELSE 0
    BY <1>1, <1>3, <1>6, <1>8, TotalPoint
  <2> QED BY <1>8, <2>1
<1> QED BY <1>3, <1>4, <1>10, <1>11, <1>12 DEF q, m, V

\* The blocks of a round, by the functions that are counted.
FeeOf(g) == [i \in DOMAIN g |-> g[i].fee]
RewardOf(g) == [i \in DOMAIN g |-> g[i].reward]

\* Counted from the other end, a round amounts to the same.
LEMMA Backward ==
  ASSUME NEW g \in Seq(Entry), NEW k \in Seq(Entry), Len(g) = N, Len(k) = N,
         \A i \in 1 .. N : k[i] = g[N + 1 - i], NEW a \in Account
  PROVE  FeesFor(k, a, 1) = FeesFor(g, a, N) /\ RewardsFor(k, a) = RewardsFor(g, a)
<1> DEFINE D == 1 .. N
           m == [i \in D |-> N + 1 - i]
           V == ByOne(k, a)
           W == ByOne(g, a)
           fk == FeeOf(k)
           fg == FeeOf(g)
           rk == RewardOf(k)
           rg == RewardOf(g)
<1>0. N \in Nat \ {0}
  BY Constants
<1>1. /\ DOMAIN g = D /\ DOMAIN k = D /\ IsFiniteSet(D)
      /\ \A i \in D : g[i].fee \in Nat /\ g[i].reward \in Nat /\ k[i].fee \in Nat
                      /\ k[i].reward \in Nat
  BY DomainIs
<1>2. m \in [D -> D] /\ (\A i, j \in D : m[i] = m[j] => i = j) /\ (\A i \in D : m[m[i]] = i)
      /\ \A i \in D : k[i] = g[m[i]]
  BY <1>0
<1>3. fk \in [D -> Int] /\ fg \in [D -> Int] /\ rk \in [D -> Int] /\ rg \in [D -> Int]
  BY <1>1 DEF FeeOf, RewardOf
<1>4. \A i \in D : fg[m[i]] = fk[i] /\ rg[m[i]] = rk[i]
  <2> SUFFICES ASSUME NEW i \in D PROVE fg[m[i]] = fk[i] /\ rg[m[i]] = rk[i]
    OBVIOUS
  <2>1. m[i] \in D /\ k[i] = g[m[i]]
    BY <1>2
  <2> HIDE DEF m
  <2> QED BY <1>1, <2>1 DEF FeeOf, RewardOf
<1> HIDE DEF D, m
<1>5. IsMove(m, fk, D, fg, D) /\ IsMove(m, rk, D, rg, D)
  <2> HIDE DEF fk, fg, rk, rg
  <2> QED BY <1>1, <1>2, <1>3, <1>4 DEF IsMove
<1>6. V \in SUBSET D /\ W \in SUBSET D /\ Moved(m, V) = W /\ Moved(m, D) = D
  <2>1. \A i \in D : i \in V <=> m[i] \in W
    BY <1>1, <1>2 DEF ByOne
  <2>2. V \in SUBSET D /\ W \in SUBSET D
    BY <1>1 DEF ByOne
  <2> HIDE DEF V, W
  <2>3. Moved(m, V) \subseteq W /\ Moved(m, D) \subseteq D
    BY <1>2, <2>1, <2>2 DEF Moved
  <2>4. \A j \in W : m[j] \in V /\ m[m[j]] = j
    BY <1>2, <2>1, <2>2
  <2>5. \A j \in D : m[j] \in D /\ m[m[j]] = j
    BY <1>2
  <2> QED BY <2>2, <2>3, <2>4, <2>5 DEF Moved
<1>7. D \in SUBSET D
  OBVIOUS
<1>8. /\ Total(fg, D) = Total(fk, D) /\ Total(rg, W) = Total(rk, V)
      /\ Cardinality(W) = Cardinality(V)
  <2> HIDE DEF fk, fg, rk, rg, V, W
  <2>1. Total(fg, Moved(m, D)) = Total(fk, D)
    BY <1>5, <1>7, TotalMoved
  <2>2. Total(rg, Moved(m, V)) = Total(rk, V) /\ Cardinality(Moved(m, V)) = Cardinality(V)
    BY <1>5, <1>6, TotalMoved
  <2> QED BY <1>6, <2>1, <2>2
<1>9. Fees(g) = Fees(k) /\ RewardsFor(k, a) = RewardsFor(g, a)
  BY <1>1, <1>8 DEF Fees, RewardsFor, FeeOf, RewardOf
<1>10. 1 \in DOMAIN k /\ N \in DOMAIN g /\ k[1] = g[N]
  BY <1>0, <1>1 DEF D
<1>11. FeesFor(k, a, 1) = Cardinality(V) * (Fees(k) \div N)
                           + IF k[1].generator = a THEN Fees(k) % N ELSE 0
  BY <1>10, FeesForIs
<1>12. FeesFor(g, a, N) = Cardinality(W) * (Fees(g) \div N)
                           + IF g[N].generator = a THEN Fees(g) % N ELSE 0
  BY <1>10, FeesForIs
<1> QED BY <1>8, <1>9, <1>10, <1>11, <1>12

-----------------------------------------------------------------------------
(* What is in the accounts besides fees and rewards: Funds, moves, blocks *)

\* Every block of c up to h moves integers.
Moving(c, h) == \A i \in 1 .. h : c[i].moves \in [Account -> Int]

\* The balances and the produced blocks of the tables d are those of c up to height h.
BooksAt(d, c, h) ==
  /\ Moving(c, h)
  /\ \A a \in Account :
       /\ d.balance[a] = Funds[a] + d.fees[a] + d.rewards[a] + MovesOf(c, a, h)
       /\ d.produced[a] = Cardinality(Made(c, a, 1 .. h))

\* One more height has one more block.
LEMMA HeightsGrow ==
  ASSUME NEW c, NEW h \in Nat \ {0}, NEW a
  PROVE  /\ Cardinality(Made(c, a, 1 .. h - 1)) \in Nat
         /\ Cardinality(Made(c, a, 1 .. h)) = Cardinality(Made(c, a, 1 .. h - 1))
              + IF c[h].generator = a THEN 1 ELSE 0
<1> DEFINE k == h - 1
           M == Made(c, a, 1 .. k)
           q == c[h].generator = a
<1>1. k \in Nat /\ h = k + 1 /\ (1 .. h) = (1 .. k) \cup {h} /\ h \notin 1 .. k
  OBVIOUS
<1>2. IsFiniteSet(1 .. k) /\ M \subseteq 1 .. k
  <2>1. 1 \in Int /\ k \in Int
    BY <1>1
  <2>2. M \subseteq 1 .. k
    BY DEF Made
  <2> HIDE DEF k, M
  <2> QED BY <2>1, <2>2, FS_Interval
<1>3. IsFiniteSet(M) /\ h \notin M
  BY <1>1, <1>2, FS_Subset
<1>5. Made(c, a, 1 .. h) = (IF q THEN M \cup {h} ELSE M)
  BY <1>1 DEF Made
<1> HIDE DEF M, q
<1>6. Cardinality(M) \in Nat
  BY <1>3, FS_CardinalityType
<1>7. Cardinality(M \cup {h}) = Cardinality(M) + 1
  BY <1>3, FS_AddElement
<1>9. Cardinality(Made(c, a, 1 .. h)) = Cardinality(M) + (IF q THEN 1 ELSE 0)
  BY <1>5, <1>6, <1>7
<1> QED BY <1>6, <1>9 DEF M, q, k

\* The moves of an account up to a height are a number.
LEMMA MovesInt ==
  ASSUME NEW c, NEW h \in Nat, Moving(c, h), NEW a \in Account
  PROVE  MovesOf(c, a, h) \in Int
<1> DEFINE H == 1 .. h
           f == [i \in H |-> c[i].moves[a]]
<1>1. \A i \in H : c[i].moves[a] \in Int
  BY DEF Moving
<1>2. f \in [H -> Int]
  BY <1>1
<1>3. IsFiniteSet(H) /\ H \in SUBSET H
  BY FS_Interval
<1>4. MovesOf(c, a, h) = Total(f, H)
  BY DEF MovesOf
<1> HIDE DEF H, f
<1> QED BY <1>2, <1>3, <1>4, TotalMore

\* One more height moves what its block moves.
LEMMA MovesGrow ==
  ASSUME NEW c, NEW h \in Nat \ {0}, Moving(c, h), NEW a \in Account
  PROVE  /\ Moving(c, h - 1)
         /\ MovesOf(c, a, h - 1) \in Int /\ c[h].moves[a] \in Int
         /\ MovesOf(c, a, h) = MovesOf(c, a, h - 1) + c[h].moves[a]
<1> DEFINE p == h - 1
           S == 1 .. p
           H == 1 .. h
           f == [i \in S |-> c[i].moves[a]]
           k == [i \in H |-> c[i].moves[a]]
<1>1. p \in Nat /\ p \in Int /\ H = S \cup {h} /\ h \notin S /\ h \in H
  OBVIOUS
<1>2. \A i \in H : c[i].moves[a] \in Int
  BY DEF Moving
<1>3. Moving(c, p)
  BY <1>1 DEF Moving
<1>4. f \in [S -> Int] /\ k \in [H -> Int] /\ k[h] = c[h].moves[a] /\ \A i \in S : k[i] = f[i]
  BY <1>1, <1>2
<1>5. MovesOf(c, a, p) = Total(f, S) /\ MovesOf(c, a, h) = Total(k, H)
  BY DEF MovesOf
<1>6. IsFiniteSet(S)
  <2> HIDE DEF p
  <2> QED BY <1>1, FS_Interval
<1> HIDE DEF S, H, f, k
<1>7. IsGrown(f, k, S, h)
  BY <1>1, <1>4, <1>6 DEF IsGrown
<1>8. Total(f, S) \in Int /\ k[h] \in Int /\ Total(k, S \cup {h}) = Total(f, S) + k[h]
  BY <1>7, TotalGrown
<1> QED BY <1>1, <1>3, <1>4, <1>5, <1>8 DEF p

\* No block moves nothing.
LEMMA MovesNone ==
  ASSUME NEW c, NEW a
  PROVE  MovesOf(c, a, 0) = 0
<1> DEFINE H == 1 .. 0
           f == [i \in H |-> c[i].moves[a]]
<1>1. H = {} /\ f \in [{} -> Int]
  OBVIOUS
<1>2. IsFiniteSet({}) /\ {} \in SUBSET {}
  BY FS_EmptySet
<1>3. MovesOf(c, a, 0) = Total(f, H)
  BY DEF MovesOf
<1> HIDE DEF H, f
<1> QED BY <1>1, <1>2, <1>3, TotalMore

\* Two chains that agree up to a height move the same up to it.
LEMMA MovesAgree ==
  ASSUME NEW c, NEW k, NEW h \in Nat, \A i \in 1 .. h : k[i] = c[i]
  PROVE  /\ Moving(c, h) => Moving(k, h)
         /\ \A a : MovesOf(k, a, h) = MovesOf(c, a, h)
<1>1. \A a : [i \in 1 .. h |-> c[i].moves[a]] = [i \in 1 .. h |-> k[i].moves[a]]
  OBVIOUS
<1> QED BY <1>1 DEF Moving, MovesOf

\* Two chains that agree up to a height have the same books there.
LEMMA BooksAgree ==
  ASSUME NEW d, NEW c, NEW k, NEW h \in Nat, \A i \in 1 .. h : k[i] = c[i], BooksAt(d, c, h)
  PROVE  BooksAt(d, k, h)
<1>1. \A a : Made(k, a, 1 .. h) = Made(c, a, 1 .. h)
  BY DEF Made
<1>2. Moving(c, h) => Moving(k, h)
  BY MovesAgree
<1>3. \A a : MovesOf(k, a, h) = MovesOf(c, a, h)
  BY MovesAgree
<1> QED BY <1>1, <1>2, <1>3 DEF BooksAt

\* What the tables have is integers.
LEMMA Amounts ==
  ASSUME NEW d \in Db, NEW a \in Account
  PROVE  d.balance[a] \in Int /\ d.fees[a] \in Int /\ d.rewards[a] \in Int /\ d.produced[a] \in Int
         /\ Funds[a] \in Int
BY Constants DEF Db

\* A block that is applied is one more in the books.
LEMMA ProducedBooks ==
  ASSUME NEW d \in Db, NEW t \in Db, NEW c, NEW h \in Nat \ {0}, NEW r, NEW id, NEW n, n = 1,
         c[h] \in Block \cup {GenesisBlock},
         BooksAt(d, c, h - 1), IsProduced(t, d, c[h], r, n, id)
  PROVE  BooksAt(t, c, h)
<1>0. Moving(c, h)
  <2>1. c[h].moves \in [Account -> Int]
    BY Blocks
  <2>2. \A i \in 1 .. h : i = h \/ i \in 1 .. h - 1
    OBVIOUS
  <2> QED BY <2>1, <2>2 DEF BooksAt, Moving
<1> SUFFICES ASSUME NEW a \in Account
             PROVE  /\ t.balance[a] = Funds[a] + t.fees[a] + t.rewards[a] + MovesOf(c, a, h)
                    /\ t.produced[a] = Cardinality(Made(c, a, 1 .. h))
  BY <1>0 DEF BooksAt
<1> DEFINE v == MovesOf(c, a, h - 1)
           m == Cardinality(Made(c, a, 1 .. h - 1))
           w == MovesOf(c, a, h)
           l == Cardinality(Made(c, a, 1 .. h))
           x == c[h].moves[a]
           q == c[h].generator = a
<1>1. v \in Int /\ x \in Int /\ w = v + x
  BY <1>0, MovesGrow
<1>2. m \in Nat /\ l = m + (IF q THEN 1 ELSE 0)
  BY HeightsGrow
<1>3. d.balance[a] = Funds[a] + d.fees[a] + d.rewards[a] + v /\ d.produced[a] = m
  BY DEF BooksAt
<1>4. /\ t.balance[a] = d.balance[a] + n * x
      /\ t.produced[a] = d.produced[a] + (IF q THEN n ELSE 0)
      /\ t.fees[a] = d.fees[a] /\ t.rewards[a] = d.rewards[a]
  BY DEF IsProduced
<1>5. d.balance[a] \in Int /\ d.fees[a] \in Int /\ d.rewards[a] \in Int /\ Funds[a] \in Int
  BY Amounts
<1> HIDE DEF v, m, w, l, x, q
<1>8. t.balance[a] = Funds[a] + t.fees[a] + t.rewards[a] + w
  BY <1>1, <1>3, <1>4, <1>5
<1>9. t.produced[a] = l
  BY <1>2, <1>3, <1>4
<1> QED BY <1>8, <1>9 DEF w, l

\* A block that is popped is one less in the books.
LEMMA PoppedBooks ==
  ASSUME NEW d \in Db, NEW t \in Db, NEW c, NEW h \in Nat \ {0}, NEW r, NEW id, NEW n, n = -1,
         BooksAt(d, c, h), IsProduced(t, d, c[h], r, n, id)
  PROVE  BooksAt(t, c, h - 1)
<1>0. Moving(c, h) /\ Moving(c, h - 1)
  BY DEF BooksAt, Moving
<1> SUFFICES ASSUME NEW a \in Account
             PROVE  /\ t.balance[a] = Funds[a] + t.fees[a] + t.rewards[a] + MovesOf(c, a, h - 1)
                    /\ t.produced[a] = Cardinality(Made(c, a, 1 .. h - 1))
  BY <1>0 DEF BooksAt
<1> DEFINE v == MovesOf(c, a, h - 1)
           m == Cardinality(Made(c, a, 1 .. h - 1))
           w == MovesOf(c, a, h)
           l == Cardinality(Made(c, a, 1 .. h))
           x == c[h].moves[a]
           q == c[h].generator = a
<1>1. v \in Int /\ x \in Int /\ w = v + x
  BY <1>0, MovesGrow
<1>2. m \in Nat /\ l = m + (IF q THEN 1 ELSE 0)
  BY HeightsGrow
<1>3. d.balance[a] = Funds[a] + d.fees[a] + d.rewards[a] + w /\ d.produced[a] = l
  BY DEF BooksAt
<1>4. /\ t.balance[a] = d.balance[a] + n * x
      /\ t.produced[a] = d.produced[a] + (IF q THEN n ELSE 0)
      /\ t.fees[a] = d.fees[a] /\ t.rewards[a] = d.rewards[a]
  BY DEF IsProduced
<1>5. d.balance[a] \in Int /\ d.fees[a] \in Int /\ d.rewards[a] \in Int /\ Funds[a] \in Int
  BY Amounts
<1> HIDE DEF v, m, w, l, x, q
<1>8. t.balance[a] = Funds[a] + t.fees[a] + t.rewards[a] + v
  BY <1>1, <1>3, <1>4, <1>5
<1>9. t.produced[a] = m
  BY <1>2, <1>3, <1>4
<1> QED BY <1>8, <1>9 DEF v, m

\* A round that is settled moves balances with fees and rewards.
LEMMA SettledBooks ==
  ASSUME NEW d \in Db, NEW t \in Db, NEW c, NEW h \in Nat, NEW g, NEW last, NEW sign, NEW list, NEW r, NEW id,
         BooksAt(d, c, h), IsSettled(t, d, g, last, sign, list, r, id)
  PROVE  BooksAt(t, c, h)
<1>0. Moving(c, h)
  BY DEF BooksAt
<1> SUFFICES ASSUME NEW a \in Account
             PROVE  /\ t.balance[a] = Funds[a] + t.fees[a] + t.rewards[a] + MovesOf(c, a, h)
                    /\ t.produced[a] = Cardinality(Made(c, a, 1 .. h))
  BY <1>0 DEF BooksAt
<1> DEFINE v == MovesOf(c, a, h)
<1>1. /\ d.balance[a] = Funds[a] + d.fees[a] + d.rewards[a] + v
      /\ d.produced[a] = Cardinality(Made(c, a, 1 .. h))
  BY DEF BooksAt
<1>2. t.balance[a] = d.balance[a] + (t.fees[a] - d.fees[a]) + (t.rewards[a] - d.rewards[a])
      /\ t.produced = d.produced
  BY DEF IsSettled
<1>3. d.balance[a] \in Int /\ d.fees[a] \in Int /\ d.rewards[a] \in Int /\ Funds[a] \in Int
      /\ t.fees[a] \in Int /\ t.rewards[a] \in Int
  BY Amounts
<1>4. v \in Int
  BY <1>0, MovesInt
<1> HIDE DEF v
<1>5. t.balance[a] = Funds[a] + t.fees[a] + t.rewards[a] + v
  <2> DEFINE b == d.balance[a]
             e == t.balance[a]
             f == d.fees[a]
             i == t.fees[a]
             j == d.rewards[a]
             k == t.rewards[a]
             z == Funds[a]
  <2>1. b = z + f + j + v /\ e = b + (i - f) + (k - j)
    BY <1>1, <1>2
  <2>2. b \in Int /\ f \in Int /\ i \in Int /\ j \in Int /\ k \in Int /\ z \in Int
    BY <1>3
  <2> HIDE DEF b, e, f, i, j, k, z
  <2>3. e = z + i + k + v
    BY <1>4, <2>1, <2>2
  <2> QED BY <2>3 DEF e, z, i, k
<1> QED BY <1>1, <1>2, <1>5 DEF v

\* The parts of tick are a block and the end of a round.
LEMMA TickParts ==
  ASSUME NEW d \in Db, NEW g \in Seq(Entry), NEW h \in Nat \ {0}, RoundOf(h) \in Rounds,
         NEW b \in Block \cup {GenesisBlock}, NEW list \in SUBSET Delegate
  PROVE  /\ IsProduced(TickMade(d, h, b), d, b, RoundOf(h), 1, h)
         /\ IsSettled(TickPaid(d, g, h, b, list), TickMade(d, h, b), TickAll(g, h, b),
                      Len(TickAll(g, h, b)), 1, IF h = 1 THEN {} ELSE list, RoundOf(h), h)
<1> DEFINE r == RoundOf(h)
           one == 1
           made == TickMade(d, h, b)
           all == TickAll(g, h, b)
           n == Len(all)
           l == IF h = 1 THEN {} ELSE list
           paid == TickPaid(d, g, h, b, list)
           tick == Tick(d, g, h, b, list)
<1>1. tick.ok \in BOOLEAN /\ made \in Db /\ all \in Seq(Entry)
  <2>1. tick = Tick(d, g, h, b, list)
    OBVIOUS
  <2> HIDE DEF tick
  <2> QED BY <2>1, TickCases
<1>2. r \in Rounds /\ h \in Int /\ one \in Int /\ one \in Signs /\ l \in SUBSET Delegate
  BY Constants DEF Signs
<1>3. IsProduced(made, d, b, r, one, h)
  <2>1. made = Produced(d, b, r, one, h)
    BY DEF TickMade
  <2> HIDE DEF made, one, r
  <2> QED BY <1>2, <2>1, ProducedIs
<1>4. IsSettled(paid, made, all, n, one, l, r, h)
  <2>1. paid = Settle(made, all, n, one, l, r, h)
    BY DEF TickPaid
  <2> HIDE DEF paid, made, one, r, all, n, l
  <2> QED BY <1>1, <1>2, <2>1, SettleIs
<1> QED BY <1>3, <1>4

\* The books are about four columns.
LEMMA BooksSame ==
  ASSUME NEW d, NEW t, NEW c, NEW h, BooksAt(d, c, h), t.balance = d.balance, t.fees = d.fees,
         t.rewards = d.rewards, t.produced = d.produced
  PROVE  BooksAt(t, c, h)
BY DEF BooksAt

\* A block that is accepted is one more in the books, whether its round is settled or not.
LEMMA TickBooks ==
  ASSUME NEW d \in Db, NEW g \in Seq(Entry), NEW h \in Nat \ {0}, RoundOf(h) \in Rounds,
         NEW c, c[h] \in Block \cup {GenesisBlock}, NEW list \in SUBSET Delegate,
         NEW t, t = Tick(d, g, h, c[h], list), BooksAt(d, c, h - 1), t.ok
  PROVE  BooksAt(t.db, c, h)
<1> DEFINE b == c[h]
           r == RoundOf(h)
           one == 1
           made == TickMade(d, h, b)
           all == TickAll(g, h, b)
           n == Len(all)
           l == IF h = 1 THEN {} ELSE list
           paid == TickPaid(d, g, h, b, list)
<1>1. made \in Db /\ paid \in Db
  BY TickCases
<1>2. BooksAt(made, c, h)
  <2>1. IsProduced(made, d, b, r, one, h) /\ one = 1
    BY TickParts
  <2> HIDE DEF made, one, r
  <2> QED BY <1>1, <2>1, ProducedBooks
<1>3. BooksAt(paid, c, h)
  <2>1. IsSettled(paid, made, all, n, one, l, r, h)
    BY TickParts
  <2> HIDE DEF paid, made, one, r, all, n, l
  <2> QED BY <1>1, <1>2, <2>1, SettledBooks
<1>4. CASE ~Settles(all, h)
  <2>1. t.db = made
    BY <1>4, TickCases
  <2> QED BY <1>2, <2>1
<1>5. CASE Settles(all, h)
  <2>1. d.pool >= Rewards(all)
    <3>1. Rewards(all) \in Nat /\ d.pool \in Nat
      <4>1. all \in Seq(Entry)
        BY TickCases
      <4> HIDE DEF all
      <4> QED BY <4>1, PayIs DEF Db
    <3>2. d.pool < Rewards(all) => ~t.ok
      BY <1>5, TickCases
    <3> QED BY <3>1, <3>2
  <2>2. /\ t.db.balance = paid.balance /\ t.db.fees = paid.fees
        /\ t.db.rewards = paid.rewards /\ t.db.produced = paid.produced
    BY <1>5, <2>1, TickCases
  <2> HIDE DEF paid
  <2> QED BY <1>3, <2>2, BooksSame
<1> QED BY <1>4, <1>5

\* The genesis block has no fee, no reward and no vote.
Clean(d) == \A a \in Account : d.fees[a] = 0 /\ d.rewards[a] = 0

\* A block without fee and reward is worth nothing when it is alone.
LEMMA NothingToPay ==
  ASSUME NEW g \in Seq(Entry), NEW last, \A i \in DOMAIN g : g[i].fee = 0 /\ g[i].reward = 0,
         NEW a \in Account
  PROVE  FeesFor(g, a, last) = 0 /\ RewardsFor(g, a) = 0 /\ Rewards(g) = 0
<1> DEFINE D == DOMAIN g
           V == ByOne(g, a)
           f == [i \in D |-> g[i].fee]
           w == [i \in D |-> g[i].reward]
           s == [i \in D |-> ShareOf(g, i, last)]
<1>1. IsFiniteSet(D) /\ V \in SUBSET D /\ D \in SUBSET D
  BY DomainIs DEF ByOne
<1>2. f \in [D -> Int] /\ w \in [D -> Int] /\ IsZero(f, D) /\ IsZero(w, V)
      /\ IsZero(w, D)
  BY <1>1 DEF IsZero
<1>3. Fees(g) = Total(f, D) /\ RewardsFor(g, a) = Total(w, V) /\ FeesFor(g, a, last) = Total(s, V)
      /\ Rewards(g) = Total(w, D)
  BY DEF Fees, Rewards, RewardsFor, FeesFor
<1>4. Fees(g) = 0 /\ RewardsFor(g, a) = 0 /\ Rewards(g) = 0
  <2> HIDE DEF D, V, f, w
  <2> QED BY <1>1, <1>2, <1>3, TotalZero
<1>5. 0 \div N = 0
  BY Constants
<1>6. \A i \in D : ShareOf(g, i, last) = 0
  BY <1>4, <1>5, Constants DEF ShareOf
<1>7. s \in [D -> Int] /\ IsZero(s, V)
  BY <1>1, <1>6 DEF IsZero
<1> HIDE DEF D, V, s
<1>8. Total(s, V) = 0
  BY <1>1, <1>7, TotalZero
<1> QED BY <1>3, <1>4, <1>8

\* The genesis block is accepted, and worth nothing.
LEMMA StartedBooks ==
  ASSUME NEW p \in Nat, NEW c, c[1] = GenesisBlock,
         NEW s, s = Started([NewDb EXCEPT !.pool = p])
  PROVE  s.ok /\ s.db \in Db /\ BooksAt(s.db, c, 1) /\ Clean(s.db)
<1> DEFINE n == [NewDb EXCEPT !.pool = p]
           b == GenesisBlock
           g == << >>
           l == {}
           one == 1
           all == TickAll(g, one, b)
           made == TickMade(n, one, b)
           paid == TickPaid(n, g, one, b, l)
<1>1. IsNew(n, p)
  <2>1. n = [NewDb EXCEPT !.pool = p]
    OBVIOUS
  <2> HIDE DEF n
  <2> QED BY <2>1, NewDbIs
<1>2. /\ one \in Nat \ {0} /\ RoundOf(one) \in Rounds /\ g \in Seq(Entry) /\ l \in SUBSET Delegate
      /\ b \in Block \cup {GenesisBlock} /\ c[one] \in Block \cup {GenesisBlock} /\ b = c[one]
  <2>1. 1 \in 1 .. MaxHeight + 1
    BY Constants
  <2> QED BY <2>1, RoundsOf
<1>3. s = Tick(n, g, one, b, l)
  BY DEF Started
<1>4. all \in Seq(Entry) /\ Len(all) = 1 /\ all[1] = Gathered(one, b)
  <2> DEFINE e == Gathered(one, b)
  <2>1. e \in Entry
    BY <1>2, GatheredIs
  <2> HIDE DEF e
  <2>2. Append(<< >>, e) \in Seq(Entry) /\ Len(Append(<< >>, e)) = 1 /\ Append(<< >>, e)[1] = e
    BY <2>1
  <2>3. all = Append(<< >>, e)
    BY DEF TickAll, e
  <2> QED BY <2>2, <2>3 DEF e
<1>5. \A i \in DOMAIN all : all[i].fee = 0 /\ all[i].reward = 0
  <2>1. DOMAIN all = {1}
    <3> HIDE DEF all
    <3>1. DOMAIN all = 1 .. 1
      BY <1>4, DomainIs
    <3> QED BY <3>1
  <2>2. all[1].fee = 0 /\ all[1].reward = 0
    BY <1>4 DEF Gathered, RewardAt, GenesisBlock
  <2> HIDE DEF all
  <2> QED BY <2>1, <2>2
<1>6. Settles(all, one)
  BY DEF Settles
<1> HIDE DEF n, b, g, l, one, all, made, paid
<1>7. n \in Db /\ n.pool = p
  BY <1>1 DEF IsNew
<1>8. \A a \in Account : \A k : FeesFor(all, a, k) = 0 /\ RewardsFor(all, a) = 0 /\ Rewards(all) = 0
  BY <1>4, <1>5, NothingToPay
<1>9. Rewards(all) = 0
  BY <1>8, Constants
<1>10. n.pool >= Rewards(all)
  BY <1>7, <1>9
<1>11. s.ok /\ s.db \in Db /\ s.db.fees = paid.fees /\ s.db.rewards = paid.rewards
  <2>1. all = TickAll(g, one, b) /\ paid = TickPaid(n, g, one, b, l)
    BY DEF all, paid
  <2> QED BY <1>2, <1>3, <1>6, <1>7, <1>10, <2>1, TickCases
<1>12. BooksAt(s.db, c, 1)
  <2>1. BooksAt(n, c, 0)
    <3>0. Moving(c, 0)
      BY DEF Moving
    <3> SUFFICES ASSUME NEW a \in Account
                 PROVE  /\ n.balance[a] = Funds[a] + n.fees[a] + n.rewards[a] + MovesOf(c, a, 0)
                        /\ n.produced[a] = Cardinality(Made(c, a, 1 .. 0))
      BY <3>0 DEF BooksAt
    <3>1. Made(c, a, 1 .. 0) = {}
      BY DEF Made
    <3>2. Cardinality({}) = 0 /\ MovesOf(c, a, 0) = 0
      BY FS_EmptySet, MovesNone
    <3>3. Funds[a] \in Int
      BY Constants
    <3>4. n.balance = Funds /\ n.fees[a] = 0 /\ n.rewards[a] = 0 /\ n.produced[a] = 0
      BY <1>1 DEF IsNew
    <3> QED BY <3>1, <3>2, <3>3, <3>4
  <2>2. BooksAt(n, c, one - 1)
    BY <2>1 DEF one
  <2>3. BooksAt(s.db, c, one)
    BY <1>2, <1>3, <1>7, <1>11, <2>2, TickBooks
  <2> QED BY <2>3 DEF one
<1>13. Clean(s.db)
  <2> SUFFICES ASSUME NEW a \in Account PROVE s.db.fees[a] = 0 /\ s.db.rewards[a] = 0
    BY DEF Clean
  <2> DEFINE r == RoundOf(one)
             m == Len(all)
             k == IF one = 1 THEN {} ELSE l
             u == 1
  <2>1. IsProduced(made, n, b, r, u, one) /\ IsSettled(paid, made, all, m, u, k, r, one)
    BY <1>2, <1>7, TickParts DEF made, all, paid
  <2>2. made.fees[a] = 0 /\ made.rewards[a] = 0
    BY <1>1, <2>1 DEF IsProduced, IsNew
  <2>3. paid.fees[a] = made.fees[a] + u * FeesFor(all, a, m)
        /\ paid.rewards[a] = made.rewards[a] + u * RewardsFor(all, a)
    BY <2>1 DEF IsSettled
  <2>4. FeesFor(all, a, m) = 0 /\ RewardsFor(all, a) = 0
    BY <1>8
  <2>5. paid.fees[a] = 0 /\ paid.rewards[a] = 0
    BY <2>2, <2>3, <2>4
  <2> QED BY <1>11, <2>5
<1> QED BY <1>11, <1>12, <1>13

\* Below the end of the first round nothing is paid.
LEMMA TickClean ==
  ASSUME NEW d \in Db, NEW g \in Seq(Entry), NEW h \in Nat \ {0}, RoundOf(h) \in Rounds,
         NEW b \in Block \cup {GenesisBlock}, NEW list \in SUBSET Delegate,
         NEW t, t = Tick(d, g, h, b, list), h # 1, h < N, Clean(d)
  PROVE  Clean(t.db)
<1> DEFINE made == TickMade(d, h, b)
           all == TickAll(g, h, b)
<1>1. RoundOf(h) = 1 /\ RoundOf(h + 1) = 1
  <2>1. \A k \in 1 .. N : RoundOf(k) = 1
    <3> SUFFICES ASSUME NEW k \in 1 .. N PROVE RoundOf(k) = 1
      OBVIOUS
    <3>1. k \in Nat \ {0} /\ RoundOf(k) \in Nat \ {0} /\ Before(RoundOf(k)) < k
      <4>1. k \in Nat \ {0} /\ k <= N
        BY Constants
      <4> HIDE DEF Before
      <4> QED BY <4>1, RoundFacts
    <3>2. ASSUME 1 < RoundOf(k) PROVE FALSE
      <4>1. Before(1) + N <= Before(RoundOf(k)) /\ Before(1) = 0 /\ Before(RoundOf(k)) \in Nat
        BY <3>1, <3>2, RoundFacts
      <4> QED BY <3>1, <4>1, Constants
    <3> QED BY <3>1, <3>2
  <2> QED BY <2>1, Constants
<1>2. ~Settles(all, h)
  BY <1>1 DEF Settles
<1>3. t.db = made
  BY <1>2, TickCases
<1>4. made.fees = d.fees /\ made.rewards = d.rewards
  <2> DEFINE r == RoundOf(h)
             one == 1
  <2>1. IsProduced(made, d, b, r, one, h)
    BY TickParts
  <2> HIDE DEF made, r, one
  <2> QED BY <2>1 DEF IsProduced
<1> QED BY <1>3, <1>4 DEF Clean

\* The blocks applied again give the books of the chain; the first round pays nothing before
\* its end.
LEMMA ReplayedBooks ==
  ASSUME ChainOK, db \in Db
  PROVE  Replayed.ok => BooksAt(Replayed.db, chain, Top) /\ (Top < N => Clean(Replayed.db))
<1> DEFINE Fits(s, h) == s.ok => BooksAt(s.db, chain, h) /\ (h < N => Clean(s.db))
           J == [h \in 1 .. Top |-> {s \in Replays : Fits(s, h)}]
           s == ReplayStart
           p == db.pool
           n == [NewDb EXCEPT !.pool = p]
<1>0. Top \in Nat \ {0} /\ chain[1] = GenesisBlock
  BY Constants DEF ChainOK
<1>1. s \in Replays /\ Fits(s, 1)
  <2> DEFINE g == Started(n)
             ls == [r \in Rounds |-> {}]
             one == 1
  <2>1. p \in Nat
    BY DEF Db
  <2>2. g.gathered \in Seq(Entry)
    BY <2>1, StartedIs
  <2>3. g.ok /\ g.db \in Db /\ BooksAt(g.db, chain, one) /\ Clean(g.db)
    <3>1. g = Started([NewDb EXCEPT !.pool = p])
      OBVIOUS
    <3> HIDE DEF g, p
    <3> QED BY <1>0, <2>1, <3>1, StartedBooks DEF one
  <2>4. s = [ok |-> TRUE, db |-> g.db, gathered |-> g.gathered, lists |-> ls]
    BY DEF ReplayStart
  <2>5. ls \in [Rounds -> SUBSET Delegate]
    OBVIOUS
  <2> HIDE DEF g, ls, s
  <2>6. s \in Replays /\ s.db = g.db
    BY <2>2, <2>3, <2>4, <2>5 DEF Replays
  <2> QED BY <2>3, <2>6
<1>2. ASSUME NEW h \in 2 .. Top, NEW x \in Replays, x \in J[h - 1]
      PROVE  ReplayOne(x, h) \in J[h]
  <2> DEFINE y == ReplayOne(x, h)
             d == x.db
             g == x.gathered
             list == List(d.vote)
             t == ReplayTick(x, h)
  <2>1. Fits(x, h - 1) /\ d \in Db /\ g \in Seq(Entry) /\ x.ok \in BOOLEAN
    BY <1>0, <1>2 DEF Replays
  <2>2. h \in Nat \ {0} /\ h # 1 /\ RoundOf(h) \in Rounds /\ chain[h] \in Block \cup {GenesisBlock}
        /\ list \in SUBSET Delegate
    <3>1. h \in Nat \ {0} /\ h \in 1 .. MaxHeight + 1
      BY Constants DEF ChainOK
    <3>2. RoundOf(h) \in Rounds
      BY <3>1, RoundsOf
    <3> QED BY <3>1, <3>2 DEF ChainOK, List
  <2>3. y \in Replays /\ (y.ok => x.ok /\ t.ok /\ y.db = t.db)
          /\ t = Tick(d, g, h, chain[h], list)
    BY ReplayOneIs DEF ReplayTick
  <2>4. ASSUME x.ok, t.ok PROVE BooksAt(t.db, chain, h) /\ (h < N => Clean(t.db))
    <3>1. BooksAt(d, chain, h - 1)
      BY <2>1, <2>4
    <3>2. h < N => Clean(d)
      <4>1. h < N => h - 1 < N
        BY <2>2, Constants
      <4> QED BY <2>1, <2>4, <4>1
    <3> HIDE DEF d, g, list, t, y
    <3>3. BooksAt(t.db, chain, h)
      BY <2>1, <2>2, <2>3, <2>4, <3>1, TickBooks
    <3>4. h < N => Clean(t.db)
      BY <2>1, <2>2, <2>3, <3>2, TickClean
    <3> QED BY <3>3, <3>4
  <2> HIDE DEF y, t
  <2>5. Fits(y, h)
    BY <2>3, <2>4
  <2>6. h \in 1 .. Top
    BY <1>0
  <2> QED BY <2>3, <2>5, <2>6 DEF y
<1>3. s \in J[1]
  BY <1>0, <1>1
<1> HIDE DEF J
<1>4. Replayed \in Replays /\ Replayed \in J[Top]
  BY <1>1, <1>2, <1>3, ReplayFold
<1> QED BY <1>0, <1>4 DEF J

-----------------------------------------------------------------------------
(* The rounds that are paid *)


-----------------------------------------------------------------------------
(* The rounds that are paid *)

\* The blocks of the round r: those in c, and above them those popped, the last one first.
Whole(c, u, r) ==
  [i \in 1 .. N |-> IF Before(r) + i <= Len(c) THEN Gathered(Before(r) + i, c[Before(r) + i])
                    ELSE u[N + 1 - i]]

\* The height up to which rounds were paid, and the paid rounds that have a block.
High == IF phase = "idle" THEN Top ELSE oldTop
SettledAt(top, high) == {r \in Rounds : Before(r) < top /\ Before(r) + N <= high}
Settled == SettledAt(Top, High)

\* What the rounds in S pay to a.
DueFees(c, u, a, S) == [r \in S |-> FeesFor(Whole(c, u[r], r), a, N)]
DueRewards(c, u, a, S) == [r \in S |-> RewardsFor(Whole(c, u[r], r), a)]
PaidAt(d, c, u, S) ==
  \A a \in Account :
    /\ d.fees[a] = Total(DueFees(c, u, a, S), S)
    /\ d.rewards[a] = Total(DueRewards(c, u, a, S), S)

\* A list of popped blocks is long enough to complete its round.
LEMMA WholeIs ==
  ASSUME NEW c \in Seq(Block \cup {GenesisBlock}), NEW u \in Seq(Entry), NEW r \in Nat \ {0},
         Len(u) >= Before(r) + N - Len(c), NEW w, w = Whole(c, u, r)
  PROVE  w \in Seq(Entry) /\ Len(w) = N
<1> DEFINE f == Before(r)
<1>1. f \in Nat /\ N \in Nat \ {0} /\ Len(c) \in Nat /\ Len(u) \in Nat
  <2>1. f \in Nat
    BY RoundFacts
  <2>2. Len(c) \in Nat /\ Len(u) \in Nat
    OBVIOUS
  <2> QED BY <2>1, <2>2, Constants
<1>2. w = [i \in 1 .. N |-> IF f + i <= Len(c) THEN Gathered(f + i, c[f + i]) ELSE u[N + 1 - i]]
  BY DEF Whole
<1> HIDE DEF f
<1>3. ASSUME NEW i \in 1 .. N
      PROVE  (IF f + i <= Len(c) THEN Gathered(f + i, c[f + i]) ELSE u[N + 1 - i]) \in Entry
  <2>1. CASE f + i <= Len(c)
    <3>1. f + i \in 1 .. Len(c) /\ f + i \in Nat
      BY <1>1, <2>1
    <3>2. c[f + i] \in Block \cup {GenesisBlock}
      BY <3>1
    <3> QED BY <2>1, <3>1, <3>2, GatheredIs
  <2>2. CASE ~(f + i <= Len(c))
    <3>1. Len(u) >= f + N - Len(c)
      BY DEF f
    <3>2. N + 1 - i \in 1 .. Len(u)
      BY <1>1, <2>2, <3>1
    <3>3. u[N + 1 - i] \in Entry
      BY <3>2
    <3> QED BY <2>2, <3>3
  <2> QED BY <2>1, <2>2
<1>4. w \in [1 .. N -> Entry]
  BY <1>2, <1>3
<1> QED BY <1>1, <1>4, FunctionIsList

\* What is paid stays paid for rounds with the same blocks.
LEMMA PaidSame ==
  ASSUME NEW d, NEW t, t.fees = d.fees, t.rewards = d.rewards, NEW S, NEW c, NEW u, NEW k, NEW v,
         \A r \in S : Whole(k, v[r], r) = Whole(c, u[r], r), PaidAt(d, c, u, S)
  PROVE  PaidAt(t, k, v, S)
<1>1. \A a : DueFees(k, v, a, S) = DueFees(c, u, a, S) /\ DueRewards(k, v, a, S) = DueRewards(c, u, a, S)
  BY DEF DueFees, DueRewards
<1> QED BY <1>1 DEF PaidAt

\* All rounds in S and the round r have their blocks in k and v, and those in S the same ones
\* in c and u.
IsOneMore(S, r, c, u, k, v) ==
  /\ IsFiniteSet(S) /\ r \notin S
  /\ \A q \in S : Whole(k, v[q], q) = Whole(c, u[q], q)
  /\ \A q \in S \cup {r} : Whole(k, v[q], q) \in Seq(Entry)

\* What one more round adds.
AddsUp(S, r, a, c, u, k, v) ==
  LET w == Whole(k, v[r], r)
  IN  /\ Total(DueFees(c, u, a, S), S) \in Int /\ Total(DueRewards(c, u, a, S), S) \in Int
      /\ FeesFor(w, a, N) \in Int /\ RewardsFor(w, a) \in Int
      /\ Total(DueFees(k, v, a, S \cup {r}), S \cup {r})
           = Total(DueFees(c, u, a, S), S) + FeesFor(w, a, N)
      /\ Total(DueRewards(k, v, a, S \cup {r}), S \cup {r})
           = Total(DueRewards(c, u, a, S), S) + RewardsFor(w, a)

\* One more round adds that.
LEMMA DueGrown ==
  ASSUME NEW S, NEW r, NEW a \in Account, NEW c, NEW u, NEW k, NEW v, IsOneMore(S, r, c, u, k, v)
  PROVE  AddsUp(S, r, a, c, u, k, v)
<1> DEFINE U == S \cup {r}
           df == DueFees(c, u, a, S)
           dr == DueRewards(c, u, a, S)
           kf == DueFees(k, v, a, U)
           kr == DueRewards(k, v, a, U)
           w == Whole(k, v[r], r)
<1>1. \A q \in U : FeesFor(Whole(k, v[q], q), a, N) \in Int /\ RewardsFor(Whole(k, v[q], q), a) \in Int
  <2>1. \A q \in U : Whole(k, v[q], q) \in Seq(Entry)
    BY DEF IsOneMore
  <2>2. \A g \in Seq(Entry) : FeesFor(g, a, N) \in Int /\ RewardsFor(g, a) \in Int
    <3>1. \A g \in Seq(Entry) : FeesFor(g, a, N) \in Int /\ RewardsFor(g, a) \in Nat
      BY PayIs
    <3> QED BY <3>1
  <2> QED BY <2>1, <2>2
<1>2. kf \in [U -> Int] /\ kr \in [U -> Int] /\ kf[r] = FeesFor(w, a, N) /\ kr[r] = RewardsFor(w, a)
  BY <1>1 DEF DueFees, DueRewards
<1>3. /\ df \in [S -> Int] /\ dr \in [S -> Int]
      /\ \A q \in S : kf[q] = df[q] /\ kr[q] = dr[q]
  <2>1. \A q \in S : FeesFor(Whole(c, u[q], q), a, N) \in Int /\ RewardsFor(Whole(c, u[q], q), a) \in Int
    BY <1>1 DEF IsOneMore
  <2>2. \A q \in S : Whole(k, v[q], q) = Whole(c, u[q], q)
    BY DEF IsOneMore
  <2> QED BY <2>1, <2>2 DEF DueFees, DueRewards
<1> HIDE DEF df, dr, kf, kr, w
<1>4. IsGrown(df, kf, S, r) /\ IsGrown(dr, kr, S, r)
  BY <1>2, <1>3 DEF IsGrown, IsOneMore
<1>5. /\ Total(df, S) \in Int /\ kf[r] \in Int /\ Total(kf, S \cup {r}) = Total(df, S) + kf[r]
      /\ Total(dr, S) \in Int /\ kr[r] \in Int /\ Total(kr, S \cup {r}) = Total(dr, S) + kr[r]
  <2> HIDE DEF U
  <2> QED BY <1>4, TotalGrown
<1> QED BY <1>2, <1>5 DEF df, dr, kf, kr, w, AddsUp

\* A round is paid.
LEMMA PaidMore ==
  ASSUME NEW d, NEW t, NEW S, NEW r, NEW c, NEW u, NEW k, NEW v, IsOneMore(S, r, c, u, k, v),
         PaidAt(d, c, u, S), NEW g, g = Whole(k, v[r], r),
         \A a \in Account : /\ t.fees[a] = d.fees[a] + FeesFor(g, a, N)
                            /\ t.rewards[a] = d.rewards[a] + RewardsFor(g, a)
  PROVE  PaidAt(t, k, v, S \cup {r})
<1> SUFFICES ASSUME NEW a \in Account
             PROVE  /\ t.fees[a] = Total(DueFees(k, v, a, S \cup {r}), S \cup {r})
                    /\ t.rewards[a] = Total(DueRewards(k, v, a, S \cup {r}), S \cup {r})
  BY DEF PaidAt
<1>1. /\ d.fees[a] = Total(DueFees(c, u, a, S), S) /\ d.rewards[a] = Total(DueRewards(c, u, a, S), S)
  BY DEF PaidAt
<1>2. /\ Total(DueFees(k, v, a, S \cup {r}), S \cup {r})
           = Total(DueFees(c, u, a, S), S) + FeesFor(g, a, N)
      /\ Total(DueRewards(k, v, a, S \cup {r}), S \cup {r})
           = Total(DueRewards(c, u, a, S), S) + RewardsFor(g, a)
  <2>1. AddsUp(S, r, a, c, u, k, v)
    BY DueGrown
  <2> QED BY <2>1 DEF AddsUp
<1> QED BY <1>1, <1>2

\* A round is taken back.
LEMMA PaidLess ==
  ASSUME NEW d, NEW t, NEW S, NEW r, NEW c, NEW u, NEW k, NEW v, IsOneMore(S, r, c, u, k, v),
         PaidAt(d, k, v, S \cup {r}), NEW g, g = Whole(k, v[r], r),
         \A a \in Account : /\ t.fees[a] = d.fees[a] - FeesFor(g, a, N)
                            /\ t.rewards[a] = d.rewards[a] - RewardsFor(g, a)
  PROVE  PaidAt(t, c, u, S)
<1> SUFFICES ASSUME NEW a \in Account
             PROVE  /\ t.fees[a] = Total(DueFees(c, u, a, S), S)
                    /\ t.rewards[a] = Total(DueRewards(c, u, a, S), S)
  BY DEF PaidAt
<1>1. /\ d.fees[a] = Total(DueFees(k, v, a, S \cup {r}), S \cup {r})
      /\ d.rewards[a] = Total(DueRewards(k, v, a, S \cup {r}), S \cup {r})
  BY DEF PaidAt
<1>2. /\ Total(DueFees(c, u, a, S), S) \in Int /\ Total(DueRewards(c, u, a, S), S) \in Int
      /\ FeesFor(g, a, N) \in Int /\ RewardsFor(g, a) \in Int
      /\ Total(DueFees(k, v, a, S \cup {r}), S \cup {r})
           = Total(DueFees(c, u, a, S), S) + FeesFor(g, a, N)
      /\ Total(DueRewards(k, v, a, S \cup {r}), S \cup {r})
           = Total(DueRewards(c, u, a, S), S) + RewardsFor(g, a)
  <2>1. AddsUp(S, r, a, c, u, k, v)
    BY DueGrown
  <2> QED BY <2>1 DEF AddsUp
<1> QED BY <1>1, <1>2

\* What a list of blocks that are gathered has.
IsGathered(g, c, q) ==
  /\ Len(g) = Len(c) - Before(q)
  /\ \A i \in 1 .. Len(c) - Before(q) : g[i] = Gathered(Before(q) + i, c[Before(q) + i])

\* Outside a synchronisation the blocks of the current round are gathered, unless some were lost.
Gathers ==
  phase = "idle" => \A q \in Rounds :
    /\ Before(q) >= Top => gathered[q] = << >>
    /\ (~lost /\ Before(q) < Top /\ Top < Before(q) + N) => IsGathered(gathered[q], chain, q)

\* In a synchronisation the popped blocks of the rounds that have some left are gathered.
Ungathers ==
  (phase = "popping" /\ ~unpaid) => \A q \in Rounds : Before(q) < Top =>
    Len(ungathered[q]) = IF Before(q) + N <= Top THEN 0
                         ELSE (IF Before(q) + N <= oldTop THEN Before(q) + N ELSE oldTop) - Top

\* A synchronisation ends inside the round it began in, or at the end of a round.
Aimed ==
  phase = "popping" =>
    /\ target = 1 \/ target % N = 0 \/ (RoundOf(target) = RoundOf(oldTop) /\ oldTop % N # 0)
    /\ Top = 1 => unpaid

\* The accounts have what the rounds pay that are settled.
Paid == ~unpaid => PaidAt(db, chain, ungathered, Settled)

\* The accounts have the books of the chain.
Booked == ~unpaid => BooksAt(db, chain, Top)

Earned == Booked /\ Gathers /\ Ungathers /\ Aimed /\ Paid

\* Where a height is in the rounds.
LEMMA Places ==
  ASSUME NEW h \in Nat \ {0}, NEW r, r = RoundOf(h)
  PROVE  /\ r \in Nat \ {0} /\ Before(r) \in Nat /\ Before(r) < h /\ h <= Before(r) + N
         /\ h % N = 0 <=> h = Before(r) + N
         /\ \A q \in Rounds : /\ Before(q) \in Nat
                              /\ q # r => Before(q) + N <= Before(r) \/ Before(r) + N <= Before(q)
<1>1. r \in Nat \ {0} /\ Before(r) < h /\ h <= Before(r) + N /\ (h % N = 0 <=> h = Before(r) + N)
  BY RoundFacts
<1>2. \A q \in Rounds : q \in Nat \ {0}
  BY RoundsOf
<1>3. \A q \in Rounds : Before(q) \in Nat
  BY <1>2, RoundFacts
<1>4. Before(r) \in Nat
  BY <1>1, RoundFacts
<1>5. ASSUME NEW q \in Rounds, q # r PROVE Before(q) + N <= Before(r) \/ Before(r) + N <= Before(q)
  <2>1. q < r \/ r < q
    BY <1>1, <1>2, <1>5
  <2> QED BY <1>1, <1>2, <2>1, RoundFacts
<1> QED BY <1>1, <1>3, <1>4, <1>5

\* The rounds that are paid, as the chain grows.
LEMMA SettledGrows ==
  ASSUME NEW h \in Nat \ {0}, NEW k, k = h + 1, NEW r, r = RoundOf(k), r \in Rounds
  PROVE  /\ k % N # 0 => SettledAt(k, k) = SettledAt(h, h)
         /\ k % N = 0 => SettledAt(k, k) = SettledAt(h, h) \cup {r} /\ r \notin SettledAt(h, h)
<1>1. /\ Before(r) \in Nat /\ Before(r) < k /\ k <= Before(r) + N
      /\ k % N = 0 <=> k = Before(r) + N
      /\ \A q \in Rounds : /\ Before(q) \in Nat
                           /\ q # r => Before(q) + N <= Before(r) \/ Before(r) + N <= Before(q)
  BY Places
<1>2. N \in Nat \ {0}
  BY Constants
<1>3. ASSUME NEW q \in Rounds, q # r PROVE q \in SettledAt(k, k) <=> q \in SettledAt(h, h)
  BY <1>1, <1>2, <1>3 DEF SettledAt
<1>4. r \notin SettledAt(h, h) /\ (r \in SettledAt(k, k) <=> k % N = 0)
  BY <1>1, <1>2 DEF SettledAt
<1>5. SettledAt(k, k) \subseteq Rounds /\ SettledAt(h, h) \subseteq Rounds
  BY DEF SettledAt
<1> QED BY <1>3, <1>4, <1>5

\* The rounds that are paid are finitely many.
LEMMA SettledFinite == \A h, o : IsFiniteSet(SettledAt(h, o)) /\ SettledAt(h, o) \subseteq Rounds
<1>1. IsFiniteSet(Rounds)
  <2>1. RoundOf(MaxHeight + 1) \in Nat
    <3>1. MaxHeight + 1 \in Nat \ {0}
      BY Constants
    <3> QED BY <3>1, RoundFacts
  <2> DEFINE m == RoundOf(MaxHeight + 1)
  <2>2. 1 \in Int /\ m \in Int
    BY <2>1
  <2> HIDE DEF m
  <2>3. IsFiniteSet(1 .. m)
    BY <2>2, FS_Interval
  <2> QED BY <2>3 DEF m, Rounds
<1>2. \A h, o : SettledAt(h, o) \subseteq Rounds
  BY DEF SettledAt
<1> QED BY <1>1, <1>2, FS_Subset

\* Without rounds, the accounts have nothing.
LEMMA PaidNone ==
  ASSUME NEW d, NEW c, NEW u, Clean(d)
  PROVE  PaidAt(d, c, u, {})
<1> SUFFICES ASSUME NEW a \in Account
             PROVE  /\ d.fees[a] = Total(DueFees(c, u, a, {}), {})
                    /\ d.rewards[a] = Total(DueRewards(c, u, a, {}), {})
  BY DEF PaidAt
<1> DEFINE U == {}
           f == DueFees(c, u, a, U)
           g == DueRewards(c, u, a, U)
<1>1. IsFiniteSet(U) /\ f \in [U -> Int] /\ g \in [U -> Int]
  BY FS_EmptySet DEF DueFees, DueRewards
<1> HIDE DEF f, g
<1>2. Total(f, {}) = 0 /\ Total(g, {}) = 0
  <2> HIDE DEF U
  <2> QED BY <1>1, TotalMore
<1> QED BY <1>2 DEF f, g, Clean

\* What is gathered when the node starts: the blocks of the current round.
LEMMA GathersFrom ==
  ASSUME ChainOK, NEW g, g = GatheredFrom(chain)
  PROVE  \A q \in Rounds : /\ Before(q) >= Top => g[q] = << >>
                           /\ (Before(q) < Top /\ Top < Before(q) + N) => IsGathered(g[q], chain, q)
<1> DEFINE r == RoundOf(Top)
<1>1. Top \in Nat \ {0}
  BY Constants DEF ChainOK
<1>2. /\ Before(r) \in Nat /\ Before(r) < Top /\ Top <= Before(r) + N
      /\ \A q \in Rounds : /\ Before(q) \in Nat
                           /\ q # r => Before(q) + N <= Before(r) \/ Before(r) + N <= Before(q)
  BY <1>1, Places
<1>3. N \in Nat \ {0}
  BY Constants
<1>4. \A q \in Rounds : /\ Before(q) >= Top => q # r
                        /\ (Before(q) < Top /\ Top < Before(q) + N) => q = r
  <2> HIDE DEF r
  <2> QED BY <1>1, <1>2, <1>3
<1>5. \A q \in Rounds : q # r => g[q] = << >>
  BY GatheredFromIs
<1>6. Len(g[r]) = Top - Before(r)
      /\ \A i \in 1 .. Top - Before(r) : g[r][i] = Gathered(Before(r) + i, chain[Before(r) + i])
  BY GatheredFromIs
<1>7. IsGathered(g[r], chain, r)
  BY <1>6 DEF IsGathered, Top
<1> HIDE DEF r
<1> QED BY <1>4, <1>5, <1>7

\* With the genesis block only, a round that ends with it pays nothing.
LEMMA PaidFirst ==
  ASSUME NEW d, Clean(d), NEW c \in Seq(Block \cup {GenesisBlock}), Len(c) = 1, c[1] = GenesisBlock,
         NEW u \in [Rounds -> Seq(Entry)]
  PROVE  PaidAt(d, c, u, SettledAt(1, 1))
<1> DEFINE h == 1
           r == RoundOf(h)
<1>1. h \in Nat \ {0} /\ N \in Nat \ {0} /\ Before(1) = 0 /\ 1 \in Rounds
  <2>1. h \in Nat \ {0} /\ h \in 1 .. MaxHeight + 1 /\ N \in Nat \ {0}
    BY Constants
  <2>2. MaxHeight + 1 \in Nat \ {0}
    BY Constants
  <2>3. 1 \in Rounds
    <3> DEFINE m == RoundOf(MaxHeight + 1)
    <3>1. m \in Nat \ {0}
      BY <2>2, RoundFacts
    <3> HIDE DEF m
    <3>2. 1 \in 1 .. m
      BY <3>1
    <3> QED BY <3>2 DEF Rounds, m
  <2> QED BY <2>1, <2>3, RoundFacts
<1>2. /\ r \in Nat \ {0} /\ Before(r) \in Nat /\ Before(r) < h
      /\ \A q \in Rounds : /\ Before(q) \in Nat
                           /\ q # r => Before(q) + N <= Before(r) \/ Before(r) + N <= Before(q)
  BY <1>1, Places
<1> HIDE DEF h, r
<1>3. h = 1
  BY DEF h
<1>4. r = 1
  BY <1>1, <1>2, <1>3
<1>5. SettledAt(1, 1) = (IF N = 1 THEN {1} ELSE {})
  <2>1. \A q \in Rounds : q \in SettledAt(1, 1) <=> (q = 1 /\ N = 1)
    BY <1>1, <1>2, <1>3, <1>4 DEF SettledAt
  <2>2. SettledAt(1, 1) \subseteq Rounds
    BY DEF SettledAt
  <2> QED BY <1>1, <2>1, <2>2
<1>6. PaidAt(d, c, u, {})
  BY PaidNone
<1>7. CASE N # 1
  BY <1>5, <1>6, <1>7
<1>8. CASE N = 1
  <2> DEFINE one == 1
             v == u[one]
             w == Whole(c, v, one)
             S == {}
  <2>1. w \in Seq(Entry) /\ Len(w) = N
    <3>1. v \in Seq(Entry) /\ one \in Nat \ {0} /\ Len(v) >= Before(one) + N - Len(c)
      <4>1. v \in Seq(Entry)
        BY <1>1
      <4>2. Len(v) \in Nat
        BY <4>1
      <4> QED BY <1>1, <1>8, <4>1, <4>2
    <3> HIDE DEF v, one
    <3> QED BY <3>1, WholeIs
  <2>2. \A i \in DOMAIN w : w[i].fee = 0 /\ w[i].reward = 0
    <3>1. w[1] = Gathered(1, GenesisBlock)
      <4>1. 1 \in 1 .. N /\ Before(one) + 1 = 1
        BY <1>1, <1>8
      <4> QED BY <4>1 DEF Whole
    <3>2. w[1].fee = 0 /\ w[1].reward = 0
      BY <3>1 DEF Gathered, RewardAt, GenesisBlock
    <3> HIDE DEF w
    <3>3. DOMAIN w = 1 .. 1
      BY <1>8, <2>1, DomainIs
    <3>4. \A i \in DOMAIN w : i = 1
      BY <3>3
    <3> QED BY <3>2, <3>4
  <2>3. \A a \in Account : FeesFor(w, a, N) = 0 /\ RewardsFor(w, a) = 0
    <3> HIDE DEF w
    <3> QED BY <2>1, <2>2, NothingToPay
  <2>4. IsOneMore(S, one, c, u, c, u)
    <3>1. IsFiniteSet(S) /\ one \notin S /\ \A q \in S \cup {one} : q = one
      BY FS_EmptySet
    <3> HIDE DEF one
    <3> QED BY <2>1, <3>1 DEF IsOneMore
  <2>5. \A a \in Account : /\ d.fees[a] = d.fees[a] + FeesFor(w, a, N)
                           /\ d.rewards[a] = d.rewards[a] + RewardsFor(w, a)
    BY <2>3 DEF Clean
  <2>6. PaidAt(d, c, u, S)
    BY <1>6
  <2>7. PaidAt(d, c, u, S \cup {one})
    <3> HIDE DEF S, one, w
    <3>1. w = Whole(c, u[one], one)
      BY DEF w
    <3> QED BY <2>4, <2>5, <2>6, <3>1, PaidMore
  <2> QED BY <1>5, <1>8, <2>7
<1> QED BY <1>7, <1>8

\* Earned holds when the genesis block is applied.
LEMMA EarnedInit == Init => Earned
<1> SUFFICES ASSUME Init PROVE Earned
  OBVIOUS
<1> DEFINE p == RewardPool
           s == Started([NewDb EXCEPT !.pool = p])
<1>1. Base
  BY BaseInit
<1>2. ChainOK /\ TypeOK /\ chain \in Seq(Block \cup {GenesisBlock})
      /\ ungathered \in [Rounds -> Seq(Entry)]
  BY <1>1, Types DEF Base, Shape
<1>3. Top = 1 /\ Len(chain) = 1 /\ chain[1] = GenesisBlock
  <2>1. chain = <<GenesisBlock>>
    BY DEF Init
  <2> QED BY <2>1 DEF Top
<1>4. BooksAt(db, chain, 1) /\ Clean(db)
  <2>1. db = s.db
    <3>1. db = Started(NewDb).db
      BY DEF Init
    <3> QED BY <3>1, NewDbSame
  <2>2. s = Started([NewDb EXCEPT !.pool = p])
    OBVIOUS
  <2> HIDE DEF s
  <2>3. p \in Nat
    BY Constants
  <2> HIDE DEF p
  <2>4. BooksAt(s.db, chain, 1) /\ Clean(s.db)
    BY <1>3, <2>2, <2>3, StartedBooks
  <2> QED BY <2>1, <2>4
<1>5. phase = "idle" /\ phase # "popping" /\ gathered = GatheredFrom(chain)
  BY DEF Init
<1>6. Gathers
  BY <1>2, <1>5, GathersFrom DEF Gathers
<1>7. Ungathers /\ Aimed
  BY <1>5 DEF Ungathers, Aimed
<1>8. Paid
  <2>1. Settled = SettledAt(1, 1)
    BY <1>3, <1>5 DEF Settled, High
  <2>2. PaidAt(db, chain, ungathered, SettledAt(1, 1))
    BY <1>2, <1>3, <1>4, PaidFirst
  <2> QED BY <2>1, <2>2 DEF Paid
<1>9. Booked
  BY <1>3, <1>4 DEF Booked
<1> QED BY <1>6, <1>7, <1>8, <1>9 DEF Earned

\* Two lists with the same places.
LEMMA SameList ==
  ASSUME NEW T, NEW l \in Seq(T), NEW k \in Seq(T), Len(l) = Len(k), \A i \in 1 .. Len(l) : l[i] = k[i]
  PROVE  l = k
OBVIOUS

\* A round ends at its last height, and only there.
LEMMA RoundEnds ==
  ASSUME NEW h \in Nat \ {0}
  PROVE  RoundOf(h + 1) # RoundOf(h) <=> h % N = 0
<1> DEFINE r == RoundOf(h)
           k == h + 1
           s == RoundOf(k)
<1>1. k \in Nat \ {0} /\ k = h + 1 /\ N \in Nat \ {0}
  BY Constants
<1> HIDE DEF k
<1>2. /\ r \in Nat \ {0} /\ Before(r) < h /\ h <= Before(r) + N
      /\ h % N = 0 <=> h = Before(r) + N
  BY RoundFacts
<1>3. s \in Nat \ {0} /\ Before(s) < k /\ k <= Before(s) + N
  BY <1>1, RoundFacts
<1>4. Before(r) \in Nat /\ Before(s) \in Nat
  BY <1>2, <1>3, RoundFacts
<1>5. r < s => Before(r) + N <= Before(s)
  BY <1>2, <1>3, RoundFacts
<1>6. s < r => Before(s) + N <= Before(r)
  BY <1>2, <1>3, RoundFacts
<1> HIDE DEF r, s
<1>7. r = s \/ r < s \/ s < r
  BY <1>2, <1>3
<1>8. s # r <=> h % N = 0
  BY <1>1, <1>2, <1>3, <1>4, <1>5, <1>6, <1>7
<1> QED BY <1>8 DEF r, s, k

\* What an accepted block adds to the accounts.
LEMMA TickPays ==
  ASSUME NEW d \in Db, NEW g \in Seq(Entry), NEW h \in Nat \ {0}, RoundOf(h) \in Rounds,
         NEW b \in Block \cup {GenesisBlock}, NEW list \in SUBSET Delegate,
         NEW t, t = Tick(d, g, h, b, list), t.ok
  PROVE  /\ ~Settles(TickAll(g, h, b), h)
              => t.gathered = TickAll(g, h, b) /\ t.db.fees = d.fees /\ t.db.rewards = d.rewards
         /\ Settles(TickAll(g, h, b), h)
              => /\ t.gathered = << >>
                 /\ \A a \in Account :
                      /\ t.db.fees[a] = d.fees[a] + FeesFor(TickAll(g, h, b), a, Len(TickAll(g, h, b)))
                      /\ t.db.rewards[a] = d.rewards[a] + RewardsFor(TickAll(g, h, b), a)
<1> DEFINE made == TickMade(d, h, b)
           all == TickAll(g, h, b)
           n == Len(all)
           r == RoundOf(h)
           one == 1
           l == IF h = 1 THEN {} ELSE list
           paid == TickPaid(d, g, h, b, list)
<1>1. /\ made \in Db /\ all \in Seq(Entry) /\ paid \in Db
      /\ ~Settles(all, h) => t.db = made /\ t.gathered = all
      /\ Settles(all, h) /\ d.pool < Rewards(all) => ~t.ok
      /\ Settles(all, h) /\ d.pool >= Rewards(all)
           => t.gathered = << >> /\ t.db.fees = paid.fees /\ t.db.rewards = paid.rewards
  BY TickCases
<1>2. IsProduced(made, d, b, r, one, h) /\ IsSettled(paid, made, all, n, one, l, r, h)
  BY TickParts
<1>3. made.fees = d.fees /\ made.rewards = d.rewards
  BY <1>2 DEF IsProduced
<1>4. \A a \in Account : /\ paid.fees[a] = made.fees[a] + one * FeesFor(all, a, n)
                         /\ paid.rewards[a] = made.rewards[a] + one * RewardsFor(all, a)
  BY <1>2 DEF IsSettled
<1>5. \A a \in Account : FeesFor(all, a, n) \in Int /\ RewardsFor(all, a) \in Nat
  <2> HIDE DEF all, n
  <2> QED BY <1>1, PayIs
<1>6. d.pool < Rewards(all) \/ d.pool >= Rewards(all)
  <2> HIDE DEF all
  <2>1. Rewards(all) \in Nat /\ d.pool \in Nat
    BY <1>1, PayIs DEF Db
  <2> QED BY <2>1
<1>7. \A a \in Account : /\ paid.fees[a] = d.fees[a] + FeesFor(all, a, n)
                         /\ paid.rewards[a] = d.rewards[a] + RewardsFor(all, a)
  <2> HIDE DEF all, paid, made, n
  <2> QED BY <1>3, <1>4, <1>5
<1> HIDE DEF all, paid, made
<1>8. CASE Settles(all, h)
  <2>1. t.gathered = << >> /\ t.db.fees = paid.fees /\ t.db.rewards = paid.rewards
    BY <1>1, <1>6, <1>8
  <2> QED BY <1>7, <1>8, <2>1 DEF all
<1>9. CASE ~Settles(all, h)
  BY <1>1, <1>3, <1>9 DEF all
<1> QED BY <1>8, <1>9

\* With the block that is applied, the blocks of its round are gathered.
LEMMA AllIs ==
  ASSUME TypeOK, Shape, Gathers, ~lost, NEW b \in Block, ApplyBlock(b), chain'[Top + 1] = b,
         Len(chain') = Top + 1, \A i \in 1 .. Top : chain'[i] = chain[i]
  PROVE  LET h == Top + 1
             r == RoundOf(h)
         IN  IsGathered(TickAll(gathered[r], h, b), chain', r)
<1> DEFINE h == Top + 1
           r == RoundOf(h)
           f == Before(r)
           g == gathered[r]
           all == TickAll(g, h, b)
<1>1. phase = "idle" /\ h \in 2 .. MaxHeight /\ r \in Rounds /\ g \in Seq(Entry)
  BY ApplyIs
<1>2. Top \in Nat \ {0} /\ h \in Nat \ {0} /\ N \in Nat \ {0}
  BY Constants DEF Shape, ChainOK
<1>3. f \in Nat /\ f < h /\ h <= f + N
  BY <1>2, Places
<1>4. Len(g) = Top - f /\ \A i \in 1 .. Top - f : g[i] = Gathered(f + i, chain[f + i])
  <2>1. CASE f < Top
    <3>1. IsGathered(g, chain, r)
      <4>1. Top < f + N
        BY <1>2, <1>3
      <4> HIDE DEF r, h
      <4> QED BY <1>1, <2>1, <4>1 DEF Gathers
    <3> QED BY <3>1 DEF IsGathered, Top
  <2>2. CASE f >= Top
    <3>1. g = << >>
      <4> HIDE DEF r, h
      <4> QED BY <1>1, <2>2 DEF Gathers
    <3> HIDE DEF f, g
    <3>2. Top - f = 0
      <4>1. f < Top + 1 /\ Top \in Nat /\ f \in Nat
        BY <1>2, <1>3
      <4> QED BY <2>2, <4>1
    <3>3. Len(g) = Top - f
      BY <3>1, <3>2
    <3>4. \A i \in 1 .. 0 : FALSE
      OBVIOUS
    <3>5. \A i \in 1 .. Top - f : FALSE
      BY <3>2, <3>4
    <3>6. ASSUME NEW i \in 1 .. Top - f PROVE g[i] = Gathered(f + i, chain[f + i])
      BY <3>5
    <3> QED BY <3>3, <3>6
  <2>3. f < Top \/ f >= Top
    BY <1>2, <1>3
  <2> HIDE DEF f, g
  <2> QED BY <2>1, <2>2, <2>3
<1>5. /\ Len(all) = Len(g) + 1 /\ all[Len(g) + 1] = Gathered(h, b)
      /\ \A i \in 1 .. Len(g) : all[i] = g[i]
  <2> DEFINE e == Gathered(h, b)
  <2>1. e \in Entry /\ all = Append(g, e)
    BY <1>2, GatheredIs DEF TickAll
  <2> HIDE DEF e, all, g
  <2>2. /\ Len(Append(g, e)) = Len(g) + 1 /\ Append(g, e)[Len(g) + 1] = e
        /\ \A i \in 1 .. Len(g) : Append(g, e)[i] = g[i]
    BY <1>1, <2>1, AppendIs
  <2> QED BY <2>1, <2>2 DEF e
<1> HIDE DEF all, g, f, r
<1>6. Len(all) = Len(chain') - f
  BY <1>2, <1>3, <1>4, <1>5
<1>7. ASSUME NEW i \in 1 .. Len(chain') - f PROVE all[i] = Gathered(f + i, chain'[f + i])
  <2>1. CASE i = Len(chain') - f
    <3>1. f + i = h /\ i = Len(g) + 1
      BY <1>2, <1>3, <1>4, <2>1
    <3> QED BY <1>5, <3>1
  <2>2. CASE i # Len(chain') - f
    <3>1. i \in 1 .. Top - f /\ f + i \in 1 .. Top /\ i \in 1 .. Len(g)
      BY <1>2, <1>3, <1>4, <2>2
    <3> QED BY <1>4, <1>5, <3>1
  <2> QED BY <2>1, <2>2
<1> QED BY <1>6, <1>7 DEF IsGathered, all, g, f, r

\* The blocks that are in a chain are those of each round that ends below.
LEMMA WholeBelow ==
  ASSUME NEW c, NEW k, NEW n \in Nat, Len(c) \in Nat, Len(k) \in Nat, n <= Len(c), n <= Len(k),
         \A i \in 1 .. n : k[i] = c[i],
         NEW q, Before(q) \in Nat, Before(q) + N <= n, NEW u, NEW v
  PROVE  Whole(k, v, q) = Whole(c, u, q)
<1> DEFINE f == Before(q)
<1>0. N \in Nat \ {0}
  BY Constants
<1>1. \A i \in 1 .. N : f + i \in 1 .. n /\ f + i <= Len(c) /\ f + i <= Len(k)
  BY <1>0
<1> HIDE DEF f
<1>2. \A i \in 1 .. N : k[f + i] = c[f + i]
  BY <1>1
<1> QED BY <1>1, <1>2 DEF Whole, f

\* A block that is refused changes nothing but what is gathered.
LEMMA EarnedRefuse ==
  ASSUME Base, Earned, NEW b \in Block, ApplyBlock(b),
         ~Tick(db, gathered[RoundOf(Top + 1)], Top + 1, b, ListFor(Top + 1)).ok
  PROVE  Earned'
<1> DEFINE h == Top + 1
           r == RoundOf(h)
           g == gathered[r]
           l == ListFor(h)
           t == Tick(db, g, h, b, l)
<1>0. TypeOK /\ Shape /\ Booked /\ Gathers /\ Paid
  BY DEF Base, Earned
<1>1. /\ phase = "idle" /\ h \in 2 .. MaxHeight /\ r \in Rounds
      /\ g \in Seq(Entry) /\ l \in SUBSET Delegate
      /\ db' = t.db /\ gathered' = [gathered EXCEPT ![r] = t.gathered] /\ chain' = chain
  BY <1>0, ApplyIs
<1>2. h \in Nat \ {0} /\ db \in Db /\ b \in Block \cup {GenesisBlock}
      /\ gathered \in [Rounds -> Seq(Entry)]
  BY <1>0, <1>1, Types, Constants
<1>3. t.db = db /\ t.gathered = << >>
  <2>1. TickAll(g, h, b) \in Seq(Entry)
    <3> HIDE DEF g, h, l
    <3>1. t = Tick(db, g, h, b, l)
      OBVIOUS
    <3> HIDE DEF t
    <3> QED BY <1>1, <1>2, <3>1, TickCases
  <2> DEFINE all == TickAll(g, h, b)
  <2>2. Rewards(all) \in Nat /\ db.pool \in Nat
    <3> HIDE DEF all
    <3>1. all \in Seq(Entry)
      BY <2>1 DEF all
    <3> QED BY <1>2, <3>1, PayIs DEF Db
  <2>3. db.pool < Rewards(all) \/ db.pool >= Rewards(all)
    <3> HIDE DEF all
    <3> QED BY <2>2
  <2>4. /\ ~Settles(all, h) => t.ok
        /\ Settles(all, h) /\ db.pool >= Rewards(all) => t.ok
        /\ Settles(all, h) /\ db.pool < Rewards(all) => t.db = db /\ t.gathered = << >>
    <3> HIDE DEF g, h, l
    <3>1. t = Tick(db, g, h, b, l)
      OBVIOUS
    <3> HIDE DEF t
    <3> QED BY <1>1, <1>2, <3>1, TickCases
  <2> HIDE DEF all, t
  <2>5. ~t.ok
    BY DEF t
  <2> QED BY <2>3, <2>4, <2>5
<1>4. phase' = "idle" /\ oldTop' = oldTop /\ ungathered' = ungathered /\ lost'
      /\ unpaid' = unpaid
  <2> DEFINE ended == t.ok /\ h % N = 0
  <2>1. /\ lost' = (~ended /\ (lost \/ ~t.ok)) /\ unpaid' = (unpaid \/ (ended /\ lost))
        /\ UNCHANGED <<ungathered, phase, oldTop>>
    BY DEF ApplyBlock
  <2>2. ~t.ok /\ ~ended
    OBVIOUS
  <2>3. unpaid \in BOOLEAN
    BY <1>0, Types
  <2> HIDE DEF t, ended
  <2> QED BY <1>1, <2>1, <2>2, <2>3
<1>5. Top' = Top
  BY <1>1 DEF Top
<1> HIDE DEF t, g, l
<1>6. Booked'
  BY <1>0, <1>1, <1>3, <1>4, <1>5 DEF Booked
<1>7. Gathers'
  <2>1. \A q \in Rounds : Before(q) >= Top => gathered'[q] = << >>
    <3> HIDE DEF r, h
    <3> QED BY <1>0, <1>1, <1>2, <1>3 DEF Gathers
  <2> QED BY <1>4, <1>5, <2>1 DEF Gathers
<1>8. Ungathers' /\ Aimed'
  BY <1>4 DEF Ungathers, Aimed
<1>9. Paid'
  <2>1. High' = High
    BY <1>1, <1>4, <1>5 DEF High
  <2> QED BY <1>0, <1>1, <1>3, <1>4, <1>5, <2>1 DEF Paid, Settled
<1> QED BY <1>6, <1>7, <1>8, <1>9 DEF Earned

\* What an accepted block does to the chain and to what is gathered and paid.
LEMMA AcceptIs ==
  ASSUME Base, NEW b \in Block, ApplyBlock(b), NEW h, h = Top + 1, NEW r, r = RoundOf(h),
         NEW t, t = Tick(db, gathered[r], h, b, ListFor(h)), t.ok
  PROVE  /\ phase = "idle" /\ phase' = "idle" /\ h \in Nat \ {0} /\ h # 1 /\ r \in Rounds
         /\ Top \in Nat \ {0}
         /\ db \in Db /\ gathered \in [Rounds -> Seq(Entry)] /\ ListFor(h) \in SUBSET Delegate
         /\ b \in Block \cup {GenesisBlock}
         /\ db' = t.db /\ gathered' = [gathered EXCEPT ![r] = t.gathered]
         /\ ungathered \in [Rounds -> Seq(Entry)] /\ ungathered' = ungathered
         /\ chain \in Seq(Block \cup {GenesisBlock}) /\ chain' \in Seq(Block \cup {GenesisBlock})
         /\ Top' = h /\ Len(chain') = h /\ Len(chain) = Top /\ chain'[h] = b
         /\ \A i \in 1 .. Top : chain'[i] = chain[i]
         /\ h % N # 0 => lost' = lost /\ unpaid' = unpaid
         /\ h % N = 0 => ~lost' /\ (unpaid' <=> unpaid \/ lost)
<1>0. TypeOK /\ Shape
  BY DEF Base
<1>1. /\ phase = "idle" /\ h \in 2 .. MaxHeight /\ r \in Rounds
      /\ ListFor(h) \in SUBSET Delegate
      /\ db' = t.db /\ gathered' = [gathered EXCEPT ![r] = t.gathered]
      /\ chain' \in Seq(Block \cup {GenesisBlock})
      /\ Top' = h /\ chain'[h] = b /\ \A i \in 1 .. Top : chain'[i] = chain[i]
  BY <1>0, ApplyIs
<1>2. h \in Nat \ {0} /\ h # 1 /\ Top \in Nat \ {0}
  BY <1>0, <1>1, Constants DEF Shape, ChainOK
<1>3. /\ lost' = (~(t.ok /\ h % N = 0) /\ (lost \/ ~t.ok))
      /\ unpaid' = (unpaid \/ ((t.ok /\ h % N = 0) /\ lost))
      /\ UNCHANGED <<ungathered, phase>>
  BY DEF ApplyBlock
<1>4. lost \in BOOLEAN /\ unpaid \in BOOLEAN
  BY <1>0, Types
<1>5. h % N # 0 => lost' = lost /\ unpaid' = unpaid
  BY <1>3, <1>4
<1>6. h % N = 0 => ~lost' /\ (unpaid' <=> unpaid \/ lost)
  BY <1>3
<1>7. Len(chain') = h /\ Len(chain) = Top
  BY <1>1 DEF Top
<1>8. /\ db \in Db /\ gathered \in [Rounds -> Seq(Entry)] /\ ungathered \in [Rounds -> Seq(Entry)]
      /\ chain \in Seq(Block \cup {GenesisBlock})
  BY <1>0, Types
<1> QED BY <1>1, <1>2, <1>3, <1>5, <1>6, <1>7, <1>8

\* A block leaves the rounds as they are that have ended below it.
LEMMA AcceptSame ==
  ASSUME Base, NEW b \in Block, ApplyBlock(b), NEW h, h = Top + 1, NEW r, r = RoundOf(h),
         NEW t, t = Tick(db, gathered[r], h, b, ListFor(h)), t.ok
  PROVE  \A q \in SettledAt(Top, Top) : Whole(chain', ungathered'[q], q) = Whole(chain, ungathered[q], q)
<1>1. /\ phase = "idle" /\ phase' = "idle" /\ h \in Nat \ {0} /\ h # 1 /\ r \in Rounds
      /\ Top \in Nat \ {0}
      /\ db \in Db /\ gathered \in [Rounds -> Seq(Entry)] /\ ListFor(h) \in SUBSET Delegate
      /\ b \in Block \cup {GenesisBlock}
      /\ db' = t.db /\ gathered' = [gathered EXCEPT ![r] = t.gathered]
      /\ ungathered \in [Rounds -> Seq(Entry)] /\ ungathered' = ungathered
      /\ chain \in Seq(Block \cup {GenesisBlock}) /\ chain' \in Seq(Block \cup {GenesisBlock})
      /\ Top' = h /\ Len(chain') = h /\ Len(chain) = Top /\ chain'[h] = b
      /\ \A i \in 1 .. Top : chain'[i] = chain[i]
      /\ h % N # 0 => lost' = lost /\ unpaid' = unpaid
      /\ h % N = 0 => ~lost' /\ (unpaid' <=> unpaid \/ lost)
  BY AcceptIs
<1>2. /\ Before(r) \in Nat /\ Before(r) < h /\ h <= Before(r) + N
      /\ h % N = 0 <=> h = Before(r) + N
      /\ \A q \in Rounds : /\ Before(q) \in Nat
                           /\ q # r => Before(q) + N <= Before(r) \/ Before(r) + N <= Before(q)
  BY <1>1, Places
<1>4. \A q \in SettledAt(Top, Top) : Whole(chain', ungathered'[q], q) = Whole(chain, ungathered[q], q)
  <2> SUFFICES ASSUME NEW q \in SettledAt(Top, Top)
               PROVE  Whole(chain', ungathered'[q], q) = Whole(chain, ungathered[q], q)
    OBVIOUS
  <2>1. Before(q) \in Nat /\ Before(q) + N <= Top
    BY <1>2 DEF SettledAt
  <2> DEFINE k == chain'
             n == Top
             u == ungathered[q]
             v == ungathered'[q]
  <2>2. n \in Nat /\ Len(chain) \in Nat /\ Len(k) \in Nat /\ n <= Len(chain) /\ n <= Len(k)
        /\ (\A i \in 1 .. n : k[i] = chain[i]) /\ Before(q) \in Nat /\ Before(q) + N <= n
    BY <1>1, <2>1
  <2> HIDE DEF k, n, u, v
  <2>3. Whole(k, v, q) = Whole(chain, u, q)
    BY <2>2, WholeBelow
  <2> QED BY <2>3 DEF k, u, v
<1> QED BY <1>4

\* The blocks of a round that ends with an accepted one are those of the chain, unless some
\* were lost.
LEMMA AcceptWhole ==
  ASSUME Base, Gathers, NEW b \in Block, ApplyBlock(b), NEW h, h = Top + 1, NEW r, r = RoundOf(h),
         NEW t, t = Tick(db, gathered[r], h, b, ListFor(h)), t.ok, ~unpaid', h % N = 0,
         NEW all, all = TickAll(gathered[r], h, b)
  PROVE  /\ all \in Seq(Entry) /\ Len(all) = N /\ Settles(all, h)
         /\ Whole(chain', ungathered'[r], r) = all
<1> DEFINE g == gathered[r]
           k == chain'
           v == ungathered'
           w == Whole(k, v[r], r)
<1>0. TypeOK /\ Shape
  BY DEF Base
<1>1. /\ phase = "idle" /\ phase' = "idle" /\ h \in Nat \ {0} /\ h # 1 /\ r \in Rounds
      /\ Top \in Nat \ {0}
      /\ db \in Db /\ gathered \in [Rounds -> Seq(Entry)] /\ ListFor(h) \in SUBSET Delegate
      /\ b \in Block \cup {GenesisBlock}
      /\ db' = t.db /\ gathered' = [gathered EXCEPT ![r] = t.gathered]
      /\ ungathered \in [Rounds -> Seq(Entry)] /\ ungathered' = ungathered
      /\ chain \in Seq(Block \cup {GenesisBlock}) /\ chain' \in Seq(Block \cup {GenesisBlock})
      /\ Top' = h /\ Len(chain') = h /\ Len(chain) = Top /\ chain'[h] = b
      /\ \A i \in 1 .. Top : chain'[i] = chain[i]
      /\ h % N # 0 => lost' = lost /\ unpaid' = unpaid
      /\ h % N = 0 => ~lost' /\ (unpaid' <=> unpaid \/ lost)
  BY AcceptIs
<1>2. /\ Before(r) \in Nat /\ Before(r) < h /\ h <= Before(r) + N
      /\ h % N = 0 <=> h = Before(r) + N
      /\ \A q \in Rounds : /\ Before(q) \in Nat
                           /\ q # r => Before(q) + N <= Before(r) \/ Before(r) + N <= Before(q)
  BY <1>1, Places
<1>3. N \in Nat \ {0} /\ g \in Seq(Entry)
  BY <1>1, Constants
<1>4. ~lost
  BY <1>1
<1>5. IsGathered(all, chain', r)
  <2>1. chain'[Top + 1] = b /\ Len(chain') = Top + 1
    BY <1>1
  <2>2. IsGathered(TickAll(gathered[RoundOf(Top + 1)], Top + 1, b), chain', RoundOf(Top + 1))
    BY <1>0, <1>1, <1>4, <2>1, AllIs
  <2> QED BY <2>2
<1> HIDE DEF g
<1>6. all \in Seq(Entry) /\ Len(all) = N
      /\ \A i \in 1 .. N : all[i] = Gathered(Before(r) + i, k[Before(r) + i])
  <2>1. Len(all) = Len(chain') - Before(r)
        /\ \A i \in 1 .. Len(chain') - Before(r) : all[i] = Gathered(Before(r) + i, chain'[Before(r) + i])
    BY <1>5 DEF IsGathered
  <2>2. Len(chain') - Before(r) = N
    BY <1>1, <1>2, <1>3
  <2>3. all \in Seq(Entry)
    <3> DEFINE e == Gathered(h, b)
    <3>1. e \in Entry /\ all = Append(g, e)
      BY <1>1, GatheredIs DEF TickAll, g
    <3> HIDE DEF e
    <3> QED BY <1>3, <3>1
  <2> QED BY <2>1, <2>2, <2>3
<1>7. Settles(all, h)
  BY <1>1, <1>6, RoundEnds DEF Settles
<1>8. w = all
  <2>1. v[r] \in Seq(Entry) /\ Len(v[r]) \in Nat
    BY <1>1
  <2>2. r \in Nat \ {0}
    BY <1>1, RoundsOf
  <2>3. Len(v[r]) >= Before(r) + N - Len(k) /\ k \in Seq(Block \cup {GenesisBlock})
    BY <1>1, <1>2, <1>3, <2>1
  <2>4. \A i \in 1 .. N : w[i] = all[i]
    <3>1. \A i \in 1 .. N : Before(r) + i <= Len(k)
      BY <1>1, <1>2, <1>3
    <3>2. \A i \in 1 .. N : w[i] = Gathered(Before(r) + i, k[Before(r) + i])
      BY <3>1 DEF Whole
    <3> QED BY <1>6, <3>2
  <2> DEFINE x == v[r]
  <2>5. w = Whole(k, x, r) /\ x \in Seq(Entry) /\ Len(x) >= Before(r) + N - Len(k)
    BY <2>1, <2>3
  <2> HIDE DEF w, x, k, v
  <2>6. w \in Seq(Entry) /\ Len(w) = N
    BY <2>2, <2>3, <2>5, WholeIs
  <2> QED BY <1>6, <2>4, <2>6, SameList
<1> QED BY <1>6, <1>7, <1>8

\* An accepted block is one more in the books, and gathered or paid with its round.
LEMMA EarnedAccept ==
  ASSUME Base, Earned, NEW b \in Block, ApplyBlock(b), NEW h, h = Top + 1, NEW r, r = RoundOf(h),
         NEW t, t = Tick(db, gathered[r], h, b, ListFor(h)), t.ok
  PROVE  Earned'
<1> DEFINE g == gathered[r]
           l == ListFor(h)
           all == TickAll(g, h, b)
<1>0. TypeOK /\ Shape /\ Booked /\ Gathers /\ Paid
  BY DEF Base, Earned
<1>1. /\ phase = "idle" /\ phase' = "idle" /\ h \in Nat \ {0} /\ h # 1 /\ r \in Rounds
      /\ Top \in Nat \ {0}
      /\ db \in Db /\ gathered \in [Rounds -> Seq(Entry)] /\ l \in SUBSET Delegate
      /\ b \in Block \cup {GenesisBlock}
      /\ db' = t.db /\ gathered' = [gathered EXCEPT ![r] = t.gathered]
      /\ ungathered \in [Rounds -> Seq(Entry)] /\ ungathered' = ungathered
      /\ chain \in Seq(Block \cup {GenesisBlock}) /\ chain' \in Seq(Block \cup {GenesisBlock})
      /\ Top' = h /\ Len(chain') = h /\ Len(chain) = Top /\ chain'[h] = b
      /\ \A i \in 1 .. Top : chain'[i] = chain[i]
      /\ h % N # 0 => lost' = lost /\ unpaid' = unpaid
      /\ h % N = 0 => ~lost' /\ (unpaid' <=> unpaid \/ lost)
  BY AcceptIs
<1>2. /\ Before(r) \in Nat /\ Before(r) < h /\ h <= Before(r) + N
      /\ h % N = 0 <=> h = Before(r) + N
      /\ \A q \in Rounds : /\ Before(q) \in Nat
                           /\ q # r => Before(q) + N <= Before(r) \/ Before(r) + N <= Before(q)
  BY <1>1, Places
<1>3. N \in Nat \ {0} /\ g \in Seq(Entry)
  BY <1>1, Constants
<1>4. Booked'
  <2> SUFFICES ASSUME ~unpaid' PROVE BooksAt(db', chain', Top')
    BY DEF Booked
  <2>0. BooksAt(db, chain, Top)
    BY <1>0, <1>1 DEF Booked
  <2>1. BooksAt(db, chain', Top)
    <3> DEFINE k == chain'
               n == Top
    <3>1. \A i \in 1 .. n : k[i] = chain[i]
      BY <1>1
    <3>2. n \in Nat /\ BooksAt(db, chain, n)
      BY <1>1, <2>0
    <3> HIDE DEF k, n
    <3>3. BooksAt(db, k, n)
      BY <3>1, <3>2, BooksAgree
    <3> QED BY <3>3 DEF k, n
  <2>2. BooksAt(db, chain', h - 1)
    BY <1>1, <2>1
  <2>3. t = Tick(db, g, h, chain'[h], l) /\ chain'[h] \in Block \cup {GenesisBlock}
    BY <1>1
  <2> DEFINE k == chain'
  <2>4. k[h] \in Block \cup {GenesisBlock} /\ t = Tick(db, g, h, k[h], l) /\ BooksAt(db, k, h - 1)
        /\ RoundOf(h) \in Rounds
    BY <1>1, <2>2, <2>3
  <2> HIDE DEF k, g, l
  <2>5. BooksAt(t.db, k, h)
    BY <1>1, <1>3, <2>4, TickBooks
  <2> QED BY <1>1, <2>5 DEF k
<1>5. /\ ~Settles(all, h) => t.gathered = all /\ t.db.fees = db.fees /\ t.db.rewards = db.rewards
      /\ Settles(all, h)
           => /\ t.gathered = << >>
              /\ \A a \in Account : /\ t.db.fees[a] = db.fees[a] + FeesFor(all, a, Len(all))
                                    /\ t.db.rewards[a] = db.rewards[a] + RewardsFor(all, a)
  <2> HIDE DEF g, l
  <2>1. t = Tick(db, g, h, b, l) /\ RoundOf(h) \in Rounds
    BY <1>1 DEF g, l
  <2> QED BY <1>1, <1>3, <2>1, TickPays
<1>6. ~lost => IsGathered(all, chain', r)
  <2> SUFFICES ASSUME ~lost PROVE IsGathered(all, chain', r)
    OBVIOUS
  <2>1. chain'[Top + 1] = b /\ Len(chain') = Top + 1
    BY <1>1
  <2>2. IsGathered(TickAll(gathered[RoundOf(Top + 1)], Top + 1, b), chain', RoundOf(Top + 1))
    BY <1>0, <1>1, <2>1, AllIs
  <2> QED BY <2>2
<1> HIDE DEF all, g, l
<1>7. \A q \in Rounds : Before(q) >= h => gathered'[q] = << >>
  <2> SUFFICES ASSUME NEW q \in Rounds, Before(q) >= h PROVE gathered'[q] = << >>
    OBVIOUS
  <2>1. Before(q) >= Top /\ q # r
    BY <1>1, <1>2
  <2>2. gathered[q] = << >>
    BY <1>0, <1>1, <2>1 DEF Gathers
  <2> QED BY <1>1, <2>1, <2>2
<1>8. \A q \in Rounds : (Before(q) < h /\ h < Before(q) + N) => q = r /\ h % N # 0
  <2> SUFFICES ASSUME NEW q \in Rounds, Before(q) < h, h < Before(q) + N
               PROVE  q = r /\ h % N # 0
    OBVIOUS
  <2>1. q = r
    <3>1. Before(q) \in Nat /\ (q # r => Before(q) + N <= Before(r) \/ Before(r) + N <= Before(q))
      BY <1>2
    <3> QED BY <1>1, <1>2, <1>3, <3>1
  <2>2. h # Before(r) + N
    BY <1>1, <1>2, <1>3, <2>1
  <2> QED BY <1>2, <2>1, <2>2
<1>9. \A q \in SettledAt(Top, Top) : Whole(chain', ungathered'[q], q) = Whole(chain, ungathered[q], q)
  BY AcceptSame
<1>10. Settled = SettledAt(Top, Top) /\ Settled' = SettledAt(h, h)
  BY <1>1 DEF Settled, High
<1>11. Ungathers' /\ Aimed'
  BY <1>1 DEF Ungathers, Aimed
<1>12. /\ h % N # 0 => SettledAt(h, h) = SettledAt(Top, Top)
       /\ h % N = 0 => SettledAt(h, h) = SettledAt(Top, Top) \cup {r} /\ r \notin SettledAt(Top, Top)
  <2> DEFINE n == Top
  <2>1. n \in Nat \ {0} /\ h = n + 1
    BY <1>1
  <2> HIDE DEF n
  <2>2. /\ h % N # 0 => SettledAt(h, h) = SettledAt(n, n)
        /\ h % N = 0 => SettledAt(h, h) = SettledAt(n, n) \cup {r} /\ r \notin SettledAt(n, n)
    BY <1>1, <2>1, SettledGrows
  <2> QED BY <2>2 DEF n
<1>13. Gathers' /\ Paid'
  <2>1. CASE h % N # 0
    <3>1. ~Settles(all, h)
      BY <1>1, <2>1, RoundEnds DEF Settles
    <3>2. gathered'[r] = all
      BY <1>1, <1>5, <3>1
    <3>3. Gathers'
      BY <1>1, <1>6, <1>7, <1>8, <2>1, <3>2 DEF Gathers
    <3>4. Paid'
      <4> SUFFICES ASSUME ~unpaid' PROVE PaidAt(db', chain', ungathered', Settled')
        BY DEF Paid
      <4> DEFINE S == SettledAt(Top, Top)
                 k == chain'
                 v == ungathered'
      <4>1. PaidAt(db, chain, ungathered, S)
        BY <1>0, <1>1, <1>10, <2>1 DEF Paid
      <4>2. t.db.fees = db.fees /\ t.db.rewards = db.rewards
        BY <1>5, <3>1
      <4>3. \A q \in S : Whole(k, v[q], q) = Whole(chain, ungathered[q], q)
        BY <1>9
      <4> HIDE DEF S, k, v
      <4>4. PaidAt(t.db, k, v, S)
        BY <4>1, <4>2, <4>3, PaidSame
      <4> QED BY <1>1, <1>10, <1>12, <2>1, <4>4 DEF S, k, v
    <3> QED BY <3>3, <3>4
  <2>2. CASE h % N = 0
    <3>1. Gathers'
      BY <1>1, <1>7, <1>8, <2>2 DEF Gathers
    <3>2. Paid'
      <4> SUFFICES ASSUME ~unpaid' PROVE PaidAt(db', chain', ungathered', Settled')
        BY DEF Paid
      <4> DEFINE S == SettledAt(Top, Top)
                 k == chain'
                 v == ungathered'
                 w == Whole(k, v[r], r)
      <4>1. ~unpaid /\ ~lost
        BY <1>1, <2>2
      <4>2. PaidAt(db, chain, ungathered, S)
        BY <1>0, <1>10, <4>1 DEF Paid
      <4>3. /\ all \in Seq(Entry) /\ Len(all) = N /\ Settles(all, h) /\ w = all
        BY <1>0, <2>2, AcceptWhole DEF all, g
      <4>4. Settles(all, h)
        BY <4>3
      <4>5. w = all
        BY <4>3
      <4>6. IsOneMore(S, r, chain, ungathered, k, v)
        <5>1. IsFiniteSet(S) /\ r \notin S
          BY <1>12, <2>2, SettledFinite
        <5>2. \A q \in S : Whole(k, v[q], q) = Whole(chain, ungathered[q], q)
          BY <1>9
        <5>3. \A q \in S : Whole(k, v[q], q) \in Seq(Entry)
          <6> SUFFICES ASSUME NEW q \in S PROVE Whole(k, v[q], q) \in Seq(Entry)
            OBVIOUS
          <6> DEFINE x == v[q]
                     y == Whole(k, x, q)
          <6>1. q \in Nat \ {0} /\ q \in Rounds
            BY RoundsOf DEF SettledAt
          <6>2. x \in Seq(Entry) /\ Len(x) \in Nat
            BY <1>1, <6>1
          <6>3. Before(q) \in Nat /\ Before(q) + N <= Top
            BY <1>2 DEF SettledAt
          <6>4. Len(x) >= Before(q) + N - Len(k) /\ k \in Seq(Block \cup {GenesisBlock})
            BY <1>1, <1>3, <6>2, <6>3
          <6> HIDE DEF x, k, v, y
          <6>5. y = Whole(k, x, q)
            BY DEF y
          <6>6. y \in Seq(Entry)
            BY <6>1, <6>2, <6>4, <6>5, WholeIs
          <6> QED BY <6>6 DEF y, x
        <5>4. Whole(k, v[r], r) \in Seq(Entry)
          BY <4>3, <4>5
        <5> HIDE DEF S, k, v, w
        <5> QED BY <5>1, <5>2, <5>3, <5>4 DEF IsOneMore
      <4>7. \A a \in Account : /\ t.db.fees[a] = db.fees[a] + FeesFor(w, a, N)
                               /\ t.db.rewards[a] = db.rewards[a] + RewardsFor(w, a)
        BY <1>5, <4>3, <4>4, <4>5
      <4>8. PaidAt(t.db, k, v, S \cup {r})
        <5>1. w = Whole(k, v[r], r)
          OBVIOUS
        <5> HIDE DEF S, k, v, w
        <5> QED BY <4>2, <4>6, <4>7, <5>1, PaidMore
      <4> QED BY <1>1, <1>10, <1>12, <2>2, <4>8
    <3> QED BY <3>1, <3>2
  <2> QED BY <2>1, <2>2
<1> QED BY <1>4, <1>11, <1>13 DEF Earned

\* The tables that differ in mem_round only have the same books and pay.
LEMMA FlushedSame ==
  ASSUME TypeOK, NEW r \in Rounds, db' = [db EXCEPT !.memRound = Flushed(db.memRound, r)]
  PROVE  /\ db'.fees = db.fees /\ db'.rewards = db.rewards
         /\ \A c, h : BooksAt(db, c, h) => BooksAt(db', c, h)
<1> DEFINE t == db'
<1>1. db \in Db /\ t = [db EXCEPT !.memRound = Flushed(db.memRound, r)]
  BY Types
<1> HIDE DEF t
<1>2. /\ t.balance = db.balance /\ t.fees = db.fees /\ t.rewards = db.rewards
      /\ t.produced = db.produced
  BY <1>1, FlushIs
<1>3. \A c, h : BooksAt(db, c, h) => BooksAt(t, c, h)
  BY <1>2 DEF BooksAt
<1> QED BY <1>2, <1>3 DEF t

\* A synchronisation that begins keeps Earned.
LEMMA EarnedStart ==
  ASSUME Base, Earned, NEW common \in 1 .. MaxHeight, StartRollback(common)
  PROVE  Earned'
<1> DEFINE r == RoundOf(Top)
<1>0. TypeOK /\ Shape /\ Booked /\ Paid
  BY DEF Base, Earned
<1>1. /\ phase = "idle" /\ common \in 1 .. Top - 1
      /\ phase' = "popping" /\ target' = PopTo(common) /\ oldTop' = Top
      /\ db' = [db EXCEPT !.memRound = Flushed(db.memRound, r)]
      /\ chain' = chain /\ ungathered' = ungathered /\ unpaid' = unpaid
  BY DEF StartRollback
<1>2. Top \in Nat \ {0} /\ r \in Rounds /\ N \in Nat \ {0} /\ common \in Nat \ {0} /\ Top # 1
  <2>1. Top \in Nat \ {0} /\ Top \in 1 .. MaxHeight + 1 /\ N \in Nat \ {0}
    BY <1>0, Constants DEF Shape, ChainOK
  <2> HIDE DEF r
  <2>2. common \in Nat \ {0} /\ Top # 1
    BY <1>1, <2>1
  <2> QED BY <2>1, <2>2, RoundsOf DEF r
<1>3. Top' = Top
  BY <1>1 DEF Top
<1>4. /\ db'.fees = db.fees /\ db'.rewards = db.rewards /\ (~unpaid => BooksAt(db', chain, Top))
  <2> HIDE DEF r
  <2> QED BY <1>0, <1>1, <1>2, FlushedSame DEF Booked
<1>5. Booked'
  BY <1>1, <1>3, <1>4 DEF Booked
<1>6. Gathers'
  BY <1>1 DEF Gathers
<1>7. Ungathers'
  <2>1. \A q \in Rounds : Before(q) \in Nat
    <3> HIDE DEF r
    <3> QED BY <1>2, Places
  <2>2. \A q \in Rounds : Len(ungathered'[q]) = 0
    <3>1. ungathered' = Empty
      BY <1>0, <1>1 DEF Shape
    <3> QED BY <3>1, EmptyIs
  <2>3. \A q \in Rounds :
          (IF Before(q) + N <= Top THEN 0
           ELSE (IF Before(q) + N <= Top THEN Before(q) + N ELSE Top) - Top) = 0
    BY <1>2, <2>1
  <2> QED BY <1>1, <1>3, <2>2, <2>3 DEF Ungathers
<1>8. Aimed'
  <2>1. CASE RoundOf(Top) = RoundOf(common) /\ Top % N # 0
    <3>1. target' = common
      BY <1>1, <2>1 DEF PopTo
    <3> QED BY <1>1, <1>2, <1>3, <2>1, <3>1 DEF Aimed
  <2>2. CASE ~(RoundOf(Top) = RoundOf(common) /\ Top % N # 0) /\ RoundOf(common) = 1
    <3>1. target' = 1
      BY <1>1, <2>2 DEF PopTo
    <3> QED BY <1>2, <1>3, <3>1 DEF Aimed
  <2>3. CASE ~(RoundOf(Top) = RoundOf(common) /\ Top % N # 0) /\ RoundOf(common) # 1
    <3>1. target' = common - (common % N)
      BY <1>1, <2>3 DEF PopTo
    <3>2. (common - (common % N)) % N = 0
      <4> DEFINE k == common \div N
                 m == common % N
      <4>1. k \in Nat /\ m \in 0 .. N - 1 /\ common = k * N + m
        BY <1>2
      <4> HIDE DEF k, m
      <4>2. k * N \in Nat /\ common - m = k * N
        BY <1>2, <4>1
      <4>3. (k * N) % N = 0
        BY <1>2, <4>1
      <4> QED BY <4>2, <4>3 DEF m
    <3> QED BY <1>2, <1>3, <3>1, <3>2 DEF Aimed
  <2> QED BY <2>1, <2>2, <2>3
<1>9. Paid'
  <2> SUFFICES ASSUME ~unpaid' PROVE PaidAt(db', chain', ungathered', Settled')
    BY DEF Paid
  <2>1. Settled' = Settled
    BY <1>1, <1>3 DEF Settled, High
  <2>2. PaidAt(db, chain, ungathered, Settled)
    BY <1>0, <1>1 DEF Paid
  <2> DEFINE d == db'
             S == Settled
  <2>3. d.fees = db.fees /\ d.rewards = db.rewards /\ PaidAt(db, chain, ungathered, S)
    BY <1>4, <2>2
  <2> HIDE DEF d, S
  <2>4. PaidAt(d, chain, ungathered, S)
    BY <2>3, PaidSame
  <2> QED BY <1>1, <2>1, <2>4 DEF d, S
<1> QED BY <1>5, <1>6, <1>7, <1>8, <1>9 DEF Earned

\* A look at the list keeps Earned: it changes the cache only.
LEMMA EarnedLookUp ==
  ASSUME Earned, LookUp
  PROVE  Earned'
<1>1. UNCHANGED <<db, chain, gathered, ungathered, phase, target, oldTop, lost, unpaid>>
  BY DEF LookUp
<1> QED BY <1>1 DEF Earned, Booked, Gathers, Ungathers, Aimed, Paid, Settled, High, Top

\* When a synchronisation ends, the rounds that are paid are those that end in the chain.
LEMMA EndSettled ==
  ASSUME TypeOK, Shape, Aimed, EndRollback, ~unpaid
  PROVE  SettledAt(Top, oldTop) = SettledAt(Top, Top)
<1> DEFINE o == RoundOf(oldTop)
           r == RoundOf(Top)
<1>0. phase = "popping" /\ Top = target
  BY DEF EndRollback
<1>2. /\ Top \in Nat \ {0} /\ oldTop \in Nat \ {0} /\ N \in Nat \ {0} /\ o \in Rounds /\ Top <= oldTop
  <2>1. Top \in Nat \ {0} /\ oldTop \in 1 .. MaxHeight + 1 /\ N \in Nat \ {0} /\ oldTop \in Nat \ {0}
        /\ Top <= oldTop
    BY <1>0, Types, Constants DEF Shape, ChainOK
  <2> QED BY <2>1, RoundsOf
<1>4. /\ Before(r) \in Nat /\ Before(r) < Top /\ Top <= Before(r) + N
      /\ Top % N = 0 <=> Top = Before(r) + N
      /\ \A q \in Rounds : /\ Before(q) \in Nat
                           /\ q # r => Before(q) + N <= Before(r) \/ Before(r) + N <= Before(q)
  <2> DEFINE h == Top
  <2>1. h \in Nat \ {0} /\ r = RoundOf(h)
    BY <1>2
  <2> HIDE DEF h, r
  <2>2. /\ Before(r) \in Nat /\ Before(r) < h /\ h <= Before(r) + N
        /\ h % N = 0 <=> h = Before(r) + N
        /\ \A q \in Rounds : /\ Before(q) \in Nat
                             /\ q # r => Before(q) + N <= Before(r) \/ Before(r) + N <= Before(q)
    BY <2>1, Places
  <2> QED BY <2>2 DEF h
<1>5. /\ Before(o) \in Nat /\ oldTop <= Before(o) + N
      /\ oldTop % N = 0 <=> oldTop = Before(o) + N
  <2> DEFINE h == oldTop
  <2>1. h \in Nat \ {0} /\ o = RoundOf(h)
    BY <1>2
  <2> HIDE DEF h, o
  <2>2. /\ Before(o) \in Nat /\ h <= Before(o) + N
        /\ h % N = 0 <=> h = Before(o) + N
    BY <2>1, Places
  <2> QED BY <2>2 DEF h
<1>6. SettledAt(Top, oldTop) = SettledAt(Top, Top)
  <2> SUFFICES ASSUME NEW q \in Rounds
               PROVE  q \in SettledAt(Top, oldTop) <=> q \in SettledAt(Top, Top)
    BY DEF SettledAt
  <2>1. Before(q) \in Nat /\ (q # r => Before(q) + N <= Before(r) \/ Before(r) + N <= Before(q))
    BY <1>4
  <2>2. Top % N = 0 \/ (r = o /\ oldTop % N # 0)
    BY <1>0 DEF Aimed
  <2>3. CASE Top % N = 0
    <3>1. Top = Before(r) + N
      BY <1>4, <2>3
    <3> HIDE DEF r, o
    <3> QED BY <1>2, <1>4, <2>1, <3>1 DEF SettledAt
  <2>4. CASE r = o /\ oldTop % N # 0
    <3>1. oldTop < Before(r) + N
      <4> HIDE DEF r, o
      <4> QED BY <1>2, <1>5, <2>4
    <3> HIDE DEF r, o
    <3> QED BY <1>2, <1>4, <2>1, <3>1 DEF SettledAt
  <2> QED BY <2>2, <2>3, <2>4
<1> QED BY <1>6

\* The end of a synchronisation keeps Earned: the rounds that are paid are those that are
\* finished.
LEMMA EarnedEnd ==
  ASSUME Base, Earned, EndRollback
  PROVE  Earned'
<1> DEFINE o == RoundOf(oldTop)
           r == RoundOf(Top)
<1>0. TypeOK /\ Shape /\ Booked /\ Paid /\ Aimed
  BY DEF Base, Earned
<1>1. /\ phase = "popping" /\ Top = target /\ phase' = "idle" /\ ungathered' = Empty
      /\ db' = [db EXCEPT !.memRound = Flushed(db.memRound, o)]
      /\ lost' = (Top % N # 0)
      /\ chain' = chain /\ gathered' = gathered /\ unpaid' = unpaid
  BY DEF EndRollback
<1>2. /\ Top \in Nat \ {0} /\ oldTop \in Nat \ {0} /\ N \in Nat \ {0} /\ o \in Rounds /\ Top <= oldTop
  <2>1. Top \in Nat \ {0} /\ oldTop \in 1 .. MaxHeight + 1 /\ N \in Nat \ {0} /\ oldTop \in Nat \ {0}
        /\ Top <= oldTop
    BY <1>0, <1>1, Types, Constants DEF Shape, ChainOK
  <2> QED BY <2>1, RoundsOf
<1>3. Top' = Top
  BY <1>1 DEF Top
<1>4. /\ Before(r) \in Nat /\ Before(r) < Top /\ Top <= Before(r) + N
      /\ Top % N = 0 <=> Top = Before(r) + N
      /\ \A q \in Rounds : /\ Before(q) \in Nat
                           /\ q # r => Before(q) + N <= Before(r) \/ Before(r) + N <= Before(q)
  <2> DEFINE h == Top
  <2>1. h \in Nat \ {0} /\ r = RoundOf(h)
    BY <1>2
  <2> HIDE DEF h, r
  <2>2. /\ Before(r) \in Nat /\ Before(r) < h /\ h <= Before(r) + N
        /\ h % N = 0 <=> h = Before(r) + N
        /\ \A q \in Rounds : /\ Before(q) \in Nat
                             /\ q # r => Before(q) + N <= Before(r) \/ Before(r) + N <= Before(q)
    BY <2>1, Places
  <2> QED BY <2>2 DEF h
<1>6. /\ db'.fees = db.fees /\ db'.rewards = db.rewards /\ (~unpaid => BooksAt(db', chain, Top))
  <2> HIDE DEF o
  <2> QED BY <1>0, <1>1, <1>2, FlushedSame DEF Booked
<1>7. Booked'
  BY <1>1, <1>3, <1>6 DEF Booked
<1>8. Gathers'
  <2>1. \A q \in Rounds : gathered'[q] = << >>
    <3>1. gathered' = Empty
      BY <1>0, <1>1 DEF Shape
    <3> QED BY <3>1, EmptyIs
  <2>2. ASSUME NEW q \in Rounds, Top % N = 0, Before(q) < Top, Top < Before(q) + N PROVE FALSE
    <3>1. Top = Before(r) + N
      BY <1>4, <2>2
    <3>2. Before(q) \in Nat /\ (q # r => Before(q) + N <= Before(r) \/ Before(r) + N <= Before(q))
      BY <1>4
    <3> HIDE DEF r
    <3> QED BY <1>2, <1>4, <2>2, <3>1, <3>2
  <2> QED BY <1>1, <1>3, <2>1, <2>2 DEF Gathers
<1>9. Ungathers' /\ Aimed'
  BY <1>1 DEF Ungathers, Aimed
<1>10. ~unpaid => SettledAt(Top, oldTop) = SettledAt(Top, Top)
  BY <1>0, EndSettled
<1>11. Paid'
  <2> SUFFICES ASSUME ~unpaid' PROVE PaidAt(db', chain', ungathered', Settled')
    BY DEF Paid
  <2> DEFINE S == SettledAt(Top, Top)
             d == db'
             v == ungathered'
  <2>1. Settled = SettledAt(Top, oldTop) /\ Settled' = S
    BY <1>1, <1>3 DEF Settled, High
  <2>2. PaidAt(db, chain, ungathered, S)
    BY <1>0, <1>1, <1>10, <2>1 DEF Paid
  <2>3. \A q \in S : Whole(chain, v[q], q) = Whole(chain, ungathered[q], q)
    <3> SUFFICES ASSUME NEW q \in S PROVE Whole(chain, v[q], q) = Whole(chain, ungathered[q], q)
      OBVIOUS
    <3> DEFINE n == Top
               u == ungathered[q]
               w == v[q]
    <3>1. n \in Nat /\ Len(chain) \in Nat /\ n <= Len(chain) /\ (\A i \in 1 .. n : chain[i] = chain[i])
          /\ Before(q) \in Nat /\ Before(q) + N <= n
      BY <1>2, <1>4 DEF SettledAt, Top
    <3> HIDE DEF n, u, w
    <3>2. Whole(chain, w, q) = Whole(chain, u, q)
      BY <3>1, WholeBelow
    <3> QED BY <3>2 DEF w, u
  <2>4. d.fees = db.fees /\ d.rewards = db.rewards
    BY <1>6
  <2> HIDE DEF S, d, v
  <2>5. PaidAt(d, chain, v, S)
    BY <2>2, <2>3, <2>4, PaidSame
  <2> QED BY <1>1, <2>1, <2>5 DEF d, v
<1> QED BY <1>7, <1>8, <1>9, <1>11 DEF Earned

\* If the tables are not damaged, nothing was popped yet.
LEMMA RestartHigh ==
  ASSUME TypeOK, Shape, InterruptionIsSeen, ~MissingBlock
  PROVE  High = Top
<1>1. CASE phase = "idle"
  BY <1>1 DEF High
<1>2. CASE phase = "popping"
  <2>1. ~(Top < oldTop) /\ Top <= oldTop /\ oldTop \in Nat /\ Top \in Nat
    BY <1>2, Types, Constants DEF InterruptionIsSeen, Shape, ChainOK
  <2>2. oldTop = Top
    BY <2>1
  <2> QED BY <1>2, <2>2 DEF High
<1> QED BY <1>1, <1>2, Types

\* A restart keeps Earned: the blocks that are applied again, or the tables as they are.
LEMMA EarnedRestart ==
  ASSUME Base, Earned, Restart
  PROVE  Earned'
<1>0. TypeOK /\ Shape /\ InterruptionIsSeen /\ Booked /\ Paid
  BY DEF Base, Earned
<1>1. /\ gathered' = GatheredFrom(chain) /\ ungathered' = Empty
      /\ phase' = "idle" /\ chain' = chain
      /\ MissingBlock => db' = Replayed.db /\ unpaid' = (~Replayed.ok \/ Top >= N)
      /\ ~MissingBlock => db' = db /\ unpaid' = unpaid
  BY DEF Restart
<1>2. Top' = Top /\ Top \in Nat \ {0} /\ N \in Nat \ {0} /\ ChainOK /\ db \in Db
      /\ Len(chain) = Top
  BY <1>0, <1>1, Types, Constants DEF Top, Shape, ChainOK
<1>3. Gathers'
  <2> DEFINE g == gathered'
  <2>1. \A q \in Rounds : /\ Before(q) >= Top => g[q] = << >>
                          /\ (Before(q) < Top /\ Top < Before(q) + N) => IsGathered(g[q], chain, q)
    <3>1. g = GatheredFrom(chain)
      BY <1>1
    <3> HIDE DEF g
    <3> QED BY <1>2, <3>1, GathersFrom
  <2> QED BY <1>1, <1>2, <2>1 DEF Gathers
<1>4. Ungathers' /\ Aimed'
  BY <1>1 DEF Ungathers, Aimed
<1>5. Settled' = SettledAt(Top, Top)
  BY <1>1, <1>2 DEF Settled, High
<1>6. CASE MissingBlock
  <2>1. ~unpaid' => BooksAt(db', chain', Top') /\ (Top < N => Clean(db'))
    BY <1>1, <1>2, <1>6, ReplayedBooks
  <2>2. Paid'
    <3> SUFFICES ASSUME ~unpaid' PROVE PaidAt(db', chain', ungathered', Settled')
      BY DEF Paid
    <3>1. Top < N
      <4>1. ~(Top >= N)
        BY <1>1, <1>6
      <4> QED BY <1>2, <4>1
    <3>2. \A q \in Rounds : Before(q) \in Nat
      <4> DEFINE h == Top
                 r == RoundOf(h)
      <4>1. h \in Nat \ {0} /\ r = RoundOf(h)
        BY <1>2
      <4> HIDE DEF h, r
      <4> QED BY <4>1, Places
    <3>3. SettledAt(Top, Top) = {}
      BY <1>2, <3>1, <3>2 DEF SettledAt
    <3> DEFINE d == db'
               v == ungathered'
    <3>4. Clean(d)
      BY <2>1, <3>1
    <3> HIDE DEF d, v
    <3>5. PaidAt(d, chain, v, {})
      BY <3>4, PaidNone
    <3> QED BY <1>1, <1>5, <3>3, <3>5 DEF d, v
  <2> QED BY <1>3, <1>4, <2>1, <2>2 DEF Earned, Booked
<1>7. CASE ~MissingBlock
  <2>1. db' = db /\ unpaid' = unpaid
    BY <1>1, <1>7
  <2>2. Booked'
    BY <1>0, <1>1, <1>2, <2>1 DEF Booked
  <2>3. High = Top
    BY <1>0, <1>7, RestartHigh
  <2>4. Paid'
    <3> SUFFICES ASSUME ~unpaid' PROVE PaidAt(db', chain', ungathered', Settled')
      BY DEF Paid
    <3> DEFINE S == SettledAt(Top, Top)
               v == ungathered'
    <3>1. PaidAt(db, chain, ungathered, S)
      BY <1>0, <2>1, <2>3 DEF Paid, Settled
    <3>2. \A q \in S : Whole(chain, v[q], q) = Whole(chain, ungathered[q], q)
      <4> SUFFICES ASSUME NEW q \in S PROVE Whole(chain, v[q], q) = Whole(chain, ungathered[q], q)
        OBVIOUS
      <4> DEFINE n == Top
                 u == ungathered[q]
                 w == v[q]
                 r == RoundOf(n)
      <4>1. n \in Nat \ {0} /\ r = RoundOf(n) /\ q \in Rounds /\ Before(q) + N <= n
        BY <1>2 DEF SettledAt
      <4>2. n \in Nat /\ Len(chain) \in Nat /\ n <= Len(chain) /\ (\A i \in 1 .. n : chain[i] = chain[i])
        BY <1>2
      <4> HIDE DEF n, u, w, r
      <4>3. Before(q) \in Nat
        BY <4>1, Places
      <4>4. Whole(chain, w, q) = Whole(chain, u, q)
        BY <4>1, <4>2, <4>3, WholeBelow
      <4> QED BY <4>4 DEF w, u
    <3> HIDE DEF S, v
    <3>3. PaidAt(db, chain, v, S)
      BY <3>1, <3>2, PaidSame
    <3> QED BY <1>1, <1>5, <2>1, <3>3 DEF S, v
  <2> QED BY <1>3, <1>4, <2>2, <2>4 DEF Earned
<1> QED BY <1>6, <1>7

\* Where the top of the chain is in the rounds, and what is popped there.
PopShape(r, u, un) ==
  /\ N \in Nat \ {0} /\ r \in Rounds /\ Before(r) \in Nat /\ Before(r) < Top /\ Top <= Before(r) + N
  /\ \A q \in Rounds : /\ Before(q) \in Nat
                       /\ q # r => Before(q) + N <= Before(r) \/ Before(r) + N <= Before(q)
  /\ Top \in Nat \ {0, 1} /\ Len(chain) = Top /\ Len(chain') = Top - 1 /\ Top' = Top - 1
  /\ oldTop \in Nat /\ Top <= oldTop
  /\ u \in Seq(Entry) /\ un \in Seq(Entry) /\ Len(u) \in Nat /\ Len(un) = Len(u) + 1
  /\ un[Len(u) + 1] = Gathered(Top, chain[Top]) /\ \A i \in 1 .. Len(u) : un[i] = u[i]
  /\ \A i \in 1 .. Top - 1 : chain'[i] = chain[i]
  /\ chain \in Seq(Block \cup {GenesisBlock}) /\ chain' \in Seq(Block \cup {GenesisBlock})

\* The shape of the pop.
LEMMA PopShapes ==
  ASSUME TypeOK, Shape, PopBlock, NEW r, r = RoundOf(Top), NEW u, u = ungathered[r]
  PROVE  PopShape(r, u, PopUn)
<1>1. /\ phase = "popping" /\ Top \in 2 .. MaxHeight
      /\ r \in Rounds /\ chain[Top] \in Block /\ PopUn \in Seq(Entry)
      /\ chain' \in Seq(Block \cup {GenesisBlock}) /\ Top' = Top - 1
      /\ \A h \in 1 .. Top - 1 : chain'[h] = chain[h]
  BY PopIs
<1>2. Top \in Nat \ {0, 1} /\ N \in Nat \ {0} /\ oldTop \in Nat /\ Top <= oldTop
      /\ u \in Seq(Entry) /\ chain \in Seq(Block \cup {GenesisBlock})
  <2>1. ungathered \in [Rounds -> Seq(Entry)] /\ chain \in Seq(Block \cup {GenesisBlock})
        /\ oldTop \in Nat /\ N \in Nat \ {0}
    BY Types, Constants
  <2>2. u \in Seq(Entry)
    BY <1>1, <2>1
  <2>3. Top \in Nat \ {0, 1} /\ Top <= oldTop
    BY <1>1, Constants DEF Shape
  <2> QED BY <2>1, <2>2, <2>3
<1>3. Len(u) \in Nat /\ Len(chain) = Top /\ Len(chain') = Top - 1
  BY <1>1, <1>2 DEF Top
<1>4. /\ Before(r) \in Nat /\ Before(r) < Top /\ Top <= Before(r) + N
      /\ \A q \in Rounds : /\ Before(q) \in Nat
                           /\ q # r => Before(q) + N <= Before(r) \/ Before(r) + N <= Before(q)
  <2> DEFINE h == Top
  <2>1. h \in Nat \ {0} /\ r = RoundOf(h)
    BY <1>2
  <2> HIDE DEF h
  <2>2. /\ Before(r) \in Nat /\ Before(r) < h /\ h <= Before(r) + N
        /\ \A q \in Rounds : /\ Before(q) \in Nat
                             /\ q # r => Before(q) + N <= Before(r) \/ Before(r) + N <= Before(q)
    BY <2>1, Places
  <2> QED BY <2>2 DEF h
<1>5. /\ Len(PopUn) = Len(u) + 1 /\ PopUn[Len(u) + 1] = Gathered(Top, chain[Top])
      /\ \A i \in 1 .. Len(u) : PopUn[i] = u[i]
  <2> DEFINE e == Gathered(Top, chain[Top])
  <2>1. e \in Entry
    BY <1>1, <1>2, GatheredIs
  <2>2. PopUn = Append(u, e)
    BY DEF PopUn
  <2> HIDE DEF e
  <2>3. /\ Len(Append(u, e)) = Len(u) + 1 /\ Append(u, e)[Len(u) + 1] = e
        /\ \A i \in 1 .. Len(u) : Append(u, e)[i] = u[i]
    BY <1>2, <2>1, AppendIs
  <2> QED BY <2>2, <2>3 DEF e
<1> QED BY <1>1, <1>2, <1>3, <1>4, <1>5 DEF PopShape

\* The popped block takes its place among the blocks of its round.
LEMMA WholePopped ==
  ASSUME NEW r, NEW u, NEW un, PopShape(r, u, un), Len(u) = Before(r) + N - Top
  PROVE  Whole(chain', un, r) = Whole(chain, u, r)
<1> DEFINE f == Before(r)
<1>0. /\ N \in Nat \ {0} /\ f \in Nat /\ f < Top /\ Top <= f + N
      /\ Top \in Nat \ {0, 1} /\ Len(chain) = Top /\ Len(chain') = Top - 1
      /\ Len(u) \in Nat
      /\ un[Len(u) + 1] = Gathered(Top, chain[Top]) /\ (\A i \in 1 .. Len(u) : un[i] = u[i])
      /\ \A i \in 1 .. Top - 1 : chain'[i] = chain[i]
  BY DEF PopShape
<1>00. Len(u) = f + N - Top
  OBVIOUS
<1> HIDE DEF f
<1> SUFFICES ASSUME NEW i \in 1 .. N
             PROVE  (IF f + i <= Len(chain') THEN Gathered(f + i, chain'[f + i]) ELSE un[N + 1 - i])
                      = (IF f + i <= Len(chain) THEN Gathered(f + i, chain[f + i]) ELSE u[N + 1 - i])
  BY DEF Whole, f
<1>1. CASE f + i <= Top - 1
  <2>1. f + i \in 1 .. Top - 1 /\ f + i <= Len(chain') /\ f + i <= Len(chain)
    BY <1>0, <1>1
  <2> QED BY <1>0, <2>1
<1>2. CASE f + i = Top
  <2>1. ~(f + i <= Len(chain')) /\ f + i <= Len(chain) /\ N + 1 - i = Len(u) + 1
    BY <1>0, <1>00, <1>2
  <2> QED BY <1>0, <1>2, <2>1
<1>3. CASE f + i > Top
  <2>1. ~(f + i <= Len(chain')) /\ ~(f + i <= Len(chain)) /\ N + 1 - i \in 1 .. Len(u)
    BY <1>0, <1>00, <1>3
  <2> QED BY <1>0, <2>1
<1>4. f + i <= Top - 1 \/ f + i = Top \/ f + i > Top
  BY <1>0
<1> QED BY <1>1, <1>2, <1>3, <1>4

\* When the first block of a round is popped, the popped blocks are those of the round, the
\* last one first.
LEMMA WholeBack ==
  ASSUME NEW r, NEW u, NEW un, PopShape(r, u, un), Before(r) = Top - 1, Len(u) = N - 1,
         NEW w, w = Whole(chain, u, r)
  PROVE  /\ w \in Seq(Entry) /\ Len(w) = N /\ Len(un) = N
         /\ \A i \in 1 .. N : un[i] = w[N + 1 - i]
<1> DEFINE f == Before(r)
<1>0. /\ N \in Nat \ {0} /\ f \in Nat /\ r \in Rounds /\ u \in Seq(Entry)
      /\ chain \in Seq(Block \cup {GenesisBlock})
      /\ Top \in Nat \ {0, 1} /\ Len(chain) = Top
      /\ Len(u) \in Nat /\ Len(un) = Len(u) + 1
      /\ un[Len(u) + 1] = Gathered(Top, chain[Top]) /\ \A i \in 1 .. Len(u) : un[i] = u[i]
  BY DEF PopShape
<1>1. w \in Seq(Entry) /\ Len(w) = N
  <2>1. r \in Nat \ {0}
    BY <1>0, RoundsOf
  <2>2. Len(u) >= Before(r) + N - Len(chain)
    BY <1>0
  <2> QED BY <1>0, <2>1, <2>2, WholeIs
<1>2. \A i \in 1 .. N : w[i] = IF f + i <= Len(chain) THEN Gathered(f + i, chain[f + i]) ELSE u[N + 1 - i]
  BY DEF Whole
<1>00. f = Top - 1
  OBVIOUS
<1> HIDE DEF f
<1>3. ASSUME NEW i \in 1 .. N PROVE un[i] = w[N + 1 - i]
  <2> DEFINE j == N + 1 - i
  <2>0. j \in 1 .. N /\ N + 1 - j = i
    BY <1>0
  <2>1. CASE i = N
    <3>1. j = 1 /\ f + j = Top /\ i = Len(u) + 1
      BY <1>0, <1>00, <2>1
    <3> HIDE DEF j
    <3>2. w[j] = Gathered(Top, chain[Top])
      BY <1>0, <1>2, <2>0, <3>1
    <3> QED BY <1>0, <3>1, <3>2 DEF j
  <2>2. CASE i # N
    <3>1. ~(f + j <= Len(chain)) /\ i \in 1 .. Len(u)
      BY <1>0, <1>00, <2>2
    <3> HIDE DEF j
    <3>2. w[j] = u[N + 1 - j]
      BY <1>2, <2>0, <3>1
    <3> QED BY <1>0, <2>0, <3>1, <3>2 DEF j
  <2> QED BY <2>1, <2>2
<1>4. Len(un) = N
  BY <1>0
<1> QED BY <1>1, <1>3, <1>4

\* The first height of a round is one after the last of the round before.
LEMMA FirstHeight ==
  ASSUME NEW h \in Nat \ {0}, NEW k, k = h + 1, NEW r, r = RoundOf(k)
  PROVE  RoundOf(h) # r <=> Before(r) = h
<1> DEFINE s == RoundOf(h)
<1>1. k \in Nat \ {0} /\ N \in Nat \ {0}
  BY Constants
<1>2. s \in Nat \ {0} /\ Before(s) < h /\ h <= Before(s) + N
  BY RoundFacts
<1>3. r \in Nat \ {0} /\ Before(r) < k /\ k <= Before(r) + N
  BY <1>1, RoundFacts
<1>4. Before(r) \in Nat /\ Before(s) \in Nat
  BY <1>2, <1>3, RoundFacts
<1>5. r < s => Before(r) + N <= Before(s)
  BY <1>2, <1>3, RoundFacts
<1>6. s < r => Before(s) + N <= Before(r)
  BY <1>2, <1>3, RoundFacts
<1> HIDE DEF s
<1>7. r = s \/ r < s \/ s < r
  BY <1>2, <1>3
<1>8. s # r <=> Before(r) = h
  BY <1>1, <1>2, <1>3, <1>4, <1>5, <1>6, <1>7
<1> QED BY <1>8 DEF s

\* A popped block is taken out of the books.
LEMMA PopBooks ==
  ASSUME Base, BooksAt(db, chain, Top), PopBlock
  PROVE  BooksAt(db', chain', Top')
<1> DEFINE r == RoundOf(Top)
           undone == PopUndone
           back == PopBack
           un == PopUn
           h == Top
           k == Top - 1
           one == 1
           minus == -1
           l == ListFor(Top)
           t == db'
<1>0. TypeOK /\ Shape
  BY DEF Base
<1>1. /\ Top \in 2 .. MaxHeight /\ undone \in Db /\ back \in Db /\ t \in Db
      /\ IsProduced(undone, db, chain[h], r, minus, h)
      /\ PopSettles => IsSettled(back, undone, un, one, minus, l, r, h)
      /\ ~PopSettles => back = undone
      /\ t.balance = back.balance /\ t.fees = back.fees
      /\ t.rewards = back.rewards /\ t.produced = back.produced
      /\ Top' = k /\ \A i \in 1 .. k : chain'[i] = chain[i]
  BY <1>0, PopIs
<1>2. db \in Db /\ h \in Nat \ {0} /\ k \in Nat /\ k = h - 1
  BY <1>0, <1>1, Types, Constants
<1> HIDE DEF r, undone, back, un, minus, one, l, t, k
<1>3. BooksAt(undone, chain, k)
  <2>1. minus = -1 /\ BooksAt(db, chain, h)
    BY DEF minus
  <2> HIDE DEF h
  <2>2. BooksAt(undone, chain, h - 1)
    BY <1>1, <1>2, <2>1, PoppedBooks
  <2> QED BY <1>2, <2>2
<1>4. BooksAt(back, chain, k)
  <2>1. CASE PopSettles
    <3>1. IsSettled(back, undone, un, one, minus, l, r, h)
      BY <1>1, <2>1
    <3> HIDE DEF h
    <3> QED BY <1>1, <1>2, <1>3, <3>1, SettledBooks
  <2>2. CASE ~PopSettles
    BY <1>1, <1>3, <2>2
  <2> QED BY <2>1, <2>2
<1>5. BooksAt(t, chain, k)
  BY <1>1, <1>4 DEF BooksAt
<1>6. BooksAt(t, chain', k)
  <2> DEFINE c == chain'
  <2>1. \A i \in 1 .. k : c[i] = chain[i]
    BY <1>1
  <2> HIDE DEF c
  <2>2. BooksAt(t, c, k)
    BY <1>2, <1>5, <2>1, BooksAgree
  <2> QED BY <2>2 DEF c
<1> QED BY <1>1, <1>6 DEF t

\* When a pop settles its round, and how many blocks of it are popped then.
LEMMA PopCases ==
  ASSUME Base, Ungathers, PopBlock, ~unpaid', NEW r, r = RoundOf(Top), NEW u, u = ungathered[r]
  PROVE  /\ ~unpaid /\ phase = "popping" /\ PopShape(r, u, PopUn)
         /\ Len(u) = IF Before(r) + N <= Top THEN 0
                     ELSE (IF Before(r) + N <= oldTop THEN Before(r) + N ELSE oldTop) - Top
         /\ PopSettles <=> (Before(r) = Top - 1 /\ Before(r) + N <= oldTop)
<1>0. TypeOK /\ Shape /\ ungathered \in [Rounds -> Seq(Entry)]
  BY Types DEF Base
<1>1. PopShape(r, u, PopUn) /\ phase = "popping"
  BY <1>0, PopShapes, PopIs
<1>2. ~unpaid /\ Top # 2
  BY DEF PopBlock
<1>3. /\ N \in Nat \ {0} /\ r \in Rounds /\ Before(r) \in Nat /\ Before(r) < Top /\ Top <= Before(r) + N
      /\ Top \in Nat \ {0, 1} /\ oldTop \in Nat /\ Top <= oldTop
      /\ Len(u) \in Nat /\ Len(PopUn) = Len(u) + 1
  BY <1>1 DEF PopShape
<1>4. Len(u) = IF Before(r) + N <= Top THEN 0
               ELSE (IF Before(r) + N <= oldTop THEN Before(r) + N ELSE oldTop) - Top
  BY <1>1, <1>2, <1>3 DEF Ungathers
<1>5. RoundOf(Top - 1) # r <=> Before(r) = Top - 1
  <2> DEFINE h == Top - 1
             k == Top
  <2>1. h \in Nat \ {0} /\ k = h + 1 /\ r = RoundOf(k)
    BY <1>3
  <2> HIDE DEF h, k
  <2>2. RoundOf(h) # r <=> Before(r) = h
    BY <2>1, FirstHeight
  <2> QED BY <2>2 DEF h
<1>6. PopSettles <=> (Before(r) = Top - 1 /\ Len(PopUn) = N)
  BY <1>2, <1>5 DEF PopSettles
<1>7. Before(r) = Top - 1 => (Len(PopUn) = N <=> Before(r) + N <= oldTop)
  <2> DEFINE f == Before(r)
             m == Len(u)
             n == Len(PopUn)
             h == Top
  <2>1. /\ N \in Nat \ {0} /\ f \in Nat /\ f < h /\ h <= f + N /\ h \in Nat /\ oldTop \in Nat
        /\ h <= oldTop /\ n = m + 1
        /\ m = IF f + N <= h THEN 0 ELSE (IF f + N <= oldTop THEN f + N ELSE oldTop) - h
    BY <1>3, <1>4
  <2> HIDE DEF f, m, n, h
  <2>2. f = h - 1 => (n = N <=> f + N <= oldTop)
    BY <2>1
  <2> QED BY <2>2 DEF f, n, h
<1> QED BY <1>1, <1>2, <1>4, <1>6, <1>7

\* The popped blocks of each round that has some left are as many as Ungathers says.
LEMMA UngathersPop ==
  ASSUME Base, Ungathers, PopBlock
  PROVE  Ungathers'
<1> DEFINE r == RoundOf(Top)
           u == ungathered[r]
           un == PopUn
           n == IF PopSettles THEN << >> ELSE un
<1>0. TypeOK /\ Shape
  BY DEF Base
<1> SUFFICES ASSUME ~unpaid', NEW q \in Rounds, Before(q) < Top'
             PROVE  Len(ungathered'[q]) = IF Before(q) + N <= Top' THEN 0
                      ELSE (IF Before(q) + N <= oldTop' THEN Before(q) + N ELSE oldTop') - Top'
  BY DEF Ungathers
<1>1. ungathered' = [ungathered EXCEPT ![r] = n] /\ ungathered \in [Rounds -> Seq(Entry)]
  BY <1>0, PopIs, Types
<1>2. oldTop' = oldTop
  BY DEF PopBlock
<1>3. /\ ~unpaid /\ phase = "popping" /\ PopShape(r, u, un)
      /\ Len(u) = IF Before(r) + N <= Top THEN 0
                  ELSE (IF Before(r) + N <= oldTop THEN Before(r) + N ELSE oldTop) - Top
      /\ PopSettles <=> (Before(r) = Top - 1 /\ Before(r) + N <= oldTop)
  BY PopCases
<1>4. /\ N \in Nat \ {0} /\ r \in Rounds /\ Before(r) \in Nat /\ Before(r) < Top /\ Top <= Before(r) + N
      /\ Before(q) \in Nat /\ (q # r => Before(q) + N <= Before(r) \/ Before(r) + N <= Before(q))
      /\ Top \in Nat \ {0, 1} /\ Top' = Top - 1
      /\ oldTop \in Nat /\ Top <= oldTop /\ Len(u) \in Nat /\ Len(un) = Len(u) + 1
  BY <1>3 DEF PopShape
<1>5. CASE q # r
  <2>1. ungathered'[q] = ungathered[q]
    BY <1>1, <1>5
  <2>2. Before(q) + N <= Top' /\ Before(q) < Top /\ Before(q) + N <= Top
    <3> HIDE DEF r
    <3> QED BY <1>4, <1>5
  <2>3. Len(ungathered[q]) = 0
    BY <1>3, <2>2 DEF Ungathers
  <2> QED BY <2>1, <2>2, <2>3
<1>6. CASE q = r
  <2>1. ~PopSettles
    <3> HIDE DEF r, u, un
    <3> QED BY <1>3, <1>4, <1>6
  <2>2. ungathered'[q] = un
    <3> HIDE DEF r, u, un
    <3> QED BY <1>1, <1>6, <2>1
  <2> DEFINE f == Before(q)
             m == Len(u)
             k == Len(un)
             h == Top
             j == Top'
             e == oldTop
  <2>3. /\ N \in Nat \ {0} /\ f \in Nat /\ f < h /\ h <= f + N /\ h \in Nat /\ e \in Nat /\ j = h - 1
        /\ h <= e /\ k = m + 1
        /\ m = IF f + N <= h THEN 0 ELSE (IF f + N <= e THEN f + N ELSE e) - h
    BY <1>3, <1>4, <1>6
  <2> HIDE DEF f, m, k, h, j, e, u, un, r
  <2>4. k = IF f + N <= j THEN 0 ELSE (IF f + N <= e THEN f + N ELSE e) - j
    BY <2>3
  <2> QED BY <1>2, <2>2, <2>4 DEF f, k, j, e
<1> QED BY <1>5, <1>6

\* A popped block leaves the rounds that are still paid as they were.
LEMMA PopWhole ==
  ASSUME Base, Ungathers, PopBlock, ~unpaid', NEW q \in SettledAt(Top - 1, oldTop)
  PROVE  /\ Whole(chain', ungathered'[q], q) = Whole(chain, ungathered[q], q)
         /\ Whole(chain, ungathered[q], q) \in Seq(Entry)
<1> DEFINE r == RoundOf(Top)
           u == ungathered[r]
           un == PopUn
           n == IF PopSettles THEN << >> ELSE un
<1>0. TypeOK /\ Shape
  BY DEF Base
<1>1. ungathered' = [ungathered EXCEPT ![r] = n] /\ ungathered \in [Rounds -> Seq(Entry)]
  BY <1>0, PopIs, Types
<1>2. /\ ~unpaid /\ phase = "popping" /\ PopShape(r, u, un)
      /\ Len(u) = IF Before(r) + N <= Top THEN 0
                  ELSE (IF Before(r) + N <= oldTop THEN Before(r) + N ELSE oldTop) - Top
      /\ PopSettles <=> (Before(r) = Top - 1 /\ Before(r) + N <= oldTop)
  BY PopCases
<1>3. q \in Rounds /\ Before(q) < Top - 1 /\ Before(q) + N <= oldTop
  BY DEF SettledAt
<1>4. /\ N \in Nat \ {0} /\ r \in Rounds /\ Before(r) \in Nat /\ Before(r) < Top /\ Top <= Before(r) + N
      /\ Before(q) \in Nat /\ (q # r => Before(q) + N <= Before(r) \/ Before(r) + N <= Before(q))
      /\ Top \in Nat \ {0, 1} /\ Len(chain) = Top /\ Len(chain') = Top - 1
      /\ oldTop \in Nat /\ Top <= oldTop /\ Len(u) \in Nat
      /\ chain \in Seq(Block \cup {GenesisBlock})
      /\ \A i \in 1 .. Top - 1 : chain'[i] = chain[i]
  BY <1>2, <1>3 DEF PopShape
<1>5. ungathered[q] \in Seq(Entry) /\ Len(ungathered[q]) \in Nat /\ q \in Nat \ {0}
  BY <1>1, <1>3, RoundsOf
<1>6. CASE q # r
  <2> DEFINE m == Top - 1
             k == chain'
             x == ungathered[q]
             y == ungathered'[q]
             w == Whole(chain, x, q)
  <2>1. Before(q) + N <= m
    <3> HIDE DEF r
    <3> QED BY <1>3, <1>4, <1>6
  <2>2. m \in Nat /\ Len(chain) \in Nat /\ Len(k) \in Nat /\ m <= Len(chain) /\ m <= Len(k)
        /\ (\A i \in 1 .. m : k[i] = chain[i]) /\ Before(q) \in Nat
    BY <1>4
  <2>3. x \in Seq(Entry) /\ Len(x) >= Before(q) + N - Len(chain) /\ w = Whole(chain, x, q)
    BY <1>4, <1>5, <2>1
  <2> HIDE DEF m, k, x, y, w
  <2>4. Whole(k, y, q) = Whole(chain, x, q)
    BY <2>1, <2>2, WholeBelow
  <2>5. w \in Seq(Entry)
    BY <1>4, <1>5, <2>3, WholeIs
  <2> QED BY <2>4, <2>5 DEF k, x, y, w
<1>7. CASE q = r
  <2>1. ~PopSettles
    <3> HIDE DEF r, u, un
    <3> QED BY <1>2, <1>3, <1>4, <1>7
  <2>2. ungathered'[q] = un
    <3> HIDE DEF r, u, un
    <3> QED BY <1>1, <1>3, <1>7, <2>1
  <2>3. Len(u) = Before(r) + N - Top
    <3> DEFINE f == Before(r)
               m == Len(u)
               h == Top
    <3>1. /\ N \in Nat \ {0} /\ f \in Nat /\ f < h /\ h <= f + N /\ h \in Nat /\ oldTop \in Nat
          /\ f + N <= oldTop
          /\ m = IF f + N <= h THEN 0 ELSE (IF f + N <= oldTop THEN f + N ELSE oldTop) - h
      BY <1>2, <1>3, <1>4, <1>7
    <3> HIDE DEF f, m, h
    <3>2. m = f + N - h
      BY <3>1
    <3> QED BY <3>2 DEF f, m, h
  <2> DEFINE w == Whole(chain, u, r)
  <2>4. Whole(chain', un, r) = w
    <3> HIDE DEF r, u, un
    <3> QED BY <1>2, <2>3, WholePopped
  <2>5. w \in Seq(Entry)
    <3>1. u \in Seq(Entry) /\ r \in Nat \ {0} /\ Len(u) >= Before(r) + N - Len(chain)
      BY <1>4, <1>5, <1>7, <2>3
    <3> HIDE DEF r, u, w
    <3>2. w = Whole(chain, u, r)
      BY DEF w
    <3> QED BY <1>4, <3>1, <3>2, WholeIs
  <2> QED BY <1>7, <2>2, <2>4, <2>5
<1> QED BY <1>6, <1>7

\* What a pop takes from the accounts.
LEMMA PopPays ==
  ASSUME Base, Ungathers, PopBlock, ~unpaid', NEW r, r = RoundOf(Top), NEW w,
         w = Whole(chain, ungathered[r], r)
  PROVE  /\ PopSettles => /\ w \in Seq(Entry)
                          /\ \A a \in Account : /\ db'.fees[a] = db.fees[a] - FeesFor(w, a, N)
                                                /\ db'.rewards[a] = db.rewards[a] - RewardsFor(w, a)
         /\ ~PopSettles => db'.fees = db.fees /\ db'.rewards = db.rewards
<1> DEFINE u == ungathered[r]
           un == PopUn
           undone == PopUndone
           back == PopBack
           h == Top
           l == ListFor(Top)
           one == 1
           minus == -1
<1>0. TypeOK /\ Shape
  BY DEF Base
<1>1. /\ un \in Seq(Entry)
      /\ IsProduced(undone, db, chain[h], r, minus, h)
      /\ PopSettles => IsSettled(back, undone, un, one, minus, l, r, h)
      /\ ~PopSettles => back = undone
      /\ db'.fees = back.fees /\ db'.rewards = back.rewards
  BY <1>0, PopIs
<1>2. /\ PopShape(r, u, un)
      /\ Len(u) = IF Before(r) + N <= Top THEN 0
                  ELSE (IF Before(r) + N <= oldTop THEN Before(r) + N ELSE oldTop) - Top
      /\ PopSettles <=> (Before(r) = Top - 1 /\ Before(r) + N <= oldTop)
  BY PopCases
<1>3. undone.fees = db.fees /\ undone.rewards = db.rewards
  BY <1>1 DEF IsProduced
<1>4. ASSUME PopSettles
      PROVE  /\ w \in Seq(Entry)
             /\ \A a \in Account : /\ db'.fees[a] = db.fees[a] - FeesFor(w, a, N)
                                   /\ db'.rewards[a] = db.rewards[a] - RewardsFor(w, a)
  <2>1. Before(r) = Top - 1 /\ Before(r) + N <= oldTop
    BY <1>2, <1>4
  <2>2. N \in Nat \ {0} /\ Top \in Nat \ {0, 1} /\ oldTop \in Nat
    BY <1>2 DEF PopShape
  <2>3. Len(u) = N - 1
    <3> DEFINE f == Before(r)
               m == Len(u)
    <3>1. f = Top - 1 /\ f + N <= oldTop
          /\ m = IF f + N <= Top THEN 0 ELSE (IF f + N <= oldTop THEN f + N ELSE oldTop) - Top
      BY <1>2, <2>1
    <3> HIDE DEF f, m
    <3>2. m = N - 1
      BY <2>2, <3>1
    <3> QED BY <3>2 DEF m
  <2>4. w \in Seq(Entry) /\ Len(w) = N /\ Len(un) = N /\ \A i \in 1 .. N : un[i] = w[N + 1 - i]
    <3>1. w = Whole(chain, u, r)
      OBVIOUS
    <3> HIDE DEF u, un
    <3> QED BY <1>2, <2>1, <2>3, <3>1, WholeBack
  <2>5. \A a \in Account : FeesFor(un, a, one) = FeesFor(w, a, N) /\ RewardsFor(un, a) = RewardsFor(w, a)
    <3> TAKE a \in Account
    <3> HIDE DEF un
    <3>1. FeesFor(un, a, 1) = FeesFor(w, a, N) /\ RewardsFor(un, a) = RewardsFor(w, a)
      BY <1>1, <2>4, Backward
    <3> QED BY <3>1
  <2>6. \A a \in Account : FeesFor(w, a, N) \in Int /\ RewardsFor(w, a) \in Nat
    BY <2>4, PayIs
  <2>7. \A a \in Account : /\ back.fees[a] = undone.fees[a] + minus * FeesFor(un, a, one)
                           /\ back.rewards[a] = undone.rewards[a] + minus * RewardsFor(un, a)
    <3>1. IsSettled(back, undone, un, one, minus, l, r, h)
      BY <1>1, <1>4
    <3> HIDE DEF back, undone, un, one, minus, l, h
    <3> QED BY <3>1 DEF IsSettled
  <2>8. \A a \in Account : db.fees[a] \in Int /\ db.rewards[a] \in Int
    <3>1. db \in Db
      BY <1>0, Types
    <3> QED BY <3>1, Amounts
  <2>9. \A a \in Account : /\ db'.fees[a] = db.fees[a] - FeesFor(w, a, N)
                           /\ db'.rewards[a] = db.rewards[a] - RewardsFor(w, a)
    <3> HIDE DEF back, undone, un
    <3> QED BY <1>1, <1>3, <2>5, <2>6, <2>7, <2>8
  <2> QED BY <2>4, <2>9
<1>5. ~PopSettles => db'.fees = db.fees /\ db'.rewards = db.rewards
  BY <1>1, <1>3
<1> QED BY <1>4, <1>5

\* The rounds that are still paid after a pop.
LEMMA PopSettled ==
  ASSUME Base, Ungathers, PopBlock, ~unpaid', NEW r, r = RoundOf(Top)
  PROVE  /\ Settled = SettledAt(Top, oldTop) /\ Settled' = SettledAt(Top - 1, oldTop)
         /\ PopSettles => Settled = Settled' \cup {r} /\ r \notin Settled'
         /\ ~PopSettles => Settled = Settled'
<1> DEFINE u == ungathered[r]
           S == SettledAt(Top, oldTop)
           R == SettledAt(Top - 1, oldTop)
<1>1. /\ phase = "popping" /\ PopShape(r, u, PopUn)
      /\ PopSettles <=> (Before(r) = Top - 1 /\ Before(r) + N <= oldTop)
  BY PopCases
<1>2. /\ N \in Nat \ {0} /\ r \in Rounds /\ Before(r) \in Nat /\ Before(r) < Top
      /\ Top \in Nat \ {0, 1} /\ Top' = Top - 1
      /\ \A q \in Rounds : /\ Before(q) \in Nat
                           /\ q # r => Before(q) + N <= Before(r) \/ Before(r) + N <= Before(q)
      /\ oldTop \in Nat
  BY <1>1 DEF PopShape
<1>3. Settled = S /\ Settled' = R
  <2>1. phase' = phase /\ oldTop' = oldTop /\ phase # "idle"
    BY <1>1 DEF PopBlock
  <2> QED BY <1>2, <2>1 DEF Settled, High
<1>4. /\ PopSettles => S = R \cup {r} /\ r \notin R
      /\ ~PopSettles => S = R
  <2>1. ASSUME NEW q \in Rounds, q # r PROVE q \in S <=> q \in R
    <3>1. Before(q) \in Nat /\ (Before(q) + N <= Before(r) \/ Before(r) + N <= Before(q))
      BY <1>2, <2>1
    <3> DEFINE f == Before(r)
               g == Before(q)
               h == Top
    <3>2. f < h /\ f \in Nat /\ g \in Nat /\ h \in Nat /\ (g + N <= f \/ f + N <= g) /\ h <= f + N
      BY <1>1, <1>2, <3>1 DEF PopShape
    <3> HIDE DEF f, g, h
    <3>3. g < h <=> g < h - 1
      BY <1>2, <3>2
    <3> QED BY <3>3 DEF g, h, SettledAt
  <2>2. r \in S <=> Before(r) + N <= oldTop
    BY <1>2 DEF SettledAt
  <2>3. r \in R <=> (Before(r) # Top - 1 /\ Before(r) + N <= oldTop)
    BY <1>2 DEF SettledAt
  <2>4. S \subseteq Rounds /\ R \subseteq Rounds
    BY DEF SettledAt
  <2> HIDE DEF S, R
  <2> QED BY <1>1, <1>2, <2>1, <2>2, <2>3, <2>4
<1> QED BY <1>3, <1>4 DEF S, R

\* The accounts have what the rounds pay that are still settled.
LEMMA PaidPop ==
  ASSUME Base, Ungathers, Paid, PopBlock
  PROVE  Paid'
<1> DEFINE r == RoundOf(Top)
           u == ungathered[r]
           w == Whole(chain, u, r)
           S == SettledAt(Top, oldTop)
           R == SettledAt(Top - 1, oldTop)
           d == db'
           k == chain'
           v == ungathered'
<1> SUFFICES ASSUME ~unpaid' PROVE PaidAt(db', chain', ungathered', Settled')
  BY DEF Paid
<1>1. ~unpaid
  BY PopCases
<1>3. Settled = S /\ Settled' = R
  BY PopSettled
<1>4. PaidAt(db, chain, ungathered, S)
  BY <1>1, <1>3 DEF Paid
<1>5. \A q \in R : Whole(k, v[q], q) = Whole(chain, ungathered[q], q)
                   /\ Whole(chain, ungathered[q], q) \in Seq(Entry)
  BY PopWhole
<1>6. /\ PopSettles => S = R \cup {r} /\ r \notin R
      /\ ~PopSettles => S = R
  <2>1. r = RoundOf(Top)
    OBVIOUS
  <2>2. /\ Settled = SettledAt(Top, oldTop) /\ Settled' = SettledAt(Top - 1, oldTop)
        /\ PopSettles => Settled = Settled' \cup {r} /\ r \notin Settled'
        /\ ~PopSettles => Settled = Settled'
    <3> HIDE DEF r
    <3> QED BY <2>1, PopSettled
  <2> QED BY <2>2
<1>7. /\ PopSettles => /\ w \in Seq(Entry)
                       /\ \A a \in Account : /\ d.fees[a] = db.fees[a] - FeesFor(w, a, N)
                                             /\ d.rewards[a] = db.rewards[a] - RewardsFor(w, a)
      /\ ~PopSettles => d.fees = db.fees /\ d.rewards = db.rewards
  BY PopPays
<1>8. IsFiniteSet(R)
  BY SettledFinite
<1>9. w = Whole(chain, ungathered[r], r)
  OBVIOUS
<1> HIDE DEF r, u, w, S, R, d, k, v
<1>10. CASE PopSettles
  <2>1. IsOneMore(R, r, k, v, chain, ungathered)
    <3>1. \A q \in R : Whole(chain, ungathered[q], q) = Whole(k, v[q], q)
      BY <1>5
    <3>2. \A q \in R \cup {r} : Whole(chain, ungathered[q], q) \in Seq(Entry)
      BY <1>5, <1>7, <1>9, <1>10
    <3> QED BY <1>6, <1>8, <1>10, <3>1, <3>2 DEF IsOneMore
  <2>2. PaidAt(db, chain, ungathered, R \cup {r})
    BY <1>4, <1>6, <1>10
  <2>3. PaidAt(d, k, v, R)
    BY <1>7, <1>9, <1>10, <2>1, <2>2, PaidLess
  <2> QED BY <1>3, <2>3 DEF d, k, v
<1>11. CASE ~PopSettles
  <2>1. PaidAt(d, k, v, S)
    BY <1>4, <1>5, <1>6, <1>7, <1>11, PaidSame
  <2> QED BY <1>3, <1>6, <1>11, <2>1 DEF d, k, v
<1> QED BY <1>10, <1>11

\* A popped block keeps Earned.
LEMMA EarnedPop ==
  ASSUME Base, Earned, PopBlock
  PROVE  Earned'
<1>1. (~unpaid => BooksAt(db', chain', Top')) /\ Ungathers' /\ Paid'
  BY PopBooks, UngathersPop, PaidPop DEF Earned, Booked
<1>2. /\ phase = "popping" /\ phase' = phase /\ target' = target /\ oldTop' = oldTop
      /\ unpaid' = (unpaid \/ Top = 2)
  BY DEF PopBlock
<1>3. Gathers'
  BY <1>2 DEF Gathers
<1>4. Aimed'
  <2>1. Top' = Top - 1 /\ Top \in 2 .. MaxHeight
    BY PopIs DEF Base
  <2>2. Top' = 1 => Top = 2
    BY <2>1, Constants
  <2> QED BY <1>2, <2>2 DEF Earned, Aimed
<1> QED BY <1>1, <1>2, <1>3, <1>4 DEF Earned, Booked

\* Every step keeps Earned.
LEMMA EarnedNext == Base /\ Earned /\ [Next]_vars => Earned'
<1> SUFFICES ASSUME Base, Earned, [Next]_vars PROVE Earned'
  OBVIOUS
<1>1. ASSUME NEW b \in Block, ApplyBlock(b) PROVE Earned'
  <2> DEFINE h == Top + 1
             r == RoundOf(h)
             t == Tick(db, gathered[r], h, b, ListFor(h))
  <2>1. CASE t.ok
    <3>1. h = Top + 1 /\ r = RoundOf(h) /\ t = Tick(db, gathered[r], h, b, ListFor(h))
      OBVIOUS
    <3> HIDE DEF h, r, t
    <3> QED BY <1>1, <2>1, <3>1, EarnedAccept
  <2>2. CASE ~t.ok
    BY <1>1, <2>2, EarnedRefuse
  <2> QED BY <2>1, <2>2
<1>2. ASSUME NEW h \in 1 .. MaxHeight, StartRollback(h) PROVE Earned'
  BY <1>2, EarnedStart
<1>3. CASE PopBlock
  BY <1>3, EarnedPop
<1>4. CASE EndRollback
  BY <1>4, EarnedEnd
<1>5. CASE LookUp
  BY <1>5, EarnedLookUp
<1>6. CASE Restart
  BY <1>6, EarnedRestart
<1>7. CASE UNCHANGED vars
  BY <1>7 DEF vars, Earned, Booked, Gathers, Ungathers, Aimed, Paid, Settled, High, Top
<1> QED BY <1>1, <1>2, <1>3, <1>4, <1>5, <1>6, <1>7 DEF Next

-----------------------------------------------------------------------------
(* What the finished rounds of the chain amount to *)

\* The heights of the round r, from the places of its blocks.
Heights(r) == [i \in 1 .. N |-> Before(r) + i]

\* The places of the blocks by a in w, without those at the heights in X.
PlacesBy(w, a, r, X) == {i \in ByOne(w, a) : Before(r) + i \notin X}

\* w has the blocks of the round r of c.
IsRound(w, c, r) ==
  /\ c \in Seq(Block \cup {GenesisBlock}) /\ r \in Nat \ {0} /\ Before(r) \in Nat
  /\ Before(r) + N <= Len(c)
  /\ w \in Seq(Entry) /\ DOMAIN w = 1 .. N /\ DOMAIN c = 1 .. Len(c) /\ Len(c) \in Nat
  /\ \A i \in 1 .. N : w[i] = Gathered(Before(r) + i, c[Before(r) + i])

\* The blocks of a round that ends below the top are all in the chain.
LEMMA WholeRound ==
  ASSUME NEW c \in Seq(Block \cup {GenesisBlock}), NEW r \in Nat \ {0}, Before(r) + N <= Len(c),
         NEW u, NEW w, w = Whole(c, u, r)
  PROVE  IsRound(w, c, r)
<1> DEFINE f == Before(r)
<1>1. f \in Nat /\ N \in Nat \ {0}
  BY RoundFacts, Constants
<1>2. Len(c) \in Nat /\ DOMAIN c = 1 .. Len(c) /\ f + N <= Len(c)
  OBVIOUS
<1>3. w = [i \in 1 .. N |-> IF f + i <= Len(c) THEN Gathered(f + i, c[f + i]) ELSE u[N + 1 - i]]
  BY DEF Whole
<1> HIDE DEF f
<1>4. ASSUME NEW i \in 1 .. N
      PROVE  /\ w[i] = Gathered(f + i, c[f + i]) /\ w[i] \in Entry
  <2>1. f + i <= Len(c) /\ f + i \in 1 .. Len(c) /\ f + i \in Nat
    BY <1>1, <1>2
  <2>2. w[i] = Gathered(f + i, c[f + i])
    BY <1>3, <2>1
  <2>3. c[f + i] \in Block \cup {GenesisBlock}
    BY <1>2, <2>1
  <2> QED BY <2>1, <2>2, <2>3, GatheredIs
<1>5. w \in [1 .. N -> Entry]
  BY <1>3, <1>4
<1>6. w \in Seq(Entry) /\ DOMAIN w = 1 .. N
  <2>1. N \in Nat
    BY <1>1
  <2> QED BY <1>5, <2>1, FunctionIsList
<1> QED BY <1>1, <1>2, <1>4, <1>6 DEF IsRound, f

\* The places of a round are its heights.
LEMMA HeightsAre ==
  ASSUME NEW w, NEW c, NEW r, IsRound(w, c, r)
  PROVE  /\ Heights(r) \in [1 .. N -> DOMAIN c]
         /\ \A i, j \in 1 .. N : Heights(r)[i] = Heights(r)[j] => i = j
         /\ \A i \in 1 .. N : /\ Heights(r)[i] = Before(r) + i
                              /\ w[i].generator = c[Before(r) + i].generator
                              /\ w[i].fee = c[Before(r) + i].fee
                              /\ w[i].reward = IF Before(r) + i = 1 THEN 0 ELSE Reward
                              /\ c[Before(r) + i].fee \in Nat
         /\ Moved(Heights(r), 1 .. N) = BlocksOf(c, r)
         /\ \A a : \A X : Moved(Heights(r), PlacesBy(w, a, r, X))
                            = Made(c, a, BlocksOf(c, r) \ X)
<1> DEFINE f == Before(r)
           D == 1 .. N
           m == Heights(r)
<1>0. /\ c \in Seq(Block \cup {GenesisBlock}) /\ r \in Nat \ {0} /\ f \in Nat
      /\ f + N <= Len(c)
      /\ w \in Seq(Entry) /\ DOMAIN w = D /\ DOMAIN c = 1 .. Len(c) /\ Len(c) \in Nat
      /\ \A i \in D : w[i] = Gathered(f + i, c[f + i])
      /\ N \in Nat \ {0}
  BY Constants DEF IsRound
<1>1. \A i \in D : m[i] = f + i
  BY DEF Heights
<1>2. m \in [D -> DOMAIN c]
  <2>1. m = [i \in D |-> f + i]
    BY DEF Heights
  <2> HIDE DEF m, f
  <2>2. \A i \in D : f + i \in DOMAIN c
    BY <1>0
  <2> QED BY <2>1, <2>2
<1>3. \A h \in DOMAIN c : RoundOf(h) = r <=> (f < h /\ h <= f + N)
  <2> SUFFICES ASSUME NEW h \in DOMAIN c PROVE RoundOf(h) = r <=> (f < h /\ h <= f + N)
    OBVIOUS
  <2> DEFINE s == RoundOf(h)
  <2>1. h \in Nat \ {0}
    BY <1>0
  <2>2. s \in Nat \ {0} /\ Before(s) < h /\ h <= Before(s) + N /\ Before(s) \in Nat
    <3>1. s \in Nat \ {0} /\ Before(s) < h /\ h <= Before(s) + N
      BY <2>1, RoundFacts
    <3> HIDE DEF s
    <3> QED BY <3>1, RoundFacts
  <2> HIDE DEF s
  <2>3. s < r => Before(s) + N <= Before(r)
    BY <1>0, <2>2, RoundFacts
  <2>4. r < s => Before(r) + N <= Before(s)
    BY <1>0, <2>2, RoundFacts
  <2>5. s = r \/ s < r \/ r < s
    BY <1>0, <2>2
  <2>6. s = r <=> (f < h /\ h <= f + N)
    BY <1>0, <2>1, <2>2, <2>3, <2>4, <2>5
  <2> QED BY <2>6 DEF s
<1>4. \A h : h \in BlocksOf(c, r) <=> (h \in DOMAIN c /\ f < h /\ h <= f + N)
  BY <1>3 DEF BlocksOf
<1>5. \A h \in BlocksOf(c, r) : h - f \in D /\ f + (h - f) = h /\ m[h - f] = h
  <2> SUFFICES ASSUME NEW h \in BlocksOf(c, r) PROVE h - f \in D /\ f + (h - f) = h /\ m[h - f] = h
    OBVIOUS
  <2>1. h \in Nat /\ f < h /\ h <= f + N
    BY <1>0, <1>4
  <2> HIDE DEF f, m
  <2>2. h - f \in D /\ f + (h - f) = h
    BY <1>0, <2>1
  <2> QED BY <1>1, <2>2
<1>6. \A i \in D : m[i] \in BlocksOf(c, r)
  <2> SUFFICES ASSUME NEW i \in D PROVE m[i] \in BlocksOf(c, r)
    OBVIOUS
  <2>1. m[i] = f + i /\ m[i] \in DOMAIN c
    BY <1>1, <1>2
  <2> HIDE DEF f, m
  <2>2. f < m[i] /\ m[i] <= f + N
    BY <1>0, <2>1
  <2> QED BY <1>4, <2>1, <2>2
<1>7. \A i \in D : /\ w[i].generator = c[f + i].generator /\ w[i].fee = c[f + i].fee
                   /\ w[i].reward = (IF f + i = 1 THEN 0 ELSE Reward)
                   /\ c[f + i].fee \in Nat
  <2> SUFFICES ASSUME NEW i \in D
               PROVE  /\ w[i].generator = c[f + i].generator /\ w[i].fee = c[f + i].fee
                      /\ w[i].reward = (IF f + i = 1 THEN 0 ELSE Reward)
                      /\ c[f + i].fee \in Nat
    OBVIOUS
  <2> DEFINE h == f + i
             b == c[h]
  <2>1. h \in 1 .. Len(c) /\ h \in Nat /\ (h <= 1 <=> h = 1)
    BY <1>0
  <2>2. b \in Block \cup {GenesisBlock} /\ w[i] = Gathered(h, b)
    BY <1>0, <2>1
  <2> HIDE DEF h, b
  <2>3. /\ w[i].generator = b.generator /\ w[i].fee = b.fee
        /\ w[i].reward = IF h <= 1 THEN 0 ELSE Reward
    BY <2>1, <2>2, GatheredIs
  <2>4. b.fee \in Nat
    BY <2>2, Blocks
  <2>5. w[i].reward = IF h = 1 THEN 0 ELSE Reward
    BY <2>1, <2>3
  <2> QED BY <2>3, <2>4, <2>5 DEF h, b
<1>8. Moved(m, D) = BlocksOf(c, r)
  <2> HIDE DEF m, f, D
  <2> QED BY <1>5, <1>6 DEF Moved
<1>9. ASSUME NEW a, NEW X
      PROVE  Moved(m, PlacesBy(w, a, r, X)) = Made(c, a, BlocksOf(c, r) \ X)
  <2> DEFINE V == {i \in ByOne(w, a) : f + i \notin X}
  <2>1. \A i \in D : i \in V <=> (c[m[i]].generator = a /\ m[i] \notin X)
    BY <1>0, <1>1, <1>7 DEF ByOne
  <2>2. V \subseteq D
    BY <1>0 DEF ByOne
  <2> HIDE DEF V, m, f, D
  <2>3. \A x \in Moved(m, V) : x \in Made(c, a, BlocksOf(c, r) \ X)
    BY <1>6, <2>1, <2>2 DEF Moved, Made
  <2>4. \A h \in Made(c, a, BlocksOf(c, r) \ X) : h \in Moved(m, V)
    <3> SUFFICES ASSUME NEW h \in Made(c, a, BlocksOf(c, r) \ X) PROVE h \in Moved(m, V)
      OBVIOUS
    <3>1. h \in BlocksOf(c, r) /\ h \notin X /\ c[h].generator = a
      BY DEF Made
    <3>2. h - f \in D /\ m[h - f] = h
      BY <1>5, <3>1
    <3>3. h - f \in V
      BY <2>1, <3>1, <3>2
    <3> QED BY <3>2, <3>3 DEF Moved
  <2>5. Moved(m, V) = Made(c, a, BlocksOf(c, r) \ X)
    BY <2>3, <2>4
  <2> QED BY <2>5 DEF V, f, PlacesBy
<1>10. \A i, j \in D : m[i] = m[j] => i = j
  <2> HIDE DEF m, f
  <2> QED BY <1>0, <1>1
<1> HIDE DEF f, D, m
<1> QED BY <1>1, <1>2, <1>7, <1>8, <1>9, <1>10 DEF f, D, m

\* The fees of the blocks of c.
FeeAt(c) == [h \in DOMAIN c |-> c[h].fee]

\* A round of the chain pays what its blocks amount to.
LEMMA RoundFees ==
  ASSUME NEW w, NEW c, NEW r, IsRound(w, c, r), NEW a \in Account
  PROVE  FeesFor(w, a, N) = FeesEarned(c, a, r)
<1> DEFINE D == 1 .. N
           m == Heights(r)
           C == DOMAIN c
           f == FeeOf(w)
           k == FeeAt(c)
           V == ByOne(w, a)
           p == Before(r) + N
<1>0. /\ w \in Seq(Entry) /\ DOMAIN w = D /\ N \in Nat \ {0} /\ r \in Nat \ {0}
      /\ C = 1 .. Len(c) /\ Len(c) \in Nat /\ Before(r) \in Nat
  BY Constants DEF IsRound
<1>1. /\ m \in [D -> C] /\ (\A i, j \in D : m[i] = m[j] => i = j)
      /\ Moved(m, D) = BlocksOf(c, r)
  BY HeightsAre
<1>2. \A i \in D : /\ m[i] = Before(r) + i /\ w[i].generator = c[Before(r) + i].generator
                   /\ w[i].fee = c[Before(r) + i].fee /\ c[Before(r) + i].fee \in Nat
  BY HeightsAre
<1>3. Moved(m, V) = Made(c, a, BlocksOf(c, r))
  <2> DEFINE X == {}
  <2>1. Moved(m, PlacesBy(w, a, r, X)) = Made(c, a, BlocksOf(c, r) \ X)
    <3> HIDE DEF X
    <3> QED BY HeightsAre
  <2>2. PlacesBy(w, a, r, X) = V /\ BlocksOf(c, r) \ X = BlocksOf(c, r)
    BY DEF PlacesBy
  <2> HIDE DEF X, V, m
  <2> QED BY <2>1, <2>2 DEF V, m
<1>4. IsFiniteSet(C) /\ IsFiniteSet(D)
  <2>1. 1 \in Int /\ Len(c) \in Int /\ N \in Int
    BY <1>0
  <2> QED BY <1>0, <2>1, FS_Interval
<1>5. k \in [C -> Int]
  <2>1. \A h \in C : c[h] \in Block \cup {GenesisBlock}
    BY <1>0 DEF IsRound
  <2>2. \A h \in C : c[h].fee \in Nat
    BY <2>1, Blocks
  <2> QED BY <2>2 DEF FeeAt
<1>6. f \in [D -> Int]
  BY <1>0, <1>2 DEF FeeOf
<1>7. \A i \in D : k[m[i]] = f[i]
  <2> SUFFICES ASSUME NEW i \in D PROVE k[m[i]] = f[i]
    OBVIOUS
  <2>1. m[i] \in C /\ m[i] = Before(r) + i /\ f[i] = w[i].fee
    BY <1>0, <1>1, <1>2 DEF FeeOf
  <2> HIDE DEF m, f
  <2> QED BY <1>2, <2>1 DEF FeeAt
<1>8. D \in SUBSET D /\ V \in SUBSET D
  BY <1>0 DEF ByOne
<1>10. r * N = p /\ w[N].generator = c[p].generator /\ N \in DOMAIN w
  <2>1. r * N = Before(r) + N
    BY <1>0, RoundFacts
  <2>2. N \in D
    BY <1>0
  <2> QED BY <1>0, <1>2, <2>1, <2>2
<1> HIDE DEF m, f, k, V, D, C
<1>11. IsMove(m, f, D, k, C)
  BY <1>1, <1>4, <1>5, <1>6, <1>7 DEF IsMove
<1>12. /\ Total(k, BlocksOf(c, r)) = Total(f, D)
       /\ Cardinality(Made(c, a, BlocksOf(c, r))) = Cardinality(V)
  BY <1>1, <1>3, <1>8, <1>11, TotalMoved
<1>13. Fees(w) = FeesOf(c, r)
  BY <1>0, <1>12 DEF Fees, FeesOf, f, k, FeeOf, FeeAt, D, C
<1>14. FeesFor(w, a, N) = Cardinality(ByOne(w, a)) * (Fees(w) \div N)
                            + IF w[N].generator = a THEN Fees(w) % N ELSE 0
  BY <1>0, <1>10, FeesForIs
<1> QED BY <1>10, <1>12, <1>13, <1>14 DEF FeesEarned, V

\* The rewards of a round of the chain are those of its blocks, without the first block of all.
LEMMA RoundRewards ==
  ASSUME NEW w, NEW c, NEW r, IsRound(w, c, r), NEW a \in Account
  PROVE  RewardsFor(w, a) = RewardsEarned(c, a, r)
<1> DEFINE D == 1 .. N
           m == Heights(r)
           C == DOMAIN c
           f == FeeOf(w)
           k == FeeAt(c)
           g == RewardOf(w)
           X == {1}
           V == PlacesBy(w, a, r, X)
           W == {i \in ByOne(w, a) : Before(r) + i \in X}
<1>0. /\ w \in Seq(Entry) /\ DOMAIN w = D /\ N \in Nat \ {0}
      /\ C = 1 .. Len(c) /\ Len(c) \in Nat /\ Reward \in Nat
  BY Constants DEF IsRound
<1>1. /\ m \in [D -> C] /\ (\A i, j \in D : m[i] = m[j] => i = j)
      /\ Moved(m, D) = BlocksOf(c, r)
  BY HeightsAre
<1>2. \A i \in D : /\ m[i] = Before(r) + i /\ w[i].fee = c[Before(r) + i].fee
                   /\ w[i].reward = (IF Before(r) + i = 1 THEN 0 ELSE Reward)
                   /\ c[Before(r) + i].fee \in Nat
  BY HeightsAre
<1>3. Moved(m, V) = Made(c, a, BlocksOf(c, r) \ X)
  <2> HIDE DEF X
  <2> QED BY HeightsAre
<1>4. IsFiniteSet(C) /\ IsFiniteSet(D)
  <2>1. 1 \in Int /\ Len(c) \in Int /\ N \in Int
    BY <1>0
  <2> QED BY <1>0, <2>1, FS_Interval
<1>5. k \in [C -> Int]
  <2>1. \A h \in C : c[h] \in Block \cup {GenesisBlock}
    BY <1>0 DEF IsRound
  <2>2. \A h \in C : c[h].fee \in Nat
    BY <2>1, Blocks
  <2> QED BY <2>2 DEF FeeAt
<1>6. f \in [D -> Int] /\ g \in [D -> Int]
  <2>1. f \in [D -> Int]
    BY <1>0, <1>2 DEF FeeOf
  <2>2. \A i \in D : w[i].reward \in Int
    BY <1>0, <1>2
  <2> QED BY <1>0, <2>1, <2>2 DEF RewardOf
<1>7. \A i \in D : k[m[i]] = f[i]
  <2> SUFFICES ASSUME NEW i \in D PROVE k[m[i]] = f[i]
    OBVIOUS
  <2>1. m[i] \in C /\ m[i] = Before(r) + i /\ f[i] = w[i].fee
    BY <1>0, <1>1, <1>2 DEF FeeOf
  <2> HIDE DEF m, f
  <2> QED BY <1>2, <2>1 DEF FeeAt
<1>8. V \in SUBSET D /\ W \in SUBSET D /\ (\A i \in V : i \notin W) /\ V \cup W = ByOne(w, a)
  BY <1>0 DEF ByOne, PlacesBy
<1>9. (\A i \in V : g[i] = Reward) /\ IsZero(g, W)
  BY <1>0, <1>2, <1>8 DEF RewardOf, IsZero, PlacesBy
<1>10. RewardsFor(w, a) = Total(g, V \cup W)
  BY <1>8 DEF RewardsFor, RewardOf
<1> HIDE DEF m, f, k, g, V, W, D, C, X
<1>11. IsMove(m, f, D, k, C)
  BY <1>1, <1>4, <1>5, <1>6, <1>7 DEF IsMove
<1>12. Cardinality(Made(c, a, BlocksOf(c, r) \ X)) = Cardinality(V)
  BY <1>3, <1>8, <1>11, TotalMoved
<1>13. Total(g, V \cup W) = Total(g, V) + Total(g, W)
  BY <1>4, <1>6, <1>8, TotalBoth
<1>14. Total(g, W) = 0
  BY <1>4, <1>6, <1>8, <1>9, TotalZero
<1>15. Total(g, V) = Cardinality(V) * Reward
  <2>1. Reward \in Int
    BY <1>0
  <2>2. \A i \in V : g[i] = Reward
    BY <1>9
  <2>3. IsFiniteSet(D) /\ g \in [D -> Int] /\ V \in SUBSET D
    BY <1>4, <1>6, <1>8
  <2> QED BY <2>1, <2>2, <2>3, TotalConst, Zenon
<1>16. Cardinality(V) \in Nat
  BY <1>4, <1>8, FS_Subset, FS_CardinalityType
<1>17. RewardsFor(w, a) = Reward * Cardinality(V)
  <2> DEFINE n == Cardinality(V)
  <2>1. n \in Nat /\ Total(g, V) = n * Reward /\ RewardsFor(w, a) = Total(g, V) + 0
    BY <1>10, <1>13, <1>14, <1>15, <1>16
  <2> HIDE DEF n
  <2>2. n * Reward \in Int /\ n * Reward = Reward * n
    BY <1>0, <2>1
  <2>3. RewardsFor(w, a) = Reward * n
    BY <2>1, <2>2
  <2> QED BY <2>3 DEF n
<1> QED BY <1>12, <1>17 DEF RewardsEarned, X

\* Where the settled rounds are the finished ones, the accounts have what these amount to.
LEMMA EarnedAre ==
  ASSUME Base, Earned, ~unpaid, Settled = Finished(chain), NEW a \in Account
  PROVE  /\ db.fees[a] = EarnedFees(chain, a, Finished(chain))
         /\ db.rewards[a] = EarnedRewards(chain, a, Finished(chain))
<1> DEFINE S == Settled
           c == chain
           u == ungathered
<1>1. c \in Seq(Block \cup {GenesisBlock}) /\ N \in Nat \ {0} /\ u \in [Rounds -> Seq(Entry)]
  BY Types, Constants DEF Base
<1>2. S = Finished(c)
  OBVIOUS
<1>3. PaidAt(db, c, u, S)
  BY DEF Earned, Paid
<1> HIDE DEF S, c
<1>4. ASSUME NEW r \in S
      PROVE  /\ FeesFor(Whole(c, u[r], r), a, N) = FeesEarned(c, a, r)
             /\ RewardsFor(Whole(c, u[r], r), a) = RewardsEarned(c, a, r)
  <2>1. r \in Rounds /\ r * N <= Len(c)
    BY <1>2 DEF Finished
  <2>2. r \in Nat \ {0}
    BY <2>1, RoundsOf
  <2>3. Before(r) + N <= Len(c)
    BY <2>1, <2>2, RoundFacts
  <2> DEFINE v == u[r]
             w == Whole(c, v, r)
  <2>4. IsRound(w, c, r)
    <3>1. w = Whole(c, v, r)
      OBVIOUS
    <3> HIDE DEF v, w
    <3> QED BY <1>1, <2>2, <2>3, <3>1, WholeRound
  <2> HIDE DEF v, w
  <2>5. FeesFor(w, a, N) = FeesEarned(c, a, r) /\ RewardsFor(w, a) = RewardsEarned(c, a, r)
    BY <2>4, RoundFees, RoundRewards
  <2> QED BY <2>5 DEF v, w
<1>5. /\ DueFees(c, u, a, S) = [r \in S |-> FeesEarned(c, a, r)]
      /\ DueRewards(c, u, a, S) = [r \in S |-> RewardsEarned(c, a, r)]
  BY <1>4 DEF DueFees, DueRewards
<1>6. db.fees[a] = EarnedFees(c, a, S) /\ db.rewards[a] = EarnedRewards(c, a, S)
  BY <1>3, <1>5 DEF PaidAt, EarnedFees, EarnedRewards
<1> QED BY <1>2, <1>6 DEF c

\* Between synchronisations, the settled rounds are the finished ones.
LEMMA IdleSettled ==
  ASSUME TypeOK, High = Top
  PROVE  Settled = Finished(chain)
<1> DEFINE S == Settled
           c == chain
<1>1. Top \in Nat /\ Top = Len(c) /\ N \in Nat \ {0}
  BY Types, Constants DEF Top
<1>2. \A r \in Rounds : r \in Nat \ {0}
  BY RoundsOf
<1>3. \A r \in Rounds : Before(r) \in Nat /\ r * N = Before(r) + N
  BY <1>2, RoundFacts
<1>4. S = SettledAt(Top, Top)
  BY DEF Settled
<1> HIDE DEF S, c
<1>5. \A r \in Rounds : (Before(r) < Top /\ Before(r) + N <= Top) <=> r * N <= Len(c)
  BY <1>1, <1>3
<1>6. S = Finished(c)
  BY <1>4, <1>5 DEF SettledAt, Finished
<1> QED BY <1>6 DEF S, c

\* With the books and the paid rounds, the accounts have what the chain amounts to.
LEMMA EarnedReflects == Base /\ Earned => EarningsReflectChain
<1> SUFFICES ASSUME Base, Earned, phase = "idle", ~unpaid, NEW a \in Account
             PROVE  /\ db.fees[a] = EarnedFees(chain, a, Finished(chain))
                    /\ db.rewards[a] = EarnedRewards(chain, a, Finished(chain))
                    /\ db.balance[a] = BalanceAt(chain, a, Top, Finished(chain))
                    /\ db.produced[a] = Cardinality(Made(chain, a, DOMAIN chain))
  BY DEF EarningsReflectChain
<1> DEFINE c == chain
           S == Finished(c)
<1>1. DOMAIN c = 1 .. Top
  BY Types DEF Base, Top
<1>2. Settled = S
  BY IdleSettled DEF Base, High
<1>3. db.fees[a] = EarnedFees(c, a, S) /\ db.rewards[a] = EarnedRewards(c, a, S)
  BY <1>2, EarnedAre
<1>4. BooksAt(db, c, Top)
  BY DEF Earned, Booked
<1> HIDE DEF S, c
<1>5. db.balance[a] = BalanceAt(c, a, Top, S)
  BY <1>3, <1>4 DEF BooksAt, BalanceAt
<1>6. db.produced[a] = Cardinality(Made(c, a, DOMAIN c))
  BY <1>1, <1>4 DEF BooksAt
<1> QED BY <1>3, <1>5, <1>6 DEF S, c

\* The books of the accounts, what is gathered and popped, the aim of a synchronisation and
\* the paid rounds, in every reachable state (round.js with loader.js and blocks.js).
THEOREM EarningsInvariance == Spec => [](Base /\ Earned)
<1>1. Init => Base /\ Earned
  BY BaseInit, EarnedInit
<1>2. Base /\ Earned /\ [Next]_vars => (Base /\ Earned)'
  BY BaseNext, EarnedNext
<1> QED BY <1>1, <1>2, PTL DEF Spec

\* Between synchronisations an account has earned what the finished rounds of the chain
\* amount to, each paid once, through rollbacks over the end of a round, blocks refused for
\* want of rewards and restarts (tick and backwardTick, round.js).
THEOREM EarningsSound == Spec => []EarningsReflectChain
<1> QED BY EarningsInvariance, EarnedReflects, PTL


-----------------------------------------------------------------------------
(* What the voters of a delegate have *)

\* c and k have the same blocks up to the height n.
Agree(c, k, n) ==
  /\ c \in Seq(Block \cup {GenesisBlock}) /\ k \in Seq(Block \cup {GenesisBlock})
  /\ n \in Nat /\ n <= Len(c) /\ n <= Len(k)
  /\ \A i \in 1 .. n : k[i] = c[i]

\* The fees of a chain.
LEMMA ChainIs ==
  ASSUME NEW c \in Seq(Block \cup {GenesisBlock})
  PROVE  /\ DOMAIN c = 1 .. Len(c) /\ Len(c) \in Nat /\ IsFiniteSet(DOMAIN c)
         /\ \A h \in DOMAIN c : /\ c[h] \in Block \cup {GenesisBlock} /\ h \in Nat \ {0}
                                /\ c[h].fee \in Nat /\ c[h].moves \in [Account -> Int]
<1>1. DOMAIN c = 1 .. Len(c) /\ Len(c) \in Nat
  OBVIOUS
<1>2. IsFiniteSet(1 .. Len(c))
  <2>1. 1 \in Int /\ Len(c) \in Int
    BY <1>1
  <2> QED BY <2>1, FS_Interval
<1>3. \A h \in DOMAIN c : c[h] \in Block \cup {GenesisBlock} /\ h \in Nat \ {0}
  BY <1>1
<1>4. \A h \in DOMAIN c : c[h].fee \in Nat /\ c[h].moves \in [Account -> Int]
  BY <1>3, Blocks
<1> QED BY <1>1, <1>2, <1>3, <1>4

\* The heights of a round are those after Before(r).
LEMMA RoundHeights ==
  ASSUME NEW h \in Nat \ {0}, NEW r \in Nat \ {0}
  PROVE  RoundOf(h) = r <=> (Before(r) < h /\ h <= Before(r) + N)
<1> DEFINE s == RoundOf(h)
<1>1. s \in Nat \ {0} /\ Before(s) < h /\ h <= Before(s) + N
  BY RoundFacts
<1>2. Before(r) \in Nat /\ N \in Nat \ {0}
  BY RoundFacts, Constants
<1> HIDE DEF s
<1>3. Before(s) \in Nat
  BY <1>1, RoundFacts
<1>4. s < r => Before(s) + N <= Before(r)
  BY <1>1, RoundFacts
<1>5. r < s => Before(r) + N <= Before(s)
  BY <1>1, RoundFacts
<1>6. s = r \/ s < r \/ r < s
  BY <1>1
<1>7. s = r <=> (Before(r) < h /\ h <= Before(r) + N)
  BY <1>1, <1>2, <1>3, <1>4, <1>5, <1>6
<1> QED BY <1>7 DEF s

\* A finished round has the blocks it has in any chain with the same blocks up to its end.
LEMMA RoundLocal ==
  ASSUME NEW c, NEW k, NEW n, Agree(c, k, n), NEW r \in Nat \ {0}, Before(r) + N <= n, NEW a
  PROVE  FeesEarned(c, a, r) = FeesEarned(k, a, r) /\ RewardsEarned(c, a, r) = RewardsEarned(k, a, r)
<1>0. /\ c \in Seq(Block \cup {GenesisBlock}) /\ k \in Seq(Block \cup {GenesisBlock})
      /\ n \in Nat /\ n <= Len(c) /\ n <= Len(k) /\ \A i \in 1 .. n : k[i] = c[i]
  BY DEF Agree
<1>1. /\ DOMAIN c = 1 .. Len(c) /\ Len(c) \in Nat /\ IsFiniteSet(DOMAIN c)
      /\ DOMAIN k = 1 .. Len(k) /\ Len(k) \in Nat /\ IsFiniteSet(DOMAIN k)
      /\ (\A h \in DOMAIN c : c[h].fee \in Nat) /\ (\A h \in DOMAIN k : k[h].fee \in Nat)
  BY <1>0, ChainIs
<1>2. Before(r) \in Nat /\ N \in Nat \ {0} /\ r * N = Before(r) + N
  BY RoundFacts, Constants
<1>3. \A h \in Nat \ {0} : RoundOf(h) = r => h \in 1 .. n
  <2> SUFFICES ASSUME NEW h \in Nat \ {0}, RoundOf(h) = r PROVE h \in 1 .. n
    OBVIOUS
  <2>1. h <= Before(r) + N
    BY RoundHeights
  <2> QED BY <1>0, <1>2, <2>1
<1> DEFINE B == BlocksOf(c, r)
           f == FeeAt(c)
           g == FeeAt(k)
<1>4. B = BlocksOf(k, r) /\ B \subseteq 1 .. n
  <2>1. \A h \in DOMAIN c : h \in Nat \ {0}
    BY <1>1
  <2>2. \A h \in DOMAIN k : h \in Nat \ {0}
    BY <1>1
  <2>3. \A h \in 1 .. n : h \in DOMAIN c /\ h \in DOMAIN k
    BY <1>0, <1>1
  <2> QED BY <1>3, <2>1, <2>2, <2>3 DEF BlocksOf
<1>5. f \in [DOMAIN c -> Int] /\ g \in [DOMAIN k -> Int]
  BY <1>1 DEF FeeAt
<1>6. B \in SUBSET DOMAIN c /\ B \subseteq DOMAIN k /\ \A h \in B : k[h] = c[h] /\ f[h] = g[h]
  BY <1>0, <1>4, <1>1 DEF BlocksOf, FeeAt
<1> HIDE DEF B, f, g
<1>7. Total(f, B) = Total(g, B)
  BY <1>1, <1>5, <1>6, TotalAgrees
<1>8. FeesOf(c, r) = FeesOf(k, r)
  BY <1>4, <1>7 DEF FeesOf, B, f, g, FeeAt
<1>9. \A X : X \subseteq B => Made(c, a, X) = Made(k, a, X)
  BY <1>6 DEF Made
<1>10. B \subseteq B /\ (B \ {1}) \subseteq B
  OBVIOUS
<1>11. /\ Made(c, a, BlocksOf(c, r)) = Made(k, a, BlocksOf(k, r))
       /\ Made(c, a, BlocksOf(c, r) \ {1}) = Made(k, a, BlocksOf(k, r) \ {1})
  BY <1>4, <1>9, <1>10 DEF B
<1>12. k[r * N] = c[r * N]
  <2>1. r * N \in 1 .. n
    BY <1>0, <1>2
  <2> QED BY <1>0, <2>1
<1> QED BY <1>8, <1>11, <1>12 DEF FeesEarned, RewardsEarned

\* The last finished round ends where the round of the next height begins.
LEMMA LastEndIs ==
  ASSUME NEW h \in Nat \ {0}
  PROVE  /\ LastEnd(h) \in Nat /\ LastEnd(h) <= h /\ LastEnd(h) = Before(RoundOf(h + 1))
         /\ LastEnd(h) \div N = h \div N
         /\ h % N = 0 => LastEnd(h) = h
         /\ h % N # 0 => LastEnd(h) = Before(RoundOf(h)) /\ RoundOf(h + 1) = RoundOf(h)
         /\ \A i \in 1 .. h : LastEnd(h) < i => RoundOf(i) = RoundOf(h)
<1> DEFINE q == h \div N
           m == h % N
           l == LastEnd(h)
           r == RoundOf(h)
           s == RoundOf(h + 1)
<1>1. N \in Nat \ {0} /\ q \in Nat /\ m \in 0 .. N - 1 /\ h = q * N + m /\ q * N \in Nat
  BY Constants
<1>2. l = h - m /\ l = q * N
  BY <1>1 DEF LastEnd
<1>3. (q * N) \div N = q
  <2>1. \A x \in Nat : (x * N) \div N = x
    BY <1>1
  <2> HIDE DEF q
  <2> QED BY <1>1, <2>1
<1>4. l \div N = q
  BY <1>2, <1>3
<1>5. Before(q + 1) = q * N /\ q + 1 \in Nat \ {0} /\ h + 1 \in Nat \ {0}
  <2> HIDE DEF q
  <2> QED BY <1>1 DEF Before
<1>6. s = q + 1
  <2>1. Before(q + 1) < h + 1 /\ h + 1 <= Before(q + 1) + N
    <3> HIDE DEF q, m
    <3> QED BY <1>1, <1>5
  <2> DEFINE x == q + 1
             k == h + 1
  <2>2. x \in Nat \ {0} /\ k \in Nat \ {0} /\ Before(x) < k /\ k <= Before(x) + N
    BY <1>5, <2>1
  <2> HIDE DEF x, k
  <2>3. RoundOf(k) = x
    BY <2>2, RoundHeights
  <2> QED BY <2>3 DEF k, x
<1>7. s # r <=> m = 0
  BY RoundEnds
<1>8. ASSUME NEW i \in 1 .. h, l < i PROVE RoundOf(i) = r
  <2>1. m # 0
    <3> HIDE DEF m, q, l
    <3> QED BY <1>1, <1>2, <1>8
  <2>2. r = q + 1
    BY <1>6, <1>7, <2>1
  <2>3. Before(r) < i /\ i <= Before(r) + N
    <3> HIDE DEF m, q, l, r
    <3> QED BY <1>1, <1>2, <1>5, <1>8, <2>2
  <2>4. i \in Nat \ {0} /\ r \in Nat \ {0}
    BY <1>5, <2>2
  <2> HIDE DEF r
  <2> QED BY <2>3, <2>4, RoundHeights
<1> HIDE DEF q, m, l, r, s
<1>9. /\ l \in Nat /\ l <= h /\ l = Before(s) /\ l \div N = q
      /\ m = 0 => l = h
      /\ m # 0 => l = Before(r) /\ s = r
  BY <1>1, <1>2, <1>4, <1>5, <1>6, <1>7
<1> QED BY <1>8, <1>9 DEF q, m, l, r, s

\* The rounds that end up to the height h.
LEMMA RoundsUpTo ==
  ASSUME NEW h \in Nat, NEW r \in Nat \ {0}
  PROVE  r \in 1 .. h \div N <=> Before(r) + N <= h
<1> DEFINE q == h \div N
           m == h % N
<1>1. N \in Nat \ {0} /\ q \in Nat /\ m \in 0 .. N - 1 /\ h = q * N + m /\ q * N \in Nat
  BY Constants
<1> HIDE DEF q, m
<1>2. Before(q + 1) = q * N /\ q + 1 \in Nat \ {0}
  BY <1>1 DEF Before
<1>3. Before(r) \in Nat /\ (r < q + 1 => Before(r) + N <= Before(q + 1))
                        /\ (q + 1 < r => Before(q + 1) + N <= Before(r))
  BY <1>2, RoundFacts
<1>4. r \in 1 .. q <=> Before(r) + N <= h
  <2>1. r < q + 1 \/ r = q + 1 \/ q + 1 < r
    BY <1>1
  <2>2. r = q + 1 => Before(r) = q * N
    BY <1>2
  <2> QED BY <1>1, <1>2, <1>3, <2>1, <2>2
<1> QED BY <1>4 DEF q

\* Two chains that agree up to a height have the same votes there.
LEMMA CastAgree ==
  ASSUME NEW c, NEW k, NEW h, \A i \in 1 .. h : k[i] = c[i]
  PROVE  CastBy(k, h) = CastBy(c, h)
<1>1. \A v : {i \in 1 .. h : c[i].vote = v} = {i \in 1 .. h : k[i].vote = v}
  OBVIOUS
<1>2. \A v : TimesCast(k, v, h) = TimesCast(c, v, h)
  BY <1>1 DEF TimesCast
<1> QED BY <1>2 DEF CastBy

\* What the voters have up to a height is what they have in any chain with the same blocks.
LEMMA StakeLocal ==
  ASSUME NEW c, NEW k, NEW n, Agree(c, k, n), NEW h \in Nat, h <= n, NEW e
  PROVE  StakeAt(c, e, h) = StakeAt(k, e, h)
<1> DEFINE R == 1 .. h \div N
<1>0. n \in Nat /\ \A i \in 1 .. h : k[i] = c[i]
  BY DEF Agree
<1>1. CastBy(k, h) = CastBy(c, h)
  BY <1>0, CastAgree
<1>2. ASSUME NEW r \in R, NEW a
      PROVE  FeesEarned(c, a, r) = FeesEarned(k, a, r) /\ RewardsEarned(c, a, r) = RewardsEarned(k, a, r)
  <2>1. h \div N \in Nat
    BY Constants
  <2>2. r \in Nat \ {0}
    BY <2>1
  <2>3. Before(r) + N <= h /\ Before(r) \in Nat /\ N \in Nat
    BY <2>2, RoundsUpTo, RoundFacts, Constants
  <2>4. Before(r) + N <= n
    BY <1>0, <2>3
  <2> QED BY <2>2, <2>4, RoundLocal
<1>3. \A a : EarnedFees(c, a, R) = EarnedFees(k, a, R) /\ EarnedRewards(c, a, R) = EarnedRewards(k, a, R)
  <2> HIDE DEF R
  <2>1. \A a : /\ [r \in R |-> FeesEarned(c, a, r)] = [r \in R |-> FeesEarned(k, a, r)]
               /\ [r \in R |-> RewardsEarned(c, a, r)] = [r \in R |-> RewardsEarned(k, a, r)]
    BY <1>2
  <2> QED BY <2>1 DEF EarnedFees, EarnedRewards
<1>4. \A a : MovesOf(k, a, h) = MovesOf(c, a, h)
  BY <1>0, MovesAgree
<1> HIDE DEF R
<1>5. \A a : BalanceAt(c, a, h, R) = BalanceAt(k, a, h, R)
  BY <1>3, <1>4 DEF BalanceAt
<1>6. [a \in Account |-> BalanceAt(c, a, h, R)] = [a \in Account |-> BalanceAt(k, a, h, R)]
  BY <1>5
<1> QED BY <1>1, <1>6 DEF StakeAt, R

\* No block of c from l to h moves a balance or has a vote.
CalmOver(c, l, h) == \A i \in 1 .. h : l < i => c[i].vote = NoVote /\ c[i].moves = NoMoves

\* Such blocks move nothing.
LEMMA CalmMoves ==
  ASSUME NEW c \in Seq(Block \cup {GenesisBlock}), NEW h \in Nat, h <= Len(c), NEW l \in Nat, l <= h,
         CalmOver(c, l, h), NEW a \in Account
  PROVE  MovesOf(c, a, h) = MovesOf(c, a, l)
<1> DEFINE H == 1 .. h
           L == 1 .. l
           Z == l + 1 .. h
           f == [i \in H |-> c[i].moves[a]]
           g == [i \in L |-> c[i].moves[a]]
<1>1. IsFiniteSet(H) /\ IsFiniteSet(L)
  <2>1. 1 \in Int /\ h \in Int /\ l \in Int
    OBVIOUS
  <2> QED BY <2>1, FS_Interval
<1>2. H = L \cup Z /\ L \in SUBSET H /\ Z \in SUBSET H /\ \A x \in L : x \notin Z
  OBVIOUS
<1>3. \A i \in H : c[i].moves \in [Account -> Int]
  <2>1. H \subseteq DOMAIN c
    BY ChainIs
  <2> QED BY <2>1, ChainIs
<1>4. f \in [H -> Int] /\ g \in [L -> Int] /\ \A x \in L : f[x] = g[x]
  BY <1>2, <1>3
<1>5. \A x \in Z : f[x] = 0
  <2> SUFFICES ASSUME NEW x \in Z PROVE f[x] = 0
    OBVIOUS
  <2>1. x \in H /\ l < x
    BY <1>2
  <2>2. c[x].moves = NoMoves
    BY <2>1 DEF CalmOver
  <2> QED BY <2>1, <2>2 DEF NoMoves
<1>6. MovesOf(c, a, h) = Total(f, H) /\ MovesOf(c, a, l) = Total(g, L)
  BY DEF MovesOf
<1> HIDE DEF H, L, Z, f, g
<1>7. Total(f, L) = Total(g, L)
  <2>1. L \subseteq L
    OBVIOUS
  <2> QED BY <1>1, <1>2, <1>4, <2>1, TotalAgrees
<1>8. Total(f, Z) = 0
  BY <1>1, <1>2, <1>4, <1>5, TotalZero DEF IsZero
<1>9. Total(f, H) = Total(f, L) + Total(f, Z)
  <2>1. Total(f, L \cup Z) = Total(f, L) + Total(f, Z)
    <3>1. IsFiniteSet(H) /\ f \in [H -> Int]
      BY <1>1, <1>4
    <3>2. L \in SUBSET H /\ Z \in SUBSET H /\ \A x \in L : x \notin Z
      BY <1>2
    <3> QED BY <3>1, <3>2, TotalBoth
  <2> QED BY <1>2, <2>1
<1>10. Total(f, L) \in Int
  BY <1>1, <1>2, <1>4, TotalMore
<1> QED BY <1>6, <1>7, <1>8, <1>9, <1>10

\* Since the end of the last finished round such blocks leave the voters what they had.
LEMMA CalmStake ==
  ASSUME NEW c \in Seq(Block \cup {GenesisBlock}), NEW h \in Nat \ {0}, h <= Len(c),
         CalmOver(c, LastEnd(h), h), NEW e
  PROVE  StakeAt(c, e, h) = StakeAt(c, e, LastEnd(h))
<1> DEFINE l == LastEnd(h)
           R == 1 .. h \div N
           S == 1 .. l \div N
<1>1. l \in Nat /\ l <= h /\ S = R
  BY LastEndIs
<1>2. CalmOver(c, l, h)
  OBVIOUS
<1> HIDE DEF l, R, S
<1>3. \A v \in Vote : {i \in 1 .. h : c[i].vote = v} = {i \in 1 .. l : c[i].vote = v}
  <2> SUFFICES ASSUME NEW v \in Vote
               PROVE  {i \in 1 .. h : c[i].vote = v} = {i \in 1 .. l : c[i].vote = v}
    OBVIOUS
  <2>1. v # NoVote
    BY Constants
  <2>2. \A i \in 1 .. l : i \in 1 .. h
    BY <1>1
  <2>3. \A i \in 1 .. h : i \in 1 .. l \/ l < i
    BY <1>1
  <2> QED BY <1>2, <2>1, <2>2, <2>3 DEF CalmOver
<1>4. \A v \in Vote : TimesCast(c, v, h) = TimesCast(c, v, l)
  BY <1>3 DEF TimesCast
<1>5. CastBy(c, h) = CastBy(c, l)
  BY <1>4 DEF CastBy
<1>6. \A a \in Account : MovesOf(c, a, h) = MovesOf(c, a, l)
  BY <1>1, <1>2, CalmMoves
<1>7. \A a \in Account : BalanceAt(c, a, h, R) = BalanceAt(c, a, l, S)
  BY <1>1, <1>6 DEF BalanceAt
<1>8. [a \in Account |-> BalanceAt(c, a, h, R)] = [a \in Account |-> BalanceAt(c, a, l, S)]
  BY <1>7
<1> QED BY <1>5, <1>8 DEF StakeAt, R, S, l

\* One more height has at most one more vote.
LEMMA TimesGrow ==
  ASSUME NEW c, NEW h \in Nat \ {0}, NEW v
  PROVE  /\ TimesCast(c, v, h - 1) \in Nat
         /\ TimesCast(c, v, h) = TimesCast(c, v, h - 1) + IF c[h].vote = v THEN 1 ELSE 0
<1> DEFINE k == h - 1
           S == {i \in 1 .. k : c[i].vote = v}
           U == {i \in 1 .. h : c[i].vote = v}
<1>1. \A i \in 1 .. h : i = h \/ i \in 1 .. k
  OBVIOUS
<1>2. h \in 1 .. h /\ h \notin 1 .. k /\ \A i \in 1 .. k : i \in 1 .. h
  OBVIOUS
<1>3. IsFiniteSet(S)
  <2>1. 1 \in Int /\ k \in Int
    OBVIOUS
  <2>2. IsFiniteSet(1 .. k)
    BY <2>1, FS_Interval
  <2> QED BY <2>2, FS_Subset
<1>4. U = IF c[h].vote = v THEN S \cup {h} ELSE S
  BY <1>1, <1>2
<1>5. h \notin S
  BY <1>2
<1> HIDE DEF S, U
<1>6. Cardinality(S) \in Nat
  BY <1>3, FS_CardinalityType
<1>7. Cardinality(S \cup {h}) = Cardinality(S) + 1
  BY <1>3, <1>5, FS_AddElement
<1>8. Cardinality(U) = Cardinality(S) + IF c[h].vote = v THEN 1 ELSE 0
  BY <1>4, <1>6, <1>7
<1> QED BY <1>6, <1>8 DEF TimesCast, S, U

\* A block that is applied or popped toggles its vote.
LEMMA CastMoves ==
  ASSUME NEW d, NEW t, NEW c, NEW h \in Nat \ {0}, d.delegates \in SUBSET Vote,
         t.delegates \in SUBSET Vote, IsToggled(t, d, c[h].vote)
  PROVE  /\ d.delegates = CastBy(c, h - 1) => t.delegates = CastBy(c, h)
         /\ d.delegates = CastBy(c, h) => t.delegates = CastBy(c, h - 1)
<1> DEFINE p == h - 1
           Even(n) == n % 2 = 0
<1>1. ASSUME NEW v \in Vote
      PROVE  /\ v \in t.delegates <=> (IF v = c[h].vote THEN v \notin d.delegates ELSE v \in d.delegates)
             /\ v = c[h].vote => (Even(TimesCast(c, v, h)) <=> ~Even(TimesCast(c, v, p)))
             /\ v # c[h].vote => (Even(TimesCast(c, v, h)) <=> Even(TimesCast(c, v, p)))
  <2> DEFINE x == TimesCast(c, v, p)
             y == TimesCast(c, v, h)
  <2>1. x \in Nat /\ y = x + IF c[h].vote = v THEN 1 ELSE 0
    BY TimesGrow
  <2> HIDE DEF x, y
  <2>2. v = c[h].vote => (y % 2 = 0 <=> ~(x % 2 = 0))
    BY <2>1
  <2>3. v # c[h].vote => (y % 2 = 0 <=> x % 2 = 0)
    BY <2>1
  <2>4. v \in t.delegates <=> (IF v = c[h].vote THEN v \notin d.delegates ELSE v \in d.delegates)
    BY DEF IsToggled
  <2> QED BY <2>2, <2>3, <2>4 DEF x, y
<1>2. \A n : CastBy(c, n) = {v \in Vote : v \in InitialDelegates <=> Even(TimesCast(c, v, n))}
  BY DEF CastBy
<1> HIDE DEF Even
<1>3. ASSUME d.delegates = CastBy(c, p) PROVE t.delegates = CastBy(c, h)
  <2> SUFFICES ASSUME NEW v \in Vote
               PROVE  v \in t.delegates <=> (v \in InitialDelegates <=> Even(TimesCast(c, v, h)))
    BY <1>2
  <2>1. v \in d.delegates <=> (v \in InitialDelegates <=> Even(TimesCast(c, v, p)))
    BY <1>2, <1>3
  <2> QED BY <1>1, <2>1
<1>4. ASSUME d.delegates = CastBy(c, h) PROVE t.delegates = CastBy(c, p)
  <2> SUFFICES ASSUME NEW v \in Vote
               PROVE  v \in t.delegates <=> (v \in InitialDelegates <=> Even(TimesCast(c, v, p)))
    BY <1>2
  <2>1. v \in d.delegates <=> (v \in InitialDelegates <=> Even(TimesCast(c, v, h)))
    BY <1>2, <1>4
  <2> QED BY <1>1, <2>1
<1> QED BY <1>3, <1>4

\* Tables with the books, the votes and the earnings of a chain have what its voters have.
LEMMA HeldIs ==
  ASSUME NEW d \in Db, NEW c, NEW h, BooksAt(d, c, h), d.delegates = CastBy(c, h),
         \A a \in Account : /\ d.fees[a] = EarnedFees(c, a, 1 .. h \div N)
                            /\ d.rewards[a] = EarnedRewards(c, a, 1 .. h \div N),
         NEW e
  PROVE  Held(d, e) = StakeAt(c, e, h)
<1> DEFINE R == 1 .. h \div N
<1>1. \A a \in Account : d.balance[a] = BalanceAt(c, a, h, R)
  BY DEF BooksAt, BalanceAt
<1>2. d.balance \in [Account -> Int]
  BY DEF Db
<1> HIDE DEF R
<1>3. d.balance = [a \in Account |-> BalanceAt(c, a, h, R)]
  BY <1>1, <1>2
<1> QED BY <1>3 DEF Held, StakeAt, R

-----------------------------------------------------------------------------
(* What tick counts *)

\* t are the tables d after the block b, whose round is settled or not.
IsTicked(t, d, g, h, b, list) ==
  LET r == RoundOf(h)
      all == TickAll(g, h, b)
      settles == Settles(all, h)
  IN  /\ IsToggled(t, d, b.vote)
      /\ \A e \in Delegate :
           /\ t.vote[e] = d.vote[e] + IF settles THEN d.memRound[r][e] + (Held(t, e) - Held(d, e)) ELSE 0
           /\ t.missed[e] = d.missed[e] + IF settles /\ e \in Outsiders(IF h = 1 THEN {} ELSE list, all)
                                          THEN 1 ELSE 0
      /\ \A q \in Rounds : \A e \in Delegate :
           t.memRound[q][e] = IF q # r THEN d.memRound[q][e]
                              ELSE IF settles THEN 0
                              ELSE d.memRound[q][e] + (Held(t, e) - Held(d, e))

\* A block that is accepted changes the votes so.
LEMMA TickedIs ==
  ASSUME NEW d \in Db, NEW g \in Seq(Entry), NEW h \in Nat \ {0}, RoundOf(h) \in Rounds,
         NEW b \in Block \cup {GenesisBlock}, NEW list \in SUBSET Delegate,
         NEW t, t = Tick(d, g, h, b, list), t.ok
  PROVE  t.db \in Db /\ IsTicked(t.db, d, g, h, b, list)
<1> DEFINE r == RoundOf(h)
           one == 1
           made == TickMade(d, h, b)
           all == TickAll(g, h, b)
           n == Len(all)
           l == IF h = 1 THEN {} ELSE list
           paid == TickPaid(d, g, h, b, list)
           x == t.db
           settles == Settles(all, h)
<1>1. x \in Db /\ made \in Db /\ paid \in Db /\ r \in Rounds
  BY TickCases
<1>2. /\ IsProduced(made, d, b, r, one, h) /\ IsSettled(paid, made, all, n, one, l, r, h)
      /\ one = 1
  BY TickParts
<1>3. /\ ~settles => x = made
      /\ settles => /\ x.vote = paid.vote /\ x.memRound = paid.memRound /\ x.missed = paid.missed
                    /\ x.delegates = paid.delegates /\ x.balance = paid.balance
  <2>1. ~settles => x = made
    BY TickCases
  <2>2. Rewards(all) \in Nat /\ d.pool \in Nat
    <3>1. all \in Seq(Entry)
      BY TickCases
    <3> HIDE DEF all
    <3> QED BY <3>1, PayIs DEF Db
  <2>3. settles /\ d.pool < Rewards(all) => ~t.ok
    BY TickCases
  <2>4. settles => d.pool >= Rewards(all)
    BY <2>2, <2>3
  <2>5. settles /\ d.pool >= Rewards(all) =>
                    /\ x.vote = paid.vote /\ x.memRound = paid.memRound /\ x.missed = paid.missed
                    /\ x.delegates = paid.delegates /\ x.balance = paid.balance
    BY TickCases
  <2> QED BY <2>1, <2>4, <2>5
<1> HIDE DEF made, all, n, l, paid, x, settles, r
<1>4. \A e \in Delegate : /\ Held(d, e) \in Int /\ Held(made, e) \in Int /\ Held(x, e) \in Int
                          /\ settles => Held(x, e) = Held(paid, e)
                          /\ d.vote[e] \in Int /\ d.missed[e] \in Int
                          /\ \A q \in Rounds : d.memRound[q][e] \in Int
  <2>1. \A e \in Delegate : settles => Held(x, e) = Held(paid, e)
    BY <1>3 DEF Held
  <2>2. \A e \in Delegate : Held(d, e) \in Int /\ Held(made, e) \in Int /\ Held(x, e) \in Int
    BY <1>1, HeldInt
  <2> QED BY <2>1, <2>2 DEF Db
<1>5. IsToggled(x, d, b.vote)
  <2>1. IsToggled(made, d, b.vote)
    BY <1>2 DEF IsProduced
  <2>2. paid.delegates = made.delegates
    BY <1>2 DEF IsSettled
  <2> QED BY <1>3, <2>1, <2>2 DEF IsToggled
<1>6. \A q \in Rounds : \A e \in Delegate :
        made.memRound[q][e] = d.memRound[q][e] + IF q = r THEN Held(made, e) - Held(d, e) ELSE 0
  BY <1>2 DEF IsProduced, IsRecorded
<1>7. made.vote = d.vote /\ made.missed = d.missed
  BY <1>2 DEF IsProduced
<1>8. /\ \A e \in Delegate :
           /\ paid.vote[e] = made.vote[e] + made.memRound[r][e] + (Held(paid, e) - Held(made, e))
           /\ paid.missed[e] = made.missed[e] + IF e \in Outsiders(l, all) THEN 1 ELSE 0
      /\ \A q \in Rounds : \A e \in Delegate :
           paid.memRound[q][e] = IF q = r THEN 0 ELSE made.memRound[q][e]
  BY <1>2 DEF IsSettled
<1>9. ASSUME NEW e \in Delegate
      PROVE  /\ x.vote[e] = d.vote[e] + IF settles THEN d.memRound[r][e] + (Held(x, e) - Held(d, e)) ELSE 0
             /\ x.missed[e] = d.missed[e] + IF settles /\ e \in Outsiders(l, all) THEN 1 ELSE 0
  <2>1. CASE settles
    <3>1. x.vote[e] = d.vote[e] + (d.memRound[r][e] + (Held(made, e) - Held(d, e)))
                        + (Held(x, e) - Held(made, e))
      BY <1>1, <1>3, <1>4, <1>6, <1>7, <1>8, <2>1
    <3>2. x.missed[e] = d.missed[e] + IF e \in Outsiders(l, all) THEN 1 ELSE 0
      BY <1>3, <1>7, <1>8, <2>1
    <3> QED BY <1>1, <1>4, <2>1, <3>1, <3>2
  <2>2. CASE ~settles
    BY <1>3, <1>4, <1>7, <2>2
  <2> QED BY <2>1, <2>2
<1>10. ASSUME NEW q \in Rounds, NEW e \in Delegate
       PROVE  x.memRound[q][e] = IF q # r THEN d.memRound[q][e]
                                 ELSE IF settles THEN 0
                                 ELSE d.memRound[q][e] + (Held(x, e) - Held(d, e))
  <2>1. CASE settles
    BY <1>3, <1>4, <1>6, <1>8, <2>1
  <2>2. CASE ~settles
    BY <1>3, <1>4, <1>6, <2>2
  <2> QED BY <2>1, <2>2
<1> QED BY <1>1, <1>5, <1>9, <1>10 DEF IsTicked, x, all, settles, l, r

\* A block that is refused leaves the tables as they are.
LEMMA TickRefused ==
  ASSUME NEW d \in Db, NEW g \in Seq(Entry), NEW h \in Nat \ {0}, RoundOf(h) \in Rounds,
         NEW b \in Block \cup {GenesisBlock}, NEW list \in SUBSET Delegate,
         NEW t, t = Tick(d, g, h, b, list), ~t.ok
  PROVE  t.db = d
<1> DEFINE all == TickAll(g, h, b)
           x == d.pool
           y == Rewards(all)
<1>1. /\ all \in Seq(Entry)
      /\ ~Settles(all, h) => t.ok
      /\ Settles(all, h) /\ x < y => t.db = d
      /\ Settles(all, h) /\ x >= y => t.ok
  BY TickCases
<1> HIDE DEF all
<1>2. x \in Nat /\ y \in Nat
  BY <1>1, PayIs DEF Db
<1> HIDE DEF x, y
<1>3. x < y \/ x >= y
  BY <1>2
<1> QED BY <1>1, <1>3

\* An accepted block toggles its vote.
LEMMA TickCast ==
  ASSUME NEW d \in Db, NEW g \in Seq(Entry), NEW h \in Nat \ {0}, RoundOf(h) \in Rounds,
         NEW c, c[h] \in Block \cup {GenesisBlock}, NEW list \in SUBSET Delegate,
         NEW t, t = Tick(d, g, h, c[h], list), t.ok, d.delegates = CastBy(c, h - 1)
  PROVE  t.db.delegates = CastBy(c, h)
<1> DEFINE b == c[h]
           x == t.db
<1>1. x \in Db /\ IsTicked(x, d, g, h, b, list)
  <2>1. b \in Block \cup {GenesisBlock} /\ t = Tick(d, g, h, b, list)
    OBVIOUS
  <2> HIDE DEF b
  <2> QED BY <2>1, TickedIs
<1> HIDE DEF x
<1>2. IsToggled(x, d, c[h].vote)
  BY <1>1 DEF IsTicked
<1>3. x.delegates \in SUBSET Vote /\ d.delegates \in SUBSET Vote
  BY <1>1 DEF Db
<1>4. x.delegates = CastBy(c, h)
  BY <1>2, <1>3, CastMoves
<1> QED BY <1>4 DEF x

-----------------------------------------------------------------------------
(* The votes in the tables *)

\* The votes in the tables are those of the genesis block and of the blocks.
Cast == ~unpaid => db.delegates = CastBy(chain, Top)

\* The rounds that are finished at a height are those up to it.
LEMMA FinishedIs ==
  ASSUME ChainOK
  PROVE  Finished(chain) = 1 .. Top \div N
<1>1. Top \in Nat /\ Len(chain) = Top /\ Top <= MaxHeight /\ N \in Nat \ {0} /\ MaxHeight \in Nat
  BY Constants DEF ChainOK, Top
<1>2. Top \div N \in Nat
  BY <1>1
<1>3. ASSUME NEW r \in Nat \ {0} PROVE r * N <= Top <=> r \in 1 .. Top \div N
  <2> DEFINE h == Top
  <2>1. h \in Nat
    BY <1>1
  <2> HIDE DEF h
  <2>2. r \in 1 .. h \div N <=> Before(r) + N <= h
    BY <2>1, RoundsUpTo
  <2>3. r * N = Before(r) + N
    BY RoundFacts
  <2> QED BY <2>2, <2>3 DEF h
<1>4. ASSUME NEW r \in Nat \ {0}, r * N <= Top PROVE r \in Rounds
  <2> DEFINE h == r * N
  <2>1. h = Before(r) + N /\ Before(r) \in Nat
    BY RoundFacts
  <2>2. h \in Nat \ {0} /\ h <= Top
    BY <1>1, <1>4, <2>1
  <2> HIDE DEF h
  <2>3. Before(r) < h /\ h <= Before(r) + N
    BY <1>1, <2>1
  <2>4. RoundOf(h) = r
    BY <2>2, <2>3, RoundHeights
  <2>5. h \in 1 .. MaxHeight + 1
    BY <1>1, <2>2
  <2> QED BY <2>4, <2>5, RoundsOf
<1>5. \A r \in Rounds : r \in Nat \ {0}
  BY RoundsOf
<1>6. \A r \in 1 .. Top \div N : r \in Nat \ {0}
  BY <1>2
<1>7. Finished(chain) = {r \in Rounds : r * N <= Top}
  BY <1>1 DEF Finished
<1> QED BY <1>3, <1>4, <1>5, <1>6, <1>7

\* Where the settled rounds are the finished ones, the voters have what the chain gives them.
LEMMA StakeNow ==
  Base /\ Earned /\ Cast /\ ~unpaid /\ Settled = Finished(chain)
    => \A e \in Delegate : Held(db, e) = StakeAt(chain, e, Top)
<1> SUFFICES ASSUME Base, Earned, Cast, ~unpaid, Settled = Finished(chain), NEW e \in Delegate
             PROVE  Held(db, e) = StakeAt(chain, e, Top)
  OBVIOUS
<1> DEFINE d == db
           c == chain
           h == Top
<1>1. d \in Db /\ BooksAt(d, c, h) /\ d.delegates = CastBy(c, h)
  BY Types DEF Base, Earned, Booked, Cast
<1>2. Finished(c) = 1 .. h \div N
  BY FinishedIs DEF Base, Shape
<1>3. \A a \in Account : /\ d.fees[a] = EarnedFees(c, a, 1 .. h \div N)
                         /\ d.rewards[a] = EarnedRewards(c, a, 1 .. h \div N)
  BY <1>2, EarnedAre
<1> HIDE DEF d, c, h
<1>4. Held(d, e) = StakeAt(c, e, h)
  BY <1>1, <1>3, HeldIs
<1> QED BY <1>4 DEF d, c, h

\* So they have after a step.
LEMMA StakeThen ==
  (Base /\ Earned /\ Cast /\ ~unpaid /\ Settled = Finished(chain)
    => \A e \in Delegate : Held(db, e) = StakeAt(chain, e, Top))'
BY StakeNow, PTL

\* The genesis block has no vote.
LEMMA CastFirst ==
  ASSUME NEW c, c[1] = GenesisBlock
  PROVE  CastBy(c, 1) = InitialDelegates
<1>1. ASSUME NEW v \in Vote PROVE TimesCast(c, v, 1) = 0
  <2>1. c[1].vote = NoVote /\ v # NoVote
    BY Constants DEF GenesisBlock
  <2>2. {i \in 1 .. 1 : c[i].vote = v} = {}
    BY <2>1
  <2> QED BY <2>2, FS_EmptySet DEF TimesCast
<1>2. \A v \in Vote : TimesCast(c, v, 1) % 2 = 0
  BY <1>1
<1>3. InitialDelegates \in SUBSET Vote
  BY Constants
<1> QED BY <1>2, <1>3 DEF CastBy

\* The tables with the genesis block have the votes of its voters, and nothing in mem_round.
LEMMA StartedVotes ==
  ASSUME NEW p \in Nat, NEW s, s = Started([NewDb EXCEPT !.pool = p])
  PROVE  /\ s.ok /\ s.db \in Db /\ s.db.delegates = InitialDelegates /\ Clean(s.db)
         /\ \A e \in Delegate : s.db.vote[e] = Held(s.db, e) /\ s.db.missed[e] = 0
         /\ \A q \in Rounds : \A e \in Delegate : s.db.memRound[q][e] = 0
<1> DEFINE n == [NewDb EXCEPT !.pool = p]
           b == GenesisBlock
           g == << >>
           l == {}
           one == 1
           all == TickAll(g, one, b)
           x == s.db
<1>1. IsNew(n, p)
  <2>1. n = [NewDb EXCEPT !.pool = p]
    OBVIOUS
  <2> HIDE DEF n
  <2> QED BY <2>1, NewDbIs
<1>2. /\ one \in Nat \ {0} /\ RoundOf(one) \in Rounds /\ g \in Seq(Entry) /\ l \in SUBSET Delegate
      /\ b \in Block \cup {GenesisBlock} /\ RoundOf(one) = 1
  <2>1. 1 \in 1 .. MaxHeight + 1
    BY Constants
  <2>2. Before(1) = 0 /\ N \in Nat \ {0} /\ 1 \in Nat \ {0}
    BY RoundFacts, Constants
  <2>3. Before(1) < 1 /\ 1 <= Before(1) + N
    BY <2>2
  <2> QED BY <2>1, <2>2, <2>3, RoundsOf, RoundHeights
<1>3. s = Tick(n, g, one, b, l)
  BY DEF Started
<1>4. Settles(all, one)
  BY DEF Settles
<1>5. s.ok /\ x \in Db /\ Clean(x)
  <2> DEFINE c == <<GenesisBlock>>
  <2>1. c[1] = GenesisBlock
    OBVIOUS
  <2> HIDE DEF c
  <2> QED BY <2>1, StartedBooks
<1> HIDE DEF n, b, g, l, one, all, x
<1>6. n \in Db
  BY <1>1 DEF IsNew
<1>7. IsTicked(x, n, g, one, b, l)
  BY <1>2, <1>3, <1>5, <1>6, TickedIs DEF x
<1>8. x.delegates = InitialDelegates
  <2>1. \A v \in Vote : v # b.vote
    BY Constants DEF b, GenesisBlock
  <2>2. \A v \in Vote : v \in x.delegates <=> v \in n.delegates
    BY <1>7, <2>1 DEF IsTicked, IsToggled
  <2>3. x.delegates \in SUBSET Vote /\ n.delegates \in SUBSET Vote /\ n.delegates = InitialDelegates
    BY <1>1, <1>5, <1>6 DEF Db, IsNew
  <2> QED BY <2>2, <2>3
<1>9. ASSUME NEW e \in Delegate PROVE x.vote[e] = Held(x, e) /\ x.missed[e] = 0
  <2>1. n.vote[e] = 0 /\ n.missed[e] = 0 /\ 1 \in Rounds /\ n.memRound[1][e] = Held(n, e)
    BY <1>1, <1>2 DEF IsNew
  <2>2. /\ x.vote[e] = n.vote[e] + (n.memRound[1][e] + (Held(x, e) - Held(n, e)))
        /\ x.missed[e] = n.missed[e] + IF e \in Outsiders(IF one = 1 THEN {} ELSE l, all) THEN 1 ELSE 0
    BY <1>2, <1>4, <1>7 DEF IsTicked, all
  <2>3. e \notin Outsiders(IF one = 1 THEN {} ELSE l, all)
    BY DEF Outsiders, one
  <2>4. Held(x, e) \in Int /\ Held(n, e) \in Int
    BY <1>5, <1>6, HeldInt
  <2> QED BY <2>1, <2>2, <2>3, <2>4
<1>10. ASSUME NEW q \in Rounds, NEW e \in Delegate PROVE x.memRound[q][e] = 0
  <2>1. q # 1 => n.memRound[q][e] = 0
    BY <1>1 DEF IsNew
  <2>2. x.memRound[q][e] = IF q # 1 THEN n.memRound[q][e] ELSE 0
    BY <1>2, <1>4, <1>7 DEF IsTicked, all
  <2> QED BY <2>1, <2>2
<1> QED BY <1>5, <1>8, <1>9, <1>10 DEF x


-----------------------------------------------------------------------------
(* The votes of the blocks that are applied again *)

\* A round below the height N is the first.
LEMMA FirstRound ==
  ASSUME NEW h \in Nat \ {0}, h < N
  PROVE  /\ RoundOf(h) = 1 /\ h % N # 0 /\ RoundOf(h + 1) = 1
         /\ \A q \in Rounds : Before(q) \in Nat /\ (Before(q) < h => q = 1) /\ ~(Before(q) + N <= h)
<1>1. N \in Nat \ {0} /\ Before(1) = 0
  BY Constants, RoundFacts
<1>2. RoundOf(h) = 1 /\ RoundOf(h + 1) = 1
  <2> DEFINE k == h + 1
  <2>1. k \in Nat \ {0} /\ 1 \in Nat \ {0} /\ Before(1) < k /\ k <= Before(1) + N
    BY <1>1
  <2> HIDE DEF k
  <2>2. RoundOf(k) = 1
    BY <2>1, RoundHeights
  <2>3. RoundOf(h) = 1
    BY <1>1, RoundHeights
  <2> QED BY <2>2, <2>3 DEF k
<1>3. h % N # 0
  <2>1. h % N = 0 <=> h = Before(RoundOf(h)) + N
    BY RoundFacts
  <2> QED BY <1>1, <1>2, <2>1
<1>4. ASSUME NEW q \in Rounds
      PROVE  Before(q) \in Nat /\ (Before(q) < h => q = 1) /\ ~(Before(q) + N <= h)
  <2> DEFINE r == RoundOf(h)
  <2>1. r = RoundOf(h)
    OBVIOUS
  <2> HIDE DEF r
  <2>2. Before(q) \in Nat /\ (q # r => Before(q) + N <= Before(r) \/ Before(r) + N <= Before(q))
    BY <2>1, Places
  <2>3. r = 1 /\ Before(r) = 0
    BY <1>1, <1>2, <2>1
  <2> QED BY <1>1, <2>2, <2>3
<1> QED BY <1>2, <1>3, <1>4

\* The votes in the tables d are what the voters had at the end of the last finished round, ...
CountedAt(d, c, h) == \A e \in Delegate : d.vote[e] = StakeAt(c, e, LastEnd(h))

\* ... the row of the round q has what they have more, ...
WaitingAt(d, q) == \A e \in Delegate : d.vote[e] + d.memRound[q][e] = Held(d, e)

\* ... and the rows of other rounds are empty.
EmptyBut(d, Q) == \A q \in Rounds \ Q : \A e \in Delegate : d.memRound[q][e] = 0

\* The list of a round is that of the votes at its beginning.
ListOf(c, r) == List([e \in Delegate |-> StakeAt(c, e, Before(r))])

\* Within a round the last finished one is that of the height below.
LEMMA LastEndStays ==
  ASSUME NEW h \in Nat \ {0, 1}, h % N # 0
  PROVE  LastEnd(h) = LastEnd(h - 1) /\ LastEnd(h) = Before(RoundOf(h)) /\ RoundOf(h + 1) = RoundOf(h)
<1> DEFINE n == h - 1
<1>1. n \in Nat \ {0} /\ n + 1 = h
  OBVIOUS
<1> HIDE DEF n
<1>2. LastEnd(n) = Before(RoundOf(n + 1))
  BY <1>1, LastEndIs
<1>3. LastEnd(h) = Before(RoundOf(h)) /\ RoundOf(h + 1) = RoundOf(h)
  BY LastEndIs
<1> QED BY <1>1, <1>2, <1>3 DEF n

\* A block that does not end a round only adds to the row of its round.
LEMMA TickWaits ==
  ASSUME NEW d \in Db, NEW g \in Seq(Entry), NEW h \in Nat \ {0, 1}, RoundOf(h) \in Rounds,
         NEW b \in Block \cup {GenesisBlock}, NEW list \in SUBSET Delegate,
         NEW t, t = Tick(d, g, h, b, list), t.ok, h % N # 0
  PROVE  /\ t.db \in Db
         /\ \A e \in Delegate : t.db.vote[e] = d.vote[e] /\ t.db.missed[e] = d.missed[e]
         /\ \A q \in Rounds : q # RoundOf(h) =>
              \A e \in Delegate : t.db.memRound[q][e] = d.memRound[q][e]
         /\ WaitingAt(d, RoundOf(h)) => WaitingAt(t.db, RoundOf(h))
<1> DEFINE r == RoundOf(h)
           x == t.db
           all == TickAll(g, h, b)
<1>1. x \in Db /\ IsTicked(x, d, g, h, b, list)
  BY TickedIs
<1>2. ~Settles(all, h)
  BY RoundEnds DEF Settles
<1> HIDE DEF x, all
<1>3. /\ \A e \in Delegate : /\ x.vote[e] = d.vote[e] + 0 /\ x.missed[e] = d.missed[e] + 0
      /\ \A q \in Rounds : \A e \in Delegate :
           x.memRound[q][e] = IF q # r THEN d.memRound[q][e] ELSE d.memRound[q][e] + (Held(x, e) - Held(d, e))
  BY <1>1, <1>2 DEF IsTicked, all
<1>4. \A e \in Delegate : /\ d.vote[e] \in Int /\ d.missed[e] \in Int /\ d.memRound[r][e] \in Int
                          /\ Held(d, e) \in Int /\ Held(x, e) \in Int
  <2>1. \A e \in Delegate : Held(d, e) \in Int /\ Held(x, e) \in Int
    BY <1>1, HeldInt
  <2> QED BY <2>1 DEF Db
<1>5. ASSUME WaitingAt(d, r) PROVE WaitingAt(x, r)
  <2> SUFFICES ASSUME NEW e \in Delegate PROVE x.vote[e] + x.memRound[r][e] = Held(x, e)
    BY DEF WaitingAt
  <2>1. d.vote[e] + d.memRound[r][e] = Held(d, e)
    BY <1>5 DEF WaitingAt
  <2>2. x.memRound[r][e] = d.memRound[r][e] + (Held(x, e) - Held(d, e)) /\ x.vote[e] = d.vote[e] + 0
    BY <1>3
  <2> QED BY <1>4, <2>1, <2>2
<1> QED BY <1>1, <1>3, <1>4, <1>5 DEF x

\* A block that ends a round counts what the voters have.
LEMMA TickCloses ==
  ASSUME NEW d \in Db, NEW g \in Seq(Entry), NEW h \in Nat \ {0}, RoundOf(h) \in Rounds,
         NEW b \in Block \cup {GenesisBlock}, NEW list \in SUBSET Delegate,
         NEW t, t = Tick(d, g, h, b, list), t.ok, Settles(TickAll(g, h, b), h),
         WaitingAt(d, RoundOf(h))
  PROVE  /\ t.db \in Db
         /\ \A e \in Delegate : t.db.vote[e] = Held(t.db, e) /\ t.db.memRound[RoundOf(h)][e] = 0
         /\ \A q \in Rounds : q # RoundOf(h) =>
              \A e \in Delegate : t.db.memRound[q][e] = d.memRound[q][e]
<1> DEFINE r == RoundOf(h)
           x == t.db
           all == TickAll(g, h, b)
<1>1. x \in Db /\ IsTicked(x, d, g, h, b, list)
  BY TickedIs
<1>2. Settles(all, h)
  OBVIOUS
<1> HIDE DEF x, all
<1>3. /\ \A e \in Delegate : x.vote[e] = d.vote[e] + (d.memRound[r][e] + (Held(x, e) - Held(d, e)))
      /\ \A q \in Rounds : \A e \in Delegate :
           x.memRound[q][e] = IF q # r THEN d.memRound[q][e] ELSE 0
  BY <1>1, <1>2 DEF IsTicked, all
<1>4. \A e \in Delegate : /\ d.vote[e] \in Int /\ d.memRound[r][e] \in Int
                          /\ Held(d, e) \in Int /\ Held(x, e) \in Int
  <2>1. \A e \in Delegate : Held(d, e) \in Int /\ Held(x, e) \in Int
    BY <1>1, HeldInt
  <2> QED BY <2>1 DEF Db
<1>5. \A e \in Delegate : d.vote[e] + d.memRound[r][e] = Held(d, e)
  BY DEF WaitingAt
<1>6. \A e \in Delegate : x.vote[e] = Held(x, e)
  BY <1>3, <1>4, <1>5
<1> QED BY <1>1, <1>3, <1>6 DEF x

\* The genesis block moves nothing and has no vote.
LEMMA GenesisCalm ==
  ASSUME NEW c, c[1] = GenesisBlock, NEW l
  PROVE  CalmOver(c, l, 1)
BY DEF CalmOver, GenesisBlock

\* While the first round lasts the voters have, after the genesis block, what it gives them.
LEMMA StartedStake ==
  ASSUME NEW p \in Nat, NEW c \in Seq(Block \cup {GenesisBlock}), c # << >>, c[1] = GenesisBlock, 1 < N,
         NEW s, s = Started([NewDb EXCEPT !.pool = p]), NEW e \in Delegate
  PROVE  s.db.vote[e] = StakeAt(c, e, LastEnd(1))
<1> DEFINE one == 1
           d == s.db
           R == 1 .. one \div N
<1>1. s.ok /\ d \in Db /\ BooksAt(d, c, one) /\ Clean(d)
  BY StartedBooks
<1>2. d.delegates = InitialDelegates /\ d.vote[e] = Held(d, e)
  BY StartedVotes
<1>3. CastBy(c, one) = InitialDelegates
  BY CastFirst
<1>4. R = {}
  <2>1. N \in Nat \ {0}
    BY Constants
  <2>2. one \div N = 0
    BY <2>1
  <2> QED BY <2>2
<1>5. \A a \in Account : d.fees[a] = EarnedFees(c, a, R) /\ d.rewards[a] = EarnedRewards(c, a, R)
  <2> SUFFICES ASSUME NEW a \in Account
               PROVE  d.fees[a] = EarnedFees(c, a, R) /\ d.rewards[a] = EarnedRewards(c, a, R)
    OBVIOUS
  <2> DEFINE U == {}
             f == [r \in U |-> FeesEarned(c, a, r)]
             g == [r \in U |-> RewardsEarned(c, a, r)]
  <2>1. IsFiniteSet(U) /\ f \in [U -> Int] /\ g \in [U -> Int]
    BY FS_EmptySet
  <2> HIDE DEF f, g
  <2>2. Total(f, {}) = 0 /\ Total(g, {}) = 0
    <3> HIDE DEF U
    <3> QED BY <2>1, TotalMore
  <2>3. EarnedFees(c, a, {}) = 0 /\ EarnedRewards(c, a, {}) = 0
    BY <2>2 DEF EarnedFees, EarnedRewards, f, g
  <2> QED BY <1>1, <1>4, <2>3 DEF Clean
<1>6. one \in Nat \ {0} /\ one <= Len(c) /\ CalmOver(c, LastEnd(one), one)
  BY GenesisCalm
<1> HIDE DEF one, d
<1>7. Held(d, e) = StakeAt(c, e, one)
  BY <1>1, <1>2, <1>3, <1>5, HeldIs
<1>8. StakeAt(c, e, one) = StakeAt(c, e, LastEnd(one))
  BY <1>6, CalmStake
<1> QED BY <1>2, <1>7, <1>8 DEF one, d

\* What is applied again, up to the height h: the votes that were cast, and, while the first
\* round lasts, that nothing of it is counted or missed and by which list blocks are accepted.
IsReplayed(s, h) ==
  /\ s.db.delegates = CastBy(chain, h)
  /\ h < N => /\ CountedAt(s.db, chain, h) /\ WaitingAt(s.db, 1) /\ EmptyBut(s.db, {1})
              /\ \A e \in Delegate : s.db.missed[e] = 0
              /\ h > 1 => s.lists[1] = ListOf(chain, 1)

\* The replay starts so, with the genesis block.
LEMMA ReplayStarts ==
  ASSUME ChainOK, db \in Db
  PROVE  ReplayStart \in Replays /\ IsReplayed(ReplayStart, 1)
<1> DEFINE s == ReplayStart
           p == db.pool
           g == Started([NewDb EXCEPT !.pool = p])
           ls == [r \in Rounds |-> {}]
           x == g.db
<1>0. /\ p \in Nat /\ chain[1] = GenesisBlock /\ chain # << >>
      /\ chain \in Seq(Block \cup {GenesisBlock})
  BY Constants DEF ChainOK, Db, Top
<1>1. g.gathered \in Seq(Entry)
  BY <1>0, StartedIs
<1>2. /\ g.ok /\ x \in Db /\ x.delegates = InitialDelegates
      /\ \A e \in Delegate : x.vote[e] = Held(x, e) /\ x.missed[e] = 0
      /\ \A q \in Rounds : \A e \in Delegate : x.memRound[q][e] = 0
  <2>1. g = Started([NewDb EXCEPT !.pool = p])
    OBVIOUS
  <2> HIDE DEF g, p
  <2> QED BY <1>0, <2>1, StartedVotes
<1>3. 1 < N => CountedAt(x, chain, 1)
  <2>1. g = Started([NewDb EXCEPT !.pool = p])
    OBVIOUS
  <2> HIDE DEF g, p
  <2> QED BY <1>0, <2>1, StartedStake DEF CountedAt
<1>4. s = [ok |-> TRUE, db |-> g.db, gathered |-> g.gathered, lists |-> ls]
  BY DEF ReplayStart
<1>5. ls \in [Rounds -> SUBSET Delegate]
  OBVIOUS
<1> HIDE DEF g, ls, s, p, x
<1>6. s \in Replays /\ s.db = x
  BY <1>1, <1>2, <1>4, <1>5 DEF Replays, x
<1>7. x.delegates = CastBy(chain, 1)
  BY <1>0, <1>2, CastFirst
<1>8. WaitingAt(x, 1) /\ EmptyBut(x, {1})
  <2>1. 1 \in Rounds
    <3>0. N \in Nat \ {0} /\ Before(1) = 0 /\ 1 \in 1 .. MaxHeight + 1
      BY Constants, RoundFacts
    <3>1. 1 \in 1 .. MaxHeight + 1 /\ 1 \in Nat \ {0} /\ Before(1) < 1 /\ 1 <= Before(1) + N
      BY <3>0
    <3>2. RoundOf(1) = 1
      BY <3>1, RoundHeights
    <3> QED BY <3>1, <3>2, RoundsOf
  <2>2. \A e \in Delegate : x.memRound[1][e] = 0 /\ Held(x, e) \in Int
    BY <1>2, <2>1, HeldInt
  <2>3. \A e \in Delegate : x.vote[e] + x.memRound[1][e] = Held(x, e)
    BY <1>2, <2>2
  <2> QED BY <1>2, <2>3 DEF WaitingAt, EmptyBut
<1>9. IsReplayed(s, 1)
  BY <1>2, <1>3, <1>6, <1>7, <1>8 DEF IsReplayed
<1> QED BY <1>6, <1>9 DEF s

\* A block of the first round is applied again.
LEMMA ReplayFirst ==
  ASSUME ChainOK, NEW x \in Replays, NEW h \in 2 .. Top, h < N, IsReplayed(x, h - 1),
         NEW t, t = ReplayTick(x, h), t.ok
  PROVE  /\ CountedAt(t.db, chain, h) /\ WaitingAt(t.db, 1) /\ EmptyBut(t.db, {1})
         /\ \A e \in Delegate : t.db.missed[e] = 0
         /\ List(x.db.vote) = ListOf(chain, 1)
<1> DEFINE d == x.db
           g == x.gathered
           l == List(d.vote)
           n == h - 1
           b == chain[h]
           k == t.db
<1>0. h \in Nat \ {0, 1} /\ n \in Nat \ {0} /\ n < N /\ d \in Db /\ g \in Seq(Entry)
      /\ l \in SUBSET Delegate /\ RoundOf(h) \in Rounds /\ b \in Block \cup {GenesisBlock}
  <2>1. h \in Nat \ {0, 1} /\ h \in 1 .. MaxHeight + 1 /\ n \in Nat \ {0} /\ n < N
    BY Constants DEF ChainOK
  <2>2. RoundOf(h) \in Rounds
    BY <2>1, RoundsOf
  <2> QED BY <2>1, <2>2 DEF Replays, List, ChainOK
<1>1. t = Tick(d, g, h, b, l)
  BY DEF ReplayTick
<1>2. /\ CountedAt(d, chain, n) /\ WaitingAt(d, 1) /\ EmptyBut(d, {1})
      /\ \A e \in Delegate : d.missed[e] = 0
  BY <1>0 DEF IsReplayed
<1>3. RoundOf(h) = 1 /\ h % N # 0
  BY <1>0, FirstRound
<1>4. LastEnd(h) = LastEnd(n) /\ LastEnd(h) = Before(1)
  BY <1>0, <1>3, LastEndStays
<1> HIDE DEF d, g, l, n, b, k
<1>5. /\ k \in Db
      /\ \A e \in Delegate : k.vote[e] = d.vote[e] /\ k.missed[e] = d.missed[e]
      /\ \A q \in Rounds : q # 1 => \A e \in Delegate : k.memRound[q][e] = d.memRound[q][e]
      /\ WaitingAt(k, 1)
  BY <1>0, <1>1, <1>2, <1>3, TickWaits DEF k
<1>6. CountedAt(k, chain, h)
  BY <1>2, <1>4, <1>5 DEF CountedAt
<1>7. EmptyBut(k, {1})
  BY <1>2, <1>5 DEF EmptyBut
<1>8. d.vote = [e \in Delegate |-> StakeAt(chain, e, Before(1))]
  <2>1. d.vote \in [Delegate -> Int]
    BY <1>0 DEF Db
  <2> QED BY <1>2, <1>4, <2>1 DEF CountedAt
<1> QED BY <1>2, <1>5, <1>6, <1>7, <1>8 DEF ListOf, k, d

\* The blocks applied again give the votes of the chain; the first round counts none before
\* its end.
LEMMA ReplayedVotes ==
  ASSUME ChainOK, db \in Db
  PROVE  Replayed.ok => IsReplayed(Replayed, Top)
<1> DEFINE J == [h \in 1 .. Top |-> {s \in Replays : s.ok => IsReplayed(s, h)}]
           s == ReplayStart
<1>0. Top \in Nat \ {0}
  BY Constants DEF ChainOK
<1>1. s \in Replays /\ IsReplayed(s, 1)
  BY ReplayStarts
<1>2. ASSUME NEW h \in 2 .. Top, NEW x \in Replays, x \in J[h - 1]
      PROVE  ReplayOne(x, h) \in J[h]
  <2> DEFINE y == ReplayOne(x, h)
             d == x.db
             g == x.gathered
             list == List(d.vote)
             t == ReplayTick(x, h)
             c == chain
  <2>1. (x.ok => IsReplayed(x, h - 1)) /\ d \in Db /\ g \in Seq(Entry) /\ x.ok \in BOOLEAN
        /\ x.lists \in [Rounds -> SUBSET Delegate]
    BY <1>0, <1>2 DEF Replays
  <2>2. h \in Nat \ {0} /\ h # 1 /\ RoundOf(h) \in Rounds /\ c[h] \in Block \cup {GenesisBlock}
        /\ list \in SUBSET Delegate
    <3>1. h \in Nat \ {0} /\ h \in 1 .. MaxHeight + 1
      BY Constants DEF ChainOK
    <3>2. RoundOf(h) \in Rounds
      BY <3>1, RoundsOf
    <3> QED BY <3>1, <3>2 DEF ChainOK, List
  <2>3. y \in Replays
        /\ (y.ok => /\ x.ok /\ t.ok /\ y.db = t.db
                    /\ y.lists = [x.lists EXCEPT ![RoundOf(h)] = list])
    BY ReplayOneIs
  <2>4. ASSUME y.ok PROVE IsReplayed(y, h)
    <3>1. IsReplayed(x, h - 1) /\ t.ok
      BY <2>1, <2>3, <2>4
    <3>2. d.delegates = CastBy(c, h - 1)
      BY <3>1 DEF IsReplayed
    <3>3. t = Tick(d, g, h, c[h], list)
      BY DEF ReplayTick
    <3>4. t = ReplayTick(x, h)
      OBVIOUS
    <3> HIDE DEF t
    <3>5. h < N => /\ CountedAt(t.db, chain, h) /\ WaitingAt(t.db, 1) /\ EmptyBut(t.db, {1})
                   /\ \A e \in Delegate : t.db.missed[e] = 0
                   /\ list = ListOf(chain, 1)
      BY <3>1, <3>4, ReplayFirst
    <3>6. h < N => y.lists[1] = list
      <4> SUFFICES ASSUME h < N PROVE y.lists[1] = list
        OBVIOUS
      <4>1. RoundOf(h) = 1
        BY <2>2, FirstRound
      <4> QED BY <2>1, <2>2, <2>3, <2>4, <4>1
    <3> HIDE DEF d, g, list, c
    <3>7. t.db.delegates = CastBy(c, h)
      BY <2>1, <2>2, <3>1, <3>2, <3>3, TickCast
    <3>8. y.db = t.db
      BY <2>3, <2>4
    <3> HIDE DEF y
    <3> QED BY <3>5, <3>6, <3>7, <3>8 DEF IsReplayed, c
  <2>5. h \in 1 .. Top
    BY <1>0
  <2> HIDE DEF y
  <2> QED BY <2>3, <2>4, <2>5 DEF y
<1>3. s \in J[1]
  BY <1>0, <1>1
<1> HIDE DEF J
<1>4. Replayed \in Replays /\ Replayed \in J[Top]
  BY <1>1, <1>2, <1>3, ReplayFold
<1> QED BY <1>0, <1>4 DEF J

-----------------------------------------------------------------------------
(* The votes of the blocks *)

\* At the start they are those of the genesis block.
LEMMA CastInit == Init => Cast
<1> SUFFICES ASSUME Init PROVE db.delegates = CastBy(chain, Top)
  BY DEF Cast
<1>1. db = Started(NewDb).db /\ chain = <<GenesisBlock>>
  BY DEF Init
<1>2. Top = 1 /\ chain[1] = GenesisBlock
  BY <1>1 DEF Top
<1>3. RewardPool \in Nat
  BY Constants
<1> DEFINE s == Started([NewDb EXCEPT !.pool = RewardPool])
<1>4. s = Started(NewDb)
  BY NewDbSame
<1>5. s.db.delegates = InitialDelegates
  <2>1. s = Started([NewDb EXCEPT !.pool = RewardPool])
    OBVIOUS
  <2> HIDE DEF s
  <2> QED BY <1>3, <2>1, StartedVotes
<1> QED BY <1>1, <1>2, <1>4, <1>5, CastFirst

\* An accepted block keeps the votes those of the chain.
LEMMA CastAccept ==
  ASSUME Base, Cast, ~unpaid, NEW b \in Block, ApplyBlock(b), NEW h, h = Top + 1, NEW r, r = RoundOf(h),
         NEW t, t = Tick(db, gathered[r], h, b, ListFor(h)), t.ok
  PROVE  db'.delegates = CastBy(chain', Top')
<1> DEFINE g == gathered[r]
           l == ListFor(h)
           k == chain'
           n == Top
<1>1. /\ h \in Nat \ {0} /\ r \in Rounds /\ n = h - 1
      /\ db \in Db /\ gathered \in [Rounds -> Seq(Entry)] /\ l \in SUBSET Delegate
      /\ b \in Block \cup {GenesisBlock}
      /\ db' = t.db /\ Top' = h /\ k[h] = b /\ \A i \in 1 .. n : k[i] = chain[i]
  BY AcceptIs
<1>2. db.delegates = CastBy(chain, n)
  BY DEF Cast
<1>3. g \in Seq(Entry) /\ RoundOf(h) \in Rounds
  BY <1>1
<1>4. t = Tick(db, g, h, k[h], l) /\ k[h] \in Block \cup {GenesisBlock}
  BY <1>1
<1> HIDE DEF k, g, l, n
<1>5. db.delegates = CastBy(k, n)
  BY <1>1, <1>2, CastAgree
<1>6. db.delegates = CastBy(k, h - 1)
  BY <1>1, <1>5
<1>7. t.db.delegates = CastBy(k, h)
  <2> DEFINE d == db
             v == t.db
  <2>1. v \in Db /\ IsTicked(v, d, g, h, b, l)
    <3>1. t = Tick(d, g, h, b, l)
      BY <1>1, <1>4
    <3> HIDE DEF d, v
    <3> QED BY <1>1, <1>3, <3>1, TickedIs DEF d, v
  <2>2. IsToggled(v, d, k[h].vote)
    BY <1>1, <2>1 DEF IsTicked
  <2>3. v.delegates \in SUBSET Vote /\ d.delegates \in SUBSET Vote
    BY <1>1, <2>1 DEF Db
  <2>4. d.delegates = CastBy(k, h - 1) /\ h \in Nat \ {0}
    BY <1>1, <1>6
  <2>5. PICK c : c = k
    OBVIOUS
  <2>6. IsToggled(v, d, c[h].vote) /\ d.delegates = CastBy(c, h - 1)
    BY <2>2, <2>4, <2>5
  <2> HIDE DEF d, v
  <2>7. v.delegates = CastBy(c, h)
    BY <2>3, <2>4, <2>6, CastMoves
  <2> QED BY <2>5, <2>7 DEF v
<1> QED BY <1>1, <1>7 DEF k

\* A block that is refused changes neither the tables nor the chain.
LEMMA RefuseIs ==
  ASSUME Base, NEW b \in Block, ApplyBlock(b), NEW h, h = Top + 1, NEW r, r = RoundOf(h),
         NEW t, t = Tick(db, gathered[r], h, b, ListFor(h)), ~t.ok
  PROVE  db' = db /\ chain' = chain /\ Top' = Top /\ lists' = lists /\ phase = "idle" /\ phase' = "idle"
         /\ h \in Nat \ {0} /\ r \in Rounds
<1> DEFINE g == gathered[r]
           l == ListFor(h)
<1>1. /\ h \in 2 .. MaxHeight /\ r \in Rounds
      /\ g \in Seq(Entry) /\ l \in SUBSET Delegate /\ db' = t.db /\ chain' = chain
  <2>1. TypeOK /\ Shape
    BY DEF Base
  <2> QED BY <2>1, ApplyIs
<1>2. db \in Db /\ b \in Block \cup {GenesisBlock} /\ h \in Nat \ {0} /\ RoundOf(h) \in Rounds
  BY <1>1, Types, Constants DEF Base
<1>3. t = Tick(db, g, h, b, l)
  OBVIOUS
<1>4. phase = "idle" /\ phase' = "idle" /\ lists' = lists
  BY DEF ApplyBlock
<1> HIDE DEF g, l
<1>5. t.db = db
  BY <1>1, <1>2, <1>3, TickRefused
<1> QED BY <1>1, <1>2, <1>4, <1>5 DEF Top

\* A block that is applied or refused keeps the votes those of the chain.
LEMMA CastApply ==
  ASSUME Base, Cast, NEW b \in Block, ApplyBlock(b)
  PROVE  Cast'
<1> SUFFICES ASSUME ~unpaid' PROVE db'.delegates = CastBy(chain', Top')
  BY DEF Cast
<1>0. ~unpaid
  BY DEF ApplyBlock
<1>1. PICK t : t = Tick(db, gathered[RoundOf(Top + 1)], Top + 1, b, ListFor(Top + 1))
  OBVIOUS
<1>2. CASE t.ok
  BY <1>0, <1>1, <1>2, CastAccept
<1>3. CASE ~t.ok
  <2>1. db' = db /\ chain' = chain /\ Top' = Top
    BY <1>1, <1>3, RefuseIs
  <2> QED BY <1>0, <2>1 DEF Cast
<1> QED BY <1>2, <1>3

\* A popped block keeps the votes those of the chain.
LEMMA CastPop ==
  ASSUME TypeOK, Shape, Cast, PopBlock
  PROVE  Cast'
<1> SUFFICES ASSUME ~unpaid' PROVE db'.delegates = CastBy(chain', Top')
  BY DEF Cast
<1> DEFINE b == chain[Top]
           r == RoundOf(Top)
           h == Top
           n == Top - 1
           k == chain'
           un == PopUn
           u == PopUndone
           m == -1
           f == 1
           ls == ListFor(Top)
<1>0. ~unpaid
  BY DEF PopBlock
<1>1. /\ h \in 2 .. MaxHeight /\ u \in Db /\ db' \in Db
      /\ IsProduced(u, db, b, r, m, h)
      /\ PopSettles => IsSettled(PopBack, u, un, f, m, ls, r, h)
      /\ ~PopSettles => PopBack = u
      /\ db'.delegates = PopBack.delegates
      /\ Top' = n /\ \A i \in 1 .. n : k[i] = chain[i]
  BY PopIs
<1>2. h \in Nat \ {0} /\ n = h - 1
  BY <1>1, Constants
<1>3. IsToggled(u, db, chain[h].vote)
  BY <1>1 DEF IsProduced, IsToggled
<1>4. db'.delegates = u.delegates
  <2>1. PopSettles => PopBack.delegates = u.delegates
    BY <1>1 DEF IsSettled
  <2> HIDE DEF u
  <2> QED BY <1>1, <2>1
<1>5. db.delegates = CastBy(chain, h)
  BY <1>0 DEF Cast
<1> DEFINE v == db'
<1>6. IsToggled(v, db, chain[h].vote)
  BY <1>3, <1>4 DEF IsToggled
<1>7. db.delegates \in SUBSET Vote /\ v.delegates \in SUBSET Vote
  BY <1>1, Types DEF Db
<1>8. \A i \in 1 .. n : k[i] = chain[i]
  BY <1>1
<1> HIDE DEF h, n, k, v
<1>9. v.delegates = CastBy(chain, h - 1)
  BY <1>2, <1>5, <1>6, <1>7, CastMoves
<1>10. v.delegates = CastBy(chain, n)
  BY <1>2, <1>9
<1>11. v.delegates = CastBy(k, n)
  BY <1>8, <1>10, CastAgree
<1> QED BY <1>1, <1>11 DEF k, v

\* Where the votes in the tables and the chain stay, so does this.
LEMMA CastSame ==
  ASSUME Cast, db'.delegates = db.delegates, chain' = chain, unpaid' = unpaid
  PROVE  Cast'
<1>1. Top' = Top
  BY DEF Top
<1> QED BY <1>1 DEF Cast

\* A restart keeps the votes those of the chain.
LEMMA CastRestart ==
  ASSUME TypeOK, Shape, Cast, Restart
  PROVE  Cast'
<1>1. /\ chain' = chain
      /\ MissingBlock => db' = Replayed.db /\ (~unpaid' => Replayed.ok)
      /\ ~MissingBlock => db' = db /\ unpaid' = unpaid
  BY DEF Restart
<1>2. Top' = Top /\ ChainOK /\ db \in Db
  BY <1>1, Types DEF Top, Shape
<1>3. CASE MissingBlock
  <2>1. ~unpaid' => IsReplayed(Replayed, Top)
    BY <1>1, <1>2, <1>3, ReplayedVotes
  <2>2. ~unpaid' => Replayed.db.delegates = CastBy(chain, Top)
    BY <2>1 DEF IsReplayed
  <2> QED BY <1>1, <1>2, <1>3, <2>2 DEF Cast
<1>4. CASE ~MissingBlock
  BY <1>1, <1>4, CastSame
<1> QED BY <1>3, <1>4

\* Every step keeps the votes those of the chain.
LEMMA CastNext == Base /\ Cast /\ [Next]_vars => Cast'
<1> SUFFICES ASSUME Base, Cast, [Next]_vars PROVE Cast'
  OBVIOUS
<1>0. TypeOK /\ Shape /\ db \in Db
  BY Types DEF Base
<1>1. ASSUME NEW b \in Block, ApplyBlock(b) PROVE Cast'
  BY <1>1, CastApply
<1>2. ASSUME NEW common \in 1 .. MaxHeight, StartRollback(common) PROVE Cast'
  <2> DEFINE m == Flushed(db.memRound, RoundOf(Top))
  <2>1. db' = [db EXCEPT !.memRound = m] /\ chain' = chain /\ unpaid' = unpaid
    BY <1>2 DEF StartRollback
  <2>2. db'.delegates = db.delegates
    BY <1>0, <2>1 DEF Db
  <2> QED BY <2>1, <2>2, CastSame
<1>3. CASE PopBlock
  BY <1>0, <1>3, CastPop
<1>4. CASE EndRollback
  <2> DEFINE m == Flushed(db.memRound, RoundOf(oldTop))
  <2>1. db' = [db EXCEPT !.memRound = m] /\ chain' = chain /\ unpaid' = unpaid
    BY <1>4 DEF EndRollback
  <2>2. db'.delegates = db.delegates
    BY <1>0, <2>1 DEF Db
  <2> QED BY <2>1, <2>2, CastSame
<1>5. CASE LookUp
  <2>1. db' = db /\ chain' = chain /\ unpaid' = unpaid
    BY <1>5 DEF LookUp
  <2> QED BY <2>1, CastSame
<1>6. CASE Restart
  BY <1>0, <1>6, CastRestart
<1>7. CASE UNCHANGED vars
  <2>1. db' = db /\ chain' = chain /\ unpaid' = unpaid
    BY <1>7 DEF vars
  <2> QED BY <2>1, CastSame
<1> QED BY <1>1, <1>2, <1>3, <1>4, <1>5, <1>6, <1>7 DEF Next

-----------------------------------------------------------------------------
(* The votes of the rounds *)

\* Nothing was paid that should not be, and no row of mem_round flushed whose blocks are kept.
Sound == ~unpaid /\ ~votesOff

\* While a finished round is popped, some of its blocks are left.
Inside == Top % N # 0 /\ Before(RoundOf(Top)) + N <= oldTop

\* Rounds whose rows are not empty while blocks are popped: that of the highest block, which is
\* flushed at the end, and the one that is being popped.
Undone == {RoundOf(oldTop)} \cup (IF Inside THEN {RoundOf(Top)} ELSE {})

\* Between synchronisations, what counts and what waits.
VotedIdle ==
  /\ CountedAt(db, chain, Top)
  /\ WaitingAt(db, RoundOf(Top + 1)) /\ EmptyBut(db, {RoundOf(Top + 1)})

\* During one: the round that is popped still counts until its first block is popped, the blocks
\* that are kept of an unfinished round have moved nothing.
VotedBack ==
  /\ Inside => WaitingAt(db, RoundOf(Top))
  /\ ~Inside => CountedAt(db, chain, Top)
  /\ EmptyBut(db, Undone) /\ (Top = oldTop => EmptyBut(db, {}))
  /\ oldTop % N # 0 => \A i \in 1 .. target : RoundOf(i) = RoundOf(oldTop) =>
                         chain[i].vote = NoVote /\ chain[i].moves = NoMoves

Voted == Sound => IF phase = "idle" THEN VotedIdle ELSE VotedBack

\* At the end of a round, what is settled are the finished rounds.
LEMMA WholeSettled ==
  ASSUME TypeOK, Shape, Top % N = 0
  PROVE  Settled = Finished(chain)
<1> DEFINE h == Top
           o == High
           p == RoundOf(Top)
<1>1. h \in Nat \ {0} /\ o \in Nat /\ h <= o /\ Len(chain) = h
  <2>1. Top \in Nat \ {0}
    BY Constants DEF Shape, ChainOK
  <2>2. oldTop \in Nat /\ phase \in {"idle", "popping"}
    BY Types
  <2>3. phase = "popping" => Top <= oldTop
    BY DEF Shape
  <2> QED BY <2>1, <2>2, <2>3 DEF High, Top
<1>2. /\ p \in Nat \ {0} /\ Before(p) \in Nat /\ h = Before(p) + N
      /\ \A q \in Rounds : /\ Before(q) \in Nat
                           /\ q # p => Before(q) + N <= Before(p) \/ Before(p) + N <= Before(q)
  <2>1. h \in Nat \ {0} /\ p = RoundOf(h) /\ h % N = 0
    BY <1>1
  <2> HIDE DEF h, p
  <2> QED BY <2>1, Places
<1>3. N \in Nat \ {0}
  BY Constants
<1>4. \A q \in Rounds : q * N = Before(q) + N
  BY RoundsOf, RoundFacts
<1> HIDE DEF h, o, p
<1>5. ASSUME NEW q \in Rounds PROVE (Before(q) < h /\ Before(q) + N <= o) <=> Before(q) + N <= h
  <2>1. CASE q = p
    BY <1>1, <1>2, <1>3, <2>1
  <2>2. CASE q # p
    BY <1>1, <1>2, <1>3, <2>2
  <2> QED BY <2>1, <2>2
<1> QED BY <1>1, <1>4, <1>5 DEF Settled, SettledAt, Finished, h, o

\* Where no settled round is half popped, the voters have what the chain gives them.
LEMMA StakeWhole ==
  Base /\ Earned /\ Cast /\ ~unpaid /\ (High = Top \/ Top % N = 0)
    => \A e \in Delegate : Held(db, e) = StakeAt(chain, e, Top)
<1>1. TypeOK /\ High = Top => Settled = Finished(chain)
  BY IdleSettled
<1>2. TypeOK /\ Shape /\ Top % N = 0 => Settled = Finished(chain)
  BY WholeSettled
<1> QED BY <1>1, <1>2, StakeNow DEF Base

\* So they have after a step.
LEMMA StakeAfter ==
  (Base /\ Earned /\ Cast /\ ~unpaid /\ (High = Top \/ Top % N = 0)
    => \A e \in Delegate : Held(db, e) = StakeAt(chain, e, Top))'
BY StakeWhole, PTL

\* Heights and rounds of the chain.
LEMMA TopIs ==
  ASSUME Base
  PROVE  /\ Top \in Nat \ {0} /\ Top \in 1 .. MaxHeight /\ Top = Len(chain) /\ N \in Nat \ {0}
         /\ RoundOf(Top) \in Rounds /\ RoundOf(Top + 1) \in Rounds
         /\ chain \in Seq(Block \cup {GenesisBlock}) /\ chain[1] = GenesisBlock /\ db \in Db
<1>1. Top \in 1 .. MaxHeight /\ MaxHeight \in Nat /\ N \in Nat \ {0}
  BY Constants DEF Base, Shape, ChainOK
<1> DEFINE h == Top
<1>2. h \in 1 .. MaxHeight + 1 /\ h + 1 \in 1 .. MaxHeight + 1 /\ h \in Nat \ {0}
  BY <1>1
<1> HIDE DEF h
<1>3. RoundOf(h) \in Rounds /\ RoundOf(h + 1) \in Rounds
  BY <1>2, RoundsOf
<1> QED BY <1>1, <1>2, <1>3, Types DEF h, Base, Shape, ChainOK, Top

\* After the last finished round nothing has moved: the voters have what they had at its end.
LEMMA CalmNow ==
  ASSUME Base, Top % N # 0 => \A i \in 1 .. Top : RoundOf(i) = RoundOf(Top) =>
                                chain[i].vote = NoVote /\ chain[i].moves = NoMoves, NEW e
  PROVE  StakeAt(chain, e, Top) = StakeAt(chain, e, LastEnd(Top))
<1> DEFINE h == Top
           c == chain
<1>1. h \in Nat \ {0} /\ h <= Len(c) /\ c \in Seq(Block \cup {GenesisBlock})
  BY TopIs
<1>2. CASE h % N = 0
  <2> HIDE DEF h, c
  <2>1. LastEnd(h) = h
    BY <1>1, <1>2, LastEndIs
  <2> QED BY <2>1 DEF h, c
<1>3. CASE h % N # 0
  <2>1. \A i \in 1 .. h : RoundOf(i) = RoundOf(h) => c[i].vote = NoVote /\ c[i].moves = NoMoves
    BY <1>3
  <2> HIDE DEF h, c
  <2>2. \A i \in 1 .. h : LastEnd(h) < i => RoundOf(i) = RoundOf(h)
    BY <1>1, LastEndIs
  <2>3. CalmOver(c, LastEnd(h), h)
    BY <2>1, <2>2 DEF CalmOver
  <2>4. StakeAt(c, e, h) = StakeAt(c, e, LastEnd(h))
    BY <1>1, <2>3, CalmStake
  <2> QED BY <2>4 DEF h, c
<1> QED BY <1>2, <1>3

\* What the chain gave at the end of a round, it gives when it is longer or, down to there,
\* shorter.
LEMMA CountedSame ==
  ASSUME NEW d, NEW t, NEW c, NEW k, NEW n, Agree(c, k, n), NEW h, NEW m, LastEnd(h) \in Nat,
         LastEnd(h) <= n, LastEnd(m) = LastEnd(h), CountedAt(d, c, h),
         \A e \in Delegate : t.vote[e] = d.vote[e]
  PROVE  CountedAt(t, k, m)
<1> SUFFICES ASSUME NEW e \in Delegate PROVE t.vote[e] = StakeAt(k, e, LastEnd(m))
  BY DEF CountedAt
<1>1. t.vote[e] = StakeAt(c, e, LastEnd(h))
  BY DEF CountedAt
<1> DEFINE l == LastEnd(h)
<1>2. l \in Nat /\ l <= n
  OBVIOUS
<1> HIDE DEF l
<1>3. StakeAt(c, e, l) = StakeAt(k, e, l)
  BY <1>2, StakeLocal
<1> QED BY <1>1, <1>3 DEF l

\* An accepted block settles its round exactly when it ends it.
LEMMA AcceptSettles ==
  ASSUME Base, Gathers, NEW b \in Block, ApplyBlock(b), NEW h, h = Top + 1, NEW r, r = RoundOf(h),
         NEW t, t = Tick(db, gathered[r], h, b, ListFor(h)), t.ok, ~unpaid'
  PROVE  Settles(TickAll(gathered[r], h, b), h) <=> h % N = 0
<1> DEFINE all == TickAll(gathered[r], h, b)
<1>1. h \in Nat \ {0} /\ h # 1
  BY AcceptIs
<1>2. h % N = 0 => Settles(all, h)
  BY AcceptWhole
<1>3. h % N # 0 => ~Settles(all, h)
  BY <1>1, RoundEnds DEF Settles
<1> QED BY <1>2, <1>3

\* A block that does not end its round moves what waits.
LEMMA VotedAdd ==
  ASSUME Base, Earned, Voted, Sound, NEW b \in Block, ApplyBlock(b), NEW h, h = Top + 1,
         NEW r, r = RoundOf(h), NEW t, t = Tick(db, gathered[r], h, b, ListFor(h)), t.ok, h % N # 0
  PROVE  VotedIdle'
<1> DEFINE g == gathered[r]
           l == ListFor(h)
           n == Top
<1>1. /\ phase = "idle" /\ h \in Nat \ {0, 1} /\ r \in Rounds /\ n \in Nat \ {0} /\ n = h - 1
      /\ db \in Db /\ g \in Seq(Entry) /\ l \in SUBSET Delegate /\ b \in Block \cup {GenesisBlock}
      /\ db' = t.db /\ Top' = h
      /\ chain \in Seq(Block \cup {GenesisBlock}) /\ chain' \in Seq(Block \cup {GenesisBlock})
      /\ Len(chain') = h /\ Len(chain) = n /\ \A i \in 1 .. n : chain'[i] = chain[i]
  BY AcceptIs
<1>2. CountedAt(db, chain, n) /\ WaitingAt(db, r) /\ EmptyBut(db, {r})
  BY <1>1 DEF Voted, VotedIdle
<1>3. LastEnd(h) = LastEnd(n) /\ RoundOf(h + 1) = r /\ LastEnd(n) \in Nat /\ LastEnd(n) <= n
  <2> HIDE DEF n
  <2> QED BY <1>1, LastEndStays, LastEndIs
<1>4. t = Tick(db, g, h, b, l) /\ RoundOf(h) \in Rounds
  BY <1>1
<1>5. /\ \A e \in Delegate : t.db.vote[e] = db.vote[e]
      /\ \A q \in Rounds : q # r => \A e \in Delegate : t.db.memRound[q][e] = db.memRound[q][e]
      /\ WaitingAt(t.db, r)
  <2> DEFINE d == db
  <2>1. d \in Db /\ t = Tick(d, g, h, b, l) /\ WaitingAt(d, RoundOf(h))
    BY <1>1, <1>2, <1>4
  <2> HIDE DEF d, g, l
  <2>2. /\ \A e \in Delegate : t.db.vote[e] = d.vote[e]
        /\ \A q \in Rounds : q # RoundOf(h) => \A e \in Delegate : t.db.memRound[q][e] = d.memRound[q][e]
        /\ WaitingAt(t.db, RoundOf(h))
    BY <1>1, <1>4, <2>1, TickWaits
  <2> QED BY <2>2 DEF d
<1>6. PICK k : k = chain'
  OBVIOUS
<1>7. Agree(chain, k, n)
  BY <1>1, <1>6 DEF Agree
<1>8. CountedAt(t.db, k, h)
  <2> DEFINE c == chain
             d == db
             x == t.db
  <2>1. /\ Agree(c, k, n) /\ CountedAt(d, c, n) /\ \A e \in Delegate : x.vote[e] = d.vote[e]
        /\ LastEnd(n) \in Nat /\ LastEnd(n) <= n /\ LastEnd(h) = LastEnd(n)
    BY <1>2, <1>3, <1>5, <1>7
  <2> HIDE DEF c, d, n, x
  <2>2. CountedAt(x, k, h)
    BY <2>1, CountedSame
  <2> QED BY <2>2 DEF x
<1>9. EmptyBut(t.db, {r})
  BY <1>2, <1>5 DEF EmptyBut
<1> QED BY <1>1, <1>3, <1>5, <1>6, <1>8, <1>9 DEF VotedIdle

\* When every row is empty and the votes are what the voters have, nothing waits.
LEMMA VotedClosed ==
  ASSUME NEW d \in Db, NEW c, NEW h \in Nat \ {0}, h % N = 0, RoundOf(h + 1) \in Rounds,
         \A e \in Delegate : d.vote[e] = Held(d, e) /\ Held(d, e) = StakeAt(c, e, h),
         EmptyBut(d, {})
  PROVE  /\ CountedAt(d, c, h) /\ WaitingAt(d, RoundOf(h + 1)) /\ EmptyBut(d, {RoundOf(h + 1)})
<1>1. LastEnd(h) = h
  BY LastEndIs
<1>2. \A e \in Delegate : Held(d, e) \in Int
  BY HeldInt
<1>3. \A q \in Rounds : \A e \in Delegate : d.memRound[q][e] = 0
  BY DEF EmptyBut
<1>4. CountedAt(d, c, h)
  BY <1>1 DEF CountedAt
<1> QED BY <1>2, <1>3, <1>4 DEF WaitingAt, EmptyBut

\* A block that ends its round counts what has waited.
LEMMA VotedClose ==
  ASSUME Base, Earned, Voted, Sound, Base', Earned', Cast', ~unpaid', NEW b \in Block, ApplyBlock(b),
         NEW h, h = Top + 1, NEW r, r = RoundOf(h),
         NEW t, t = Tick(db, gathered[r], h, b, ListFor(h)), t.ok, h % N = 0
  PROVE  VotedIdle'
<1> DEFINE g == gathered[r]
           l == ListFor(h)
<1>1. /\ phase = "idle" /\ phase' = "idle" /\ h \in Nat \ {0} /\ r \in Rounds
      /\ db \in Db /\ g \in Seq(Entry) /\ l \in SUBSET Delegate /\ b \in Block \cup {GenesisBlock}
      /\ db' = t.db /\ Top' = h
  BY AcceptIs
<1>2. WaitingAt(db, r) /\ EmptyBut(db, {r})
  BY <1>1 DEF Voted, VotedIdle
<1>3. Settles(TickAll(g, h, b), h)
  BY AcceptSettles DEF Earned
<1>4. RoundOf(h) \in Rounds /\ RoundOf(h + 1) \in Rounds
  <2>1. h \in 1 .. MaxHeight
    BY DEF ApplyBlock, Base, Shape, ChainOK
  <2>2. h \in 1 .. MaxHeight + 1 /\ h + 1 \in 1 .. MaxHeight + 1
    BY <2>1, Constants
  <2> QED BY <2>2, RoundsOf
<1>5. /\ t.db \in Db
      /\ \A e \in Delegate : t.db.vote[e] = Held(t.db, e) /\ t.db.memRound[r][e] = 0
      /\ \A q \in Rounds : q # r => \A e \in Delegate : t.db.memRound[q][e] = db.memRound[q][e]
  <2> DEFINE d == db
  <2>1. d \in Db /\ t = Tick(d, g, h, b, l) /\ WaitingAt(d, RoundOf(h))
    BY <1>1, <1>2
  <2> HIDE DEF d, g, l
  <2>2. /\ t.db \in Db
        /\ \A e \in Delegate : t.db.vote[e] = Held(t.db, e) /\ t.db.memRound[RoundOf(h)][e] = 0
        /\ \A q \in Rounds : q # RoundOf(h) => \A e \in Delegate : t.db.memRound[q][e] = d.memRound[q][e]
    BY <1>1, <1>3, <1>4, <2>1, TickCloses DEF g
  <2> QED BY <2>2 DEF d
<1>6. EmptyBut(t.db, {})
  BY <1>2, <1>5 DEF EmptyBut
<1>7. \A e \in Delegate : Held(db', e) = StakeAt(chain', e, Top')
  <2>1. High' = Top'
    BY <1>1 DEF High
  <2> QED BY <2>1, StakeAfter
<1>8. PICK k : k = chain'
  OBVIOUS
<1>9. \A e \in Delegate : Held(t.db, e) = StakeAt(k, e, h)
  BY <1>1, <1>7, <1>8
<1> DEFINE d == t.db
<1>10. /\ d \in Db /\ EmptyBut(d, {})
       /\ \A e \in Delegate : d.vote[e] = Held(d, e) /\ Held(d, e) = StakeAt(k, e, h)
  BY <1>5, <1>6, <1>9
<1> HIDE DEF d
<1>11. CountedAt(d, k, h) /\ WaitingAt(d, RoundOf(h + 1)) /\ EmptyBut(d, {RoundOf(h + 1)})
  BY <1>1, <1>4, <1>10, VotedClosed
<1> QED BY <1>1, <1>8, <1>11 DEF VotedIdle, d

\* Where the votes, the chain and the phase stay, so does what counts.
LEMMA VotedSame ==
  ASSUME Voted, Sound' => Sound, db' = db, chain' = chain, phase' = phase, target' = target, oldTop' = oldTop
  PROVE  Voted'
<1>1. Top' = Top
  BY DEF Top
<1>2. VotedIdle => VotedIdle'
  BY <1>1 DEF VotedIdle
<1>3. Inside' = Inside
  BY <1>1 DEF Inside
<1>4. Undone' = Undone
  BY <1>1, <1>3 DEF Undone
<1>5. VotedBack => VotedBack'
  BY <1>1, <1>3, <1>4 DEF VotedBack
<1> QED BY <1>2, <1>5 DEF Voted

\* A block that is applied or refused.
LEMMA VotedApply ==
  ASSUME Base, Earned, Voted, Base', Earned', Cast', NEW b \in Block, ApplyBlock(b)
  PROVE  Voted'
<1> SUFFICES ASSUME Sound' PROVE Voted'
  BY DEF Voted
<1>0. Sound /\ ~unpaid'
  BY DEF Sound, ApplyBlock
<1>1. PICK t : t = Tick(db, gathered[RoundOf(Top + 1)], Top + 1, b, ListFor(Top + 1))
  OBVIOUS
<1>2. CASE t.ok
  <2>1. VotedIdle'
    BY <1>0, <1>1, <1>2, VotedAdd, VotedClose
  <2>2. phase' = "idle"
    BY <1>1, <1>2, AcceptIs
  <2> QED BY <2>1, <2>2 DEF Voted
<1>3. CASE ~t.ok
  <2>1. db' = db /\ chain' = chain /\ phase' = phase
    BY <1>1, <1>3, RefuseIs
  <2>2. target' = target /\ oldTop' = oldTop
    BY DEF ApplyBlock
  <2> QED BY <1>0, <2>1, <2>2, VotedSame
<1> QED BY <1>2, <1>3

\* The votes of one round no longer wait.
IsFlushed(t, d, r) ==
  /\ t.vote = d.vote /\ t.missed = d.missed
  /\ \A q \in Rounds : \A e \in Delegate : t.memRound[q][e] = IF q = r THEN 0 ELSE d.memRound[q][e]

\* Flushed takes the votes of one round.
LEMMA FlushVotes ==
  ASSUME NEW d \in Db, NEW r \in Rounds, NEW t, t = [d EXCEPT !.memRound = Flushed(d.memRound, r)]
  PROVE  IsFlushed(t, d, r)
<1> DEFINE m == d.memRound
           k == Flushed(m, r)
<1>1. t = [d EXCEPT !.memRound = k] /\ m \in MemRounds
  BY DEF Db, MemRounds
<1>2. t.vote = d.vote /\ t.missed = d.missed /\ t.memRound = k
  <2> HIDE DEF k
  <2> QED BY <1>1 DEF Db
<1> HIDE DEF m
<1>3. k = Flushed(m, r)
  OBVIOUS
<1> HIDE DEF k
<1>4. \A q \in Rounds : \A e \in Delegate : k[q][e] = IF q = r THEN 0 ELSE m[q][e]
  BY <1>1, <1>3, FlushedIs
<1> QED BY <1>2, <1>4 DEF IsFlushed, m

\* A synchronisation that begins flushes what waits of the blocks it pops.
LEMMA VotedStart ==
  ASSUME Base, Earned, Cast, Voted, NEW common \in 1 .. MaxHeight, StartRollback(common)
  PROVE  Voted'
<1> SUFFICES ASSUME Sound' PROVE VotedBack'
  BY DEF Voted, StartRollback
<1> DEFINE p == RoundOf(Top)
           s == RoundOf(Top + 1)
           h == Top
<1>1. /\ phase = "idle" /\ target' = PopTo(common) /\ oldTop' = Top
      /\ db' = [db EXCEPT !.memRound = Flushed(db.memRound, RoundOf(Top))] /\ chain' = chain
      /\ unpaid' = unpaid
      /\ votesOff' = (votesOff \/ (Top % N # 0 /\ MovedUpTo(PopTo(common))))
  BY DEF StartRollback
<1>2. Top' = Top /\ Sound /\ ~(Top % N # 0 /\ MovedUpTo(target'))
  <2>1. Top' = Top
    BY <1>1 DEF Top
  <2>2. ~unpaid' /\ ~votesOff'
    BY DEF Sound
  <2>3. ~unpaid /\ ~votesOff /\ ~(Top % N # 0 /\ MovedUpTo(PopTo(common)))
    BY ONLY <1>1, <2>2, Zenon
  <2> QED BY <1>1, <2>1, <2>3 DEF Sound
<1>3. CountedAt(db, chain, h) /\ WaitingAt(db, s) /\ EmptyBut(db, {s})
  BY <1>1, <1>2 DEF Voted, VotedIdle
<1>4. h \in Nat \ {0} /\ p \in Rounds /\ s \in Rounds /\ db \in Db /\ N \in Nat \ {0}
  BY TopIs
<1>5. /\ db'.vote = db.vote
      /\ \A q \in Rounds : \A e \in Delegate : db'.memRound[q][e] = IF q = p THEN 0 ELSE db.memRound[q][e]
  <2> DEFINE t == db'
             r == p
  <2>1. db \in Db /\ r \in Rounds /\ t = [db EXCEPT !.memRound = Flushed(db.memRound, r)]
    BY <1>1, <1>4
  <2> HIDE DEF t, r
  <2>2. IsFlushed(t, db, r)
    BY <2>1, FlushVotes
  <2> QED BY <2>2 DEF t, r, IsFlushed
<1>6. h % N = 0 => EmptyBut(db, {})
  <2> SUFFICES ASSUME h % N = 0, NEW q \in Rounds, NEW e \in Delegate PROVE db.memRound[q][e] = 0
    BY DEF EmptyBut
  <2>1. CASE q # s
    BY <1>3, <2>1 DEF EmptyBut
  <2>2. CASE q = s
    <3>1. LastEnd(h) = h
      <4> HIDE DEF h
      <4> QED BY <1>4, LastEndIs
    <3>2. db.vote[e] = StakeAt(chain, e, h)
      BY <1>3, <3>1 DEF CountedAt
    <3>3. Held(db, e) = StakeAt(chain, e, h)
      BY <1>2, StakeWhole DEF Sound
    <3>4. db.vote[e] + db.memRound[s][e] = Held(db, e)
      BY <1>3 DEF WaitingAt
    <3>5. db.vote[e] \in Int /\ db.memRound[s][e] \in Int
      BY <1>4 DEF Db
    <3> HIDE DEF h, s
    <3> QED BY <2>2, <3>2, <3>3, <3>4, <3>5
  <2> QED BY <2>1, <2>2
<1>7. h % N # 0 => s = p
  <2> HIDE DEF h
  <2> QED BY <1>4, LastEndIs DEF h
<1>8. EmptyBut(db', {})
  <2> SUFFICES ASSUME NEW q \in Rounds, NEW e \in Delegate PROVE db'.memRound[q][e] = 0
    BY DEF EmptyBut
  <2>1. q = p \/ db.memRound[q][e] = 0
    BY <1>3, <1>6, <1>7 DEF EmptyBut
  <2> QED BY <1>5, <2>1
<1>9. ~Inside'
  <2>1. Inside' => Top % N # 0 /\ Before(p) + N <= Top
    BY <1>1, <1>2 DEF Inside
  <2>2. /\ Before(RoundOf(h)) \in Nat /\ h <= Before(RoundOf(h)) + N
        /\ h % N = 0 <=> h = Before(RoundOf(h)) + N
    <3> HIDE DEF h
    <3> QED BY <1>4, RoundFacts
  <2> QED BY <1>4, <2>1, <2>2
<1>10. CountedAt(db', chain', Top')
  BY <1>1, <1>2, <1>3, <1>5 DEF CountedAt
<1>11. (oldTop % N # 0 => \A i \in 1 .. target : RoundOf(i) = RoundOf(oldTop) =>
                            chain[i].vote = NoVote /\ chain[i].moves = NoMoves)'
  BY <1>1, <1>2 DEF MovedUpTo
<1>12. EmptyBut(db', Undone')
  BY <1>8 DEF EmptyBut
<1> QED BY <1>8, <1>9, <1>10, <1>11, <1>12 DEF VotedBack

\* What popping a block does to the votes.
LEMMA PopVotes ==
  ASSUME TypeOK, Shape, PopBlock, NEW r, r = RoundOf(Top), NEW v, v = db'
  PROVE  /\ db \in Db /\ v \in Db /\ r \in Rounds
         /\ \A q \in Rounds : q # r => \A e \in Delegate : v.memRound[q][e] = db.memRound[q][e]
         /\ ~PopSettles => /\ \A e \in Delegate : v.vote[e] = db.vote[e] /\ v.missed[e] = db.missed[e]
                           /\ WaitingAt(db, r) => WaitingAt(v, r)
         /\ PopSettles =>
              /\ \A e \in Delegate :
                   v.missed[e] = db.missed[e] + IF e \in Outsiders(ListFor(Top), PopUn) THEN -1 ELSE 0
              /\ WaitingAt(db, r) => \A e \in Delegate : v.vote[e] = Held(v, e) /\ v.memRound[r][e] = 0
<1> DEFINE d == db
           b == chain[Top]
           h == Top
           un == PopUn
           u == PopUndone
           k == PopBack
           m == -1
           f == 1
           ls == ListFor(Top)
<1>1. /\ r \in Rounds /\ u \in Db /\ k \in Db /\ v \in Db
      /\ IsProduced(u, d, b, r, m, h)
      /\ PopSettles => IsSettled(k, u, un, f, m, ls, r, h)
      /\ ~PopSettles => k = u
      /\ v.balance = k.balance /\ v.missed = k.missed /\ v.vote = k.vote
      /\ v.delegates = k.delegates /\ v.memRound = k.memRound
  BY PopIs
<1>2. d \in Db /\ m = -1
  BY Types
<1> HIDE DEF d, b, h, un, u, k, m, f, ls
<1>3. \A e \in Delegate : Held(v, e) = Held(k, e)
  BY <1>1 DEF Held
<1>4. \A e \in Delegate : Held(d, e) \in Int /\ Held(u, e) \in Int /\ Held(k, e) \in Int
  BY <1>1, <1>2, HeldInt
<1>5. \A e \in Delegate : d.vote[e] \in Int /\ d.missed[e] \in Int /\ d.memRound[r][e] \in Int
  BY <1>1, <1>2 DEF Db
<1>6. /\ u.vote = d.vote /\ u.missed = d.missed
      /\ \A q \in Rounds : \A e \in Delegate :
           u.memRound[q][e] = d.memRound[q][e] + IF q = r THEN Held(u, e) - Held(d, e) ELSE 0
  BY <1>1 DEF IsProduced, IsRecorded
<1>7. \A q \in Rounds : \A e \in Delegate : d.memRound[q][e] \in Int
  BY <1>2 DEF Db
<1>8. CASE ~PopSettles
  <2>1. \A q \in Rounds : q # r => \A e \in Delegate : v.memRound[q][e] = d.memRound[q][e]
    BY <1>1, <1>6, <1>7, <1>8
  <2>2. ASSUME WaitingAt(d, r) PROVE WaitingAt(v, r)
    <3> SUFFICES ASSUME NEW e \in Delegate PROVE v.vote[e] + v.memRound[r][e] = Held(v, e)
      BY DEF WaitingAt
    <3>1. d.vote[e] + d.memRound[r][e] = Held(d, e)
      BY <2>2 DEF WaitingAt
    <3>2. v.vote[e] = d.vote[e] /\ v.memRound[r][e] = d.memRound[r][e] + (Held(u, e) - Held(d, e))
          /\ Held(v, e) = Held(u, e)
      BY <1>1, <1>3, <1>6, <1>8
    <3> QED BY <1>4, <1>5, <3>1, <3>2
  <2> QED BY <1>1, <1>2, <1>6, <1>8, <2>1, <2>2 DEF d
<1>9. CASE PopSettles
  <2>1. /\ \A e \in Delegate :
             /\ k.vote[e] = u.vote[e] + u.memRound[r][e] + (Held(k, e) - Held(u, e))
             /\ k.missed[e] = u.missed[e] + IF e \in Outsiders(ls, un) THEN m ELSE 0
        /\ \A q \in Rounds : \A e \in Delegate :
             k.memRound[q][e] = IF q = r THEN 0 ELSE u.memRound[q][e]
    BY <1>1, <1>9 DEF IsSettled
  <2>2. \A q \in Rounds : q # r => \A e \in Delegate : v.memRound[q][e] = d.memRound[q][e]
    BY <1>1, <1>6, <1>7, <2>1
  <2>3. \A e \in Delegate : v.missed[e] = d.missed[e] + IF e \in Outsiders(ls, un) THEN -1 ELSE 0
    BY <1>1, <1>2, <1>6, <2>1
  <2>4. ASSUME WaitingAt(d, r), NEW e \in Delegate PROVE v.vote[e] = Held(v, e) /\ v.memRound[r][e] = 0
    <3>1. d.vote[e] + d.memRound[r][e] = Held(d, e)
      BY <2>4 DEF WaitingAt
    <3>2. k.vote[e] = d.vote[e] + (d.memRound[r][e] + (Held(u, e) - Held(d, e))) + (Held(k, e) - Held(u, e))
      BY <1>1, <1>6, <2>1
    <3>3. k.vote[e] = Held(k, e)
      BY <1>4, <1>5, <3>1, <3>2
    <3> QED BY <1>1, <1>3, <2>1, <3>3
  <2> QED BY <1>1, <1>2, <1>9, <2>2, <2>3, <2>4 DEF d, ls, un
<1> QED BY <1>8, <1>9

\* A block of a finished round is popped: the round waits until its first block is.
LEMMA VotedUndo ==
  ASSUME Base, Earned, Cast, Voted, Base', Earned', Cast', PopBlock, Sound',
         NEW r, r = RoundOf(Top), Before(r) + N <= oldTop
  PROVE  VotedBack'
<1> DEFINE h == Top
           n == Top - 1
           p == RoundOf(oldTop)
           o == oldTop
           u == ungathered[r]
<1>1. /\ phase = "popping" /\ oldTop' = o /\ target' = target /\ ~unpaid' /\ Sound
      /\ TypeOK /\ Shape /\ Ungathers
  BY DEF PopBlock, Sound, Base, Earned
<1>2. /\ PopShape(r, u, PopUn)
      /\ PopSettles <=> (Before(r) = n /\ Before(r) + N <= o)
  BY <1>1, PopCases
<1>3. /\ N \in Nat \ {0} /\ r \in Rounds /\ Before(r) \in Nat /\ Before(r) < h /\ h <= Before(r) + N
      /\ h \in Nat \ {0, 1} /\ n \in Nat \ {0} /\ Top' = n /\ o \in Nat /\ h <= o
      /\ \A i \in 1 .. n : chain'[i] = chain[i]
  BY <1>2 DEF PopShape
<1>4. PICK v : v = db'
  OBVIOUS
<1>5. /\ db \in Db /\ v \in Db
      /\ \A q \in Rounds : q # r => \A e \in Delegate : v.memRound[q][e] = db.memRound[q][e]
      /\ ~PopSettles /\ WaitingAt(db, r) => WaitingAt(v, r)
      /\ PopSettles /\ WaitingAt(db, r) => \A e \in Delegate : v.vote[e] = Held(v, e) /\ v.memRound[r][e] = 0
  BY <1>1, <1>4, PopVotes
<1>6. VotedBack
  BY <1>1 DEF Voted
<1>7. h % N = 0 <=> h = Before(r) + N
  <2> HIDE DEF h
  <2> QED BY <1>3, RoundFacts DEF h
<1>8. WaitingAt(db, r) /\ EmptyBut(db, {p, r})
  <2>1. CASE h % N # 0
    <3>1. Inside
      BY <2>1 DEF Inside
    <3>2. Undone = {p, r}
      BY <3>1 DEF Undone
    <3> QED BY <1>6, <3>1, <3>2 DEF VotedBack
  <2>2. CASE h % N = 0
    <3>1. ~Inside
      BY <2>2 DEF Inside
    <3>2. Undone = {p}
      BY <3>1 DEF Undone
    <3>3. CountedAt(db, chain, h) /\ EmptyBut(db, {p}) /\ (h = o => EmptyBut(db, {}))
      BY <1>6, <3>1, <3>2 DEF VotedBack
    <3>4. LastEnd(h) = h
      <4> HIDE DEF h
      <4> QED BY <1>3, <2>2, LastEndIs
    <3>5. \A e \in Delegate : Held(db, e) = StakeAt(chain, e, h)
      BY <1>1, <2>2, StakeWhole DEF Sound
    <3>6. r = p => h = o
      <4>1. o \in Nat \ {0}
        BY <1>3
      <4>2. o <= Before(p) + N
        <5> HIDE DEF o
        <5> QED BY <4>1, RoundFacts DEF o
      <4> QED BY <1>3, <1>7, <2>2, <4>2
    <3>7. \A e \in Delegate : db.memRound[r][e] = 0
      <4>1. CASE r = p
        BY <1>3, <3>3, <3>6, <4>1 DEF EmptyBut
      <4>2. CASE r # p
        BY <1>3, <3>3, <4>2 DEF EmptyBut
      <4> QED BY <4>1, <4>2
    <3>8. \A e \in Delegate : Held(db, e) \in Int
      BY <1>5, HeldInt
    <3>9. \A e \in Delegate : db.vote[e] = Held(db, e)
      BY <3>3, <3>4, <3>5 DEF CountedAt
    <3>10. WaitingAt(db, r)
      BY <3>7, <3>8, <3>9 DEF WaitingAt
    <3> QED BY <3>3, <3>10 DEF EmptyBut
  <2> QED BY <2>1, <2>2
<1>9. (oldTop % N # 0 => \A i \in 1 .. target : RoundOf(i) = RoundOf(oldTop) =>
                           chain[i].vote = NoVote /\ chain[i].moves = NoMoves)'
  <2>1. target \in Nat /\ target <= n
    BY <1>1, <1>3, PopIs, Types
  <2>2. \A i \in 1 .. target : i \in 1 .. n
    BY <1>3, <2>1
  <2> QED BY <1>1, <1>3, <1>6, <2>2 DEF VotedBack
<1>10. ~(Top' = oldTop')
  BY <1>1, <1>3
<1>11. CASE ~PopSettles
  <2>1. Before(r) < n
    BY <1>2, <1>3, <1>11
  <2>2. RoundOf(n) = r /\ n % N # 0
    <3>1. r \in Nat \ {0} /\ n <= Before(r) + N /\ n # Before(r) + N
      BY <1>3, RoundsOf
    <3> HIDE DEF n
    <3>2. RoundOf(n) = r
      BY <1>3, <2>1, <3>1, RoundHeights
    <3> QED BY <1>3, <3>1, <3>2, RoundFacts
  <2>3. Inside' /\ RoundOf(Top') = r
    BY <1>1, <1>3, <2>2 DEF Inside
  <2>4. Undone' = {p, r}
    BY <1>1, <2>3 DEF Undone
  <2>5. WaitingAt(v, r) /\ EmptyBut(v, {p, r})
    BY <1>5, <1>8, <1>11 DEF EmptyBut
  <2> QED BY <1>4, <1>9, <1>10, <2>3, <2>4, <2>5 DEF VotedBack
<1>12. CASE PopSettles
  <2>1. Before(r) = n
    BY <1>2, <1>12
  <2>2. n % N = 0
    <3>1. h = n + 1
      BY <1>3
    <3> HIDE DEF n, h
    <3>2. RoundOf(n) # r
      BY <1>3, <2>1, <3>1, FirstHeight DEF h
    <3> QED BY <1>3, <3>1, <3>2, RoundEnds DEF h
  <2>3. ~Inside' /\ Top' % N = 0
    BY <1>3, <2>2 DEF Inside
  <2>4. Undone' = {p}
    BY <1>1, <2>3 DEF Undone
  <2>5. \A e \in Delegate : Held(db', e) = StakeAt(chain', e, Top')
    BY <1>1, <2>3, StakeAfter
  <2>6. LastEnd(n) = n
    <3> HIDE DEF n
    <3> QED BY <1>3, <2>2, LastEndIs
  <2>7. \A e \in Delegate : v.vote[e] = Held(v, e) /\ v.memRound[r][e] = 0
    BY <1>5, <1>8, <1>12
  <2>8. CountedAt(db', chain', Top')
    BY <1>3, <1>4, <2>5, <2>6, <2>7 DEF CountedAt
  <2>9. EmptyBut(v, {p})
    BY <1>5, <1>8, <2>7 DEF EmptyBut
  <2> QED BY <1>4, <1>9, <1>10, <2>3, <2>4, <2>8, <2>9 DEF VotedBack
<1> QED BY <1>11, <1>12

\* A block of the unfinished round is popped: what it has moved is flushed at the end.
LEMMA VotedDrop ==
  ASSUME Base, Earned, Voted, PopBlock, Sound', NEW r, r = RoundOf(Top), ~(Before(r) + N <= oldTop)
  PROVE  VotedBack'
<1> DEFINE h == Top
           n == Top - 1
           p == RoundOf(oldTop)
           o == oldTop
           u == ungathered[r]
<1>1. /\ phase = "popping" /\ oldTop' = o /\ target' = target /\ ~unpaid' /\ Sound
      /\ TypeOK /\ Shape /\ Ungathers
  BY DEF PopBlock, Sound, Base, Earned
<1>2. /\ PopShape(r, u, PopUn)
      /\ PopSettles <=> (Before(r) = n /\ Before(r) + N <= o)
  BY <1>1, PopCases
<1>3. /\ N \in Nat \ {0} /\ r \in Rounds /\ Before(r) \in Nat /\ Before(r) < h /\ h <= Before(r) + N
      /\ h \in Nat \ {0, 1} /\ n \in Nat \ {0} /\ Top' = n /\ o \in Nat /\ h <= o
      /\ Len(chain) = h /\ Len(chain') = n
      /\ chain \in Seq(Block \cup {GenesisBlock}) /\ chain' \in Seq(Block \cup {GenesisBlock})
      /\ \A i \in 1 .. n : chain'[i] = chain[i]
  BY <1>2 DEF PopShape
<1>4. PICK v : v = db'
  OBVIOUS
<1>5. /\ \A q \in Rounds : q # r => \A e \in Delegate : v.memRound[q][e] = db.memRound[q][e]
      /\ \A e \in Delegate : v.vote[e] = db.vote[e]
  <2>1. ~PopSettles
    BY <1>2
  <2> QED BY <1>1, <1>4, <2>1, PopVotes
<1>6. VotedBack
  BY <1>1 DEF Voted
<1>7. r = p /\ o % N # 0
  <2>1. o \in Nat \ {0} /\ r \in Nat \ {0} /\ Before(r) < o /\ o <= Before(r) + N /\ o # Before(r) + N
    BY <1>3, RoundsOf
  <2> HIDE DEF o
  <2>2. RoundOf(o) = r
    BY <2>1, RoundHeights
  <2>3. o % N = 0 <=> o = Before(RoundOf(o)) + N
    BY <2>1, RoundFacts
  <2> QED BY <2>1, <2>2, <2>3 DEF o
<1>8. ~Inside /\ Undone = {p}
  BY DEF Inside, Undone
<1>9. h % N # 0
  <2>1. h % N = 0 <=> h = Before(r) + N
    <3> HIDE DEF h
    <3> QED BY <1>3, RoundFacts DEF h
  <2> QED BY <1>3, <2>1
<1>10. ~Inside' /\ Undone' = {p}
  <2>1. ~(Top' % N # 0 /\ Before(RoundOf(Top')) + N <= o)
    <3>1. h = n + 1
      BY <1>3
    <3>2. RoundOf(n) = r \/ n % N = 0
      <4> HIDE DEF n, h
      <4> QED BY <1>3, <3>1, RoundEnds DEF h
    <3> QED BY <1>3, <3>2
  <2>2. ~Inside'
    BY <1>1, <2>1 DEF Inside
  <2> QED BY <1>1, <2>2 DEF Undone
<1>11. LastEnd(h) = LastEnd(n) /\ LastEnd(h) \in Nat /\ LastEnd(h) <= n
  <2> HIDE DEF h
  <2>1. LastEnd(h) = LastEnd(h - 1)
    BY <1>3, <1>9, LastEndStays
  <2>2. LastEnd(h) = LastEnd(n)
    BY <2>1 DEF h
  <2> HIDE DEF n
  <2> QED BY <1>3, <2>2, LastEndIs
<1>12. CountedAt(v, chain', n)
  <2>1. PICK k : k = chain'
    OBVIOUS
  <2> DEFINE d == db
             c == chain
  <2>2. n \in Nat /\ n <= Len(c) /\ n <= Len(k)
    BY <1>3, <2>1
  <2>3. Agree(c, k, n)
    BY <1>3, <2>1, <2>2 DEF Agree
  <2>4. CountedAt(d, c, h) /\ \A e \in Delegate : v.vote[e] = d.vote[e]
    BY <1>5, <1>6, <1>8 DEF VotedBack
  <2> HIDE DEF d, c, h, n
  <2>5. CountedAt(v, k, n)
    BY <1>11, <2>3, <2>4, CountedSame
  <2> QED BY <2>1, <2>5
<1>13. EmptyBut(v, {p})
  BY <1>5, <1>6, <1>7, <1>8 DEF EmptyBut, VotedBack
<1>14. (oldTop % N # 0 => \A i \in 1 .. target : RoundOf(i) = RoundOf(oldTop) =>
                            chain[i].vote = NoVote /\ chain[i].moves = NoMoves)'
  <2>1. target \in Nat /\ target <= n
    BY <1>1, <1>3, PopIs, Types
  <2>2. \A i \in 1 .. target : i \in 1 .. n
    BY <1>3, <2>1
  <2> QED BY <1>1, <1>3, <1>6, <2>2 DEF VotedBack
<1>15. ~(Top' = oldTop')
  BY <1>1, <1>3
<1> QED BY <1>3, <1>4, <1>10, <1>12, <1>13, <1>14, <1>15 DEF VotedBack

\* A popped block.
LEMMA VotedPop ==
  ASSUME Base, Earned, Cast, Voted, Base', Earned', Cast', PopBlock
  PROVE  Voted'
<1> SUFFICES ASSUME Sound' PROVE VotedBack'
  BY DEF Voted, PopBlock
<1>1. PICK r : r = RoundOf(Top)
  OBVIOUS
<1>2. CASE Before(r) + N <= oldTop
  BY <1>1, <1>2, VotedUndo
<1>3. CASE ~(Before(r) + N <= oldTop)
  BY <1>1, <1>3, VotedDrop
<1> QED BY <1>2, <1>3

\* When every row is empty and nothing has moved since, the voters have what counts.
LEMMA VotedCalm ==
  ASSUME NEW d \in Db, NEW c, NEW h, NEW q \in Rounds, EmptyBut(d, {}), CountedAt(d, c, h),
         \A e \in Delegate : Held(d, e) = StakeAt(c, e, h) /\ StakeAt(c, e, h) = StakeAt(c, e, LastEnd(h))
  PROVE  WaitingAt(d, q) /\ EmptyBut(d, {q})
<1>1. EmptyBut(d, {q})
  BY DEF EmptyBut
<1> SUFFICES ASSUME NEW e \in Delegate PROVE d.vote[e] + d.memRound[q][e] = Held(d, e)
  BY <1>1 DEF WaitingAt
<1>2. d.vote[e] = Held(d, e)
  BY DEF CountedAt
<1>3. d.memRound[q][e] = 0
  BY DEF EmptyBut
<1>4. Held(d, e) \in Int
  BY HeldInt
<1> QED BY <1>2, <1>3, <1>4

\* A synchronisation that ends has flushed what its blocks had moved.
LEMMA VotedEnd ==
  ASSUME Base, Earned, Cast, Voted, Base', Earned', Cast', EndRollback
  PROVE  Voted'
<1> SUFFICES ASSUME Sound' PROVE VotedIdle'
  BY DEF Voted, EndRollback
<1> DEFINE h == Top
           o == oldTop
           p == RoundOf(oldTop)
           s == RoundOf(Top + 1)
<1>1. /\ phase = "popping" /\ phase' = "idle" /\ Top = target /\ chain' = chain
      /\ db' = [db EXCEPT !.memRound = Flushed(db.memRound, RoundOf(oldTop))]
      /\ unpaid' = unpaid /\ votesOff' = votesOff
  BY DEF EndRollback
<1>2. Top' = h /\ ~unpaid /\ ~votesOff /\ VotedBack
  BY <1>1 DEF Top, Sound, Voted
<1>3. h \in Nat \ {0} /\ h \in Nat /\ s \in Rounds /\ db \in Db /\ N \in Nat \ {0} /\ o \in Nat /\ h <= o
      /\ o <= MaxHeight /\ MaxHeight \in Nat
  BY <1>1, TopIs, Types, Constants DEF Base, Shape
<1>4. p \in Rounds
  <2>1. o \in 1 .. MaxHeight + 1
    BY <1>3
  <2> QED BY <2>1, RoundsOf
<1>5. h = 1 => unpaid
  BY <1>1 DEF Earned, Aimed
<1>6. h % N = 0 \/ (RoundOf(h) = p /\ o % N # 0)
  <2>1. target = 1 \/ target % N = 0 \/ (RoundOf(target) = RoundOf(oldTop) /\ oldTop % N # 0)
    BY <1>1 DEF Earned, Aimed
  <2> QED BY <1>1, <1>2, <1>5, <2>1
<1>7. ~Inside
  <2>1. CASE h % N = 0
    BY <2>1 DEF Inside
  <2>2. CASE RoundOf(h) = p /\ o % N # 0
    <3>1. o \in Nat \ {0}
      BY <1>3
    <3>2. o <= Before(p) + N /\ (o % N = 0 <=> o = Before(p) + N) /\ Before(p) \in Nat
      <4>1. Before(p) \in Nat
        BY <1>4, RoundsOf, RoundFacts
      <4> HIDE DEF o
      <4> QED BY <3>1, <4>1, RoundFacts DEF o
    <3>3. ~(Before(p) + N <= o)
      BY <1>3, <2>2, <3>2
    <3> QED BY <2>2, <3>3 DEF Inside
  <2> QED BY <1>6, <2>1, <2>2
<1>8. CountedAt(db, chain, h) /\ EmptyBut(db, {p})
  <2>1. Undone = {p}
    BY <1>7 DEF Undone
  <2> QED BY <1>2, <1>7, <2>1 DEF VotedBack
<1>9. PICK v : v = db'
  OBVIOUS
<1>10. IsFlushed(v, db, p) /\ v \in Db
  <2> DEFINE d == db
  <2>1. d \in Db /\ v = [d EXCEPT !.memRound = Flushed(d.memRound, p)]
    BY <1>1, <1>3, <1>9
  <2> HIDE DEF d, p
  <2>2. IsFlushed(v, d, p)
    BY <1>4, <2>1, FlushVotes
  <2>3. v \in Db
    BY <1>4, <2>1, FlushIs
  <2> QED BY <2>2, <2>3 DEF d
<1>11. EmptyBut(v, {}) /\ CountedAt(v, chain, h)
  BY <1>8, <1>10 DEF IsFlushed, EmptyBut, CountedAt
<1>12. \A e \in Delegate : Held(v, e) = StakeAt(chain, e, h)
  <2>1. High' = Top'
    BY <1>1 DEF High
  <2>2. \A e \in Delegate : Held(db', e) = StakeAt(chain', e, Top')
    BY <2>1, StakeAfter DEF Sound
  <2> QED BY <1>1, <1>2, <1>9, <2>2
<1>13. \A e \in Delegate : StakeAt(chain, e, h) = StakeAt(chain, e, LastEnd(h))
  <2>1. Top % N # 0 => \A i \in 1 .. Top : RoundOf(i) = RoundOf(Top) =>
                         chain[i].vote = NoVote /\ chain[i].moves = NoMoves
    BY <1>1, <1>2, <1>6 DEF VotedBack
  <2> QED BY <2>1, CalmNow
<1>14. WaitingAt(v, s) /\ EmptyBut(v, {s})
  <2> DEFINE c == chain
  <2>1. \A e \in Delegate : Held(v, e) = StakeAt(c, e, h) /\ StakeAt(c, e, h) = StakeAt(c, e, LastEnd(h))
    BY <1>12, <1>13
  <2>2. CountedAt(v, c, h)
    BY <1>11
  <2> HIDE DEF c, h, s
  <2> QED BY <1>3, <1>10, <1>11, <2>1, <2>2, VotedCalm
<1> QED BY <1>1, <1>2, <1>9, <1>11, <1>14 DEF VotedIdle

\* A restart finds the tables as they are, or makes them from the blocks of the first round.
LEMMA VotedRestart ==
  ASSUME Base, Earned, Cast, Voted, Restart
  PROVE  Voted'
<1> SUFFICES ASSUME Sound' PROVE VotedIdle'
  BY DEF Voted, Restart
<1> DEFINE h == Top
           s == RoundOf(Top + 1)
<1>1. /\ phase' = "idle" /\ chain' = chain
      /\ MissingBlock => db' = Replayed.db /\ (unpaid' <=> ~Replayed.ok \/ Top >= N)
      /\ ~MissingBlock =>
           /\ db' = db /\ unpaid' = unpaid
           /\ votesOff' = (votesOff \/ (phase = "popping" /\ Top % N # 0 /\ MovedUpTo(Top)))
  BY DEF Restart
<1>2. Top' = h /\ ~unpaid' /\ ~votesOff'
  BY <1>1 DEF Top, Sound
<1>3. h \in Nat \ {0} /\ h \in Nat /\ s \in Rounds /\ db \in Db /\ N \in Nat \ {0} /\ ChainOK
      /\ phase \in {"idle", "popping"} /\ TypeOK /\ Shape
  BY TopIs, Types DEF Base, Shape
<1>4. CASE MissingBlock
  <2>1. Replayed.ok /\ h < N
    <3>1. Replayed.ok /\ ~(h >= N)
      BY <1>1, <1>2, <1>4
    <3> QED BY <1>3, <3>1
  <2>2. IsReplayed(Replayed, Top)
    BY <1>3, <2>1, ReplayedVotes
  <2>3. CountedAt(Replayed.db, chain, h) /\ WaitingAt(Replayed.db, 1) /\ EmptyBut(Replayed.db, {1})
    BY <2>1, <2>2 DEF IsReplayed
  <2>4. s = 1
    <3> HIDE DEF h
    <3> QED BY <1>3, <2>1, FirstRound DEF h
  <2> QED BY <1>1, <1>2, <1>4, <2>3, <2>4 DEF VotedIdle
<1>5. CASE ~MissingBlock
  <2>1. ~unpaid /\ ~votesOff /\ ~(phase = "popping" /\ Top % N # 0 /\ MovedUpTo(Top))
    <3>1. /\ unpaid' = unpaid
          /\ votesOff' = (votesOff \/ (phase = "popping" /\ Top % N # 0 /\ MovedUpTo(Top)))
      BY <1>1, <1>5
    <3> QED BY ONLY <1>2, <3>1, Zenon
  <2>2. db' = db
    BY <1>1, <1>5
  <2>3. CASE phase = "idle"
    BY <1>1, <1>2, <2>1, <2>2, <2>3 DEF Voted, Sound, VotedIdle
  <2>4. CASE phase = "popping"
    <3>1. High = Top
      BY <1>3, <1>5, RestartHigh DEF Base
    <3>2. Top = oldTop
      BY <2>4, <3>1 DEF High
    <3>3. VotedBack
      BY <2>1, <2>4 DEF Voted, Sound
    <3>4. ~Inside
      <4>1. /\ h <= Before(RoundOf(h)) + N /\ Before(RoundOf(h)) \in Nat
            /\ h % N = 0 <=> h = Before(RoundOf(h)) + N
        <5>1. RoundOf(h) \in Nat \ {0}
          BY TopIs, RoundsOf
        <5> HIDE DEF h
        <5> QED BY <1>3, <5>1, RoundFacts
      <4> QED BY <1>3, <3>2, <4>1 DEF Inside
    <3>5. EmptyBut(db, {}) /\ CountedAt(db, chain, h)
      BY <3>2, <3>3, <3>4 DEF VotedBack
    <3>6. \A e \in Delegate : Held(db, e) = StakeAt(chain, e, h)
      BY <2>1, <3>1, StakeWhole
    <3>7. \A e \in Delegate : StakeAt(chain, e, h) = StakeAt(chain, e, LastEnd(h))
      <4>1. Top % N # 0 => \A i \in 1 .. Top : RoundOf(i) = RoundOf(Top) =>
                             chain[i].vote = NoVote /\ chain[i].moves = NoMoves
        BY <2>1, <2>4 DEF MovedUpTo
      <4> QED BY <4>1, CalmNow
    <3>8. WaitingAt(db, s) /\ EmptyBut(db, {s})
      <4> DEFINE c == chain
                 d == db
      <4>1. \A e \in Delegate : Held(d, e) = StakeAt(c, e, h) /\ StakeAt(c, e, h) = StakeAt(c, e, LastEnd(h))
        BY <3>6, <3>7
      <4>2. CountedAt(d, c, h) /\ EmptyBut(d, {}) /\ d \in Db
        BY <1>3, <3>5
      <4> HIDE DEF c, d, h, s
      <4>3. WaitingAt(d, s) /\ EmptyBut(d, {s})
        BY <1>3, <4>1, <4>2, VotedCalm
      <4> QED BY <4>3 DEF d
    <3> QED BY <1>1, <1>2, <2>2, <3>5, <3>8 DEF VotedIdle
  <2> QED BY <1>3, <2>3, <2>4
<1> QED BY <1>4, <1>5

\* At the start the coins of the genesis block count.
LEMMA VotedInit == Init => Voted
<1> SUFFICES ASSUME Init, Sound PROVE VotedIdle
  BY DEF Voted, Init
<1>0. Base /\ Earned /\ Cast
  BY BaseInit, EarnedInit, CastInit
<1>1. db = Started(NewDb).db /\ chain = <<GenesisBlock>> /\ phase = "idle"
  BY DEF Init
<1>2. Top = 1 /\ chain[1] = GenesisBlock
  BY <1>1 DEF Top
<1> DEFINE d == db
           c == chain
           h == Top
           s == RoundOf(Top + 1)
<1>3. \A e \in Delegate : d.vote[e] = Held(d, e) /\ \A q \in Rounds : d.memRound[q][e] = 0
  <2> DEFINE x == Started([NewDb EXCEPT !.pool = RewardPool])
  <2>1. x = Started(NewDb) /\ RewardPool \in Nat
    BY NewDbSame, Constants
  <2>2. x = Started([NewDb EXCEPT !.pool = RewardPool])
    OBVIOUS
  <2> HIDE DEF x
  <2>3. /\ \A e \in Delegate : x.db.vote[e] = Held(x.db, e)
        /\ \A q \in Rounds : \A e \in Delegate : x.db.memRound[q][e] = 0
    BY <2>1, <2>2, StartedVotes
  <2> QED BY <1>1, <2>1, <2>3
<1>4. \A e \in Delegate : Held(d, e) = StakeAt(c, e, h)
  <2>1. High = Top
    BY <1>1 DEF High
  <2> QED BY <1>0, <2>1, StakeWhole DEF Sound
<1>5. \A e \in Delegate : StakeAt(c, e, h) = StakeAt(c, e, LastEnd(h))
  <2>1. Top % N # 0 => \A i \in 1 .. Top : RoundOf(i) = RoundOf(Top) =>
                         chain[i].vote = NoVote /\ chain[i].moves = NoMoves
    <3>1. \A i \in 1 .. Top : i = 1
      BY <1>2
    <3> QED BY <1>2, <3>1 DEF GenesisBlock
  <2> QED BY <1>0, <2>1, CalmNow
<1>6. EmptyBut(d, {}) /\ CountedAt(d, c, h)
  BY <1>3, <1>4, <1>5 DEF EmptyBut, CountedAt
<1>7. d \in Db /\ s \in Rounds
  BY <1>0, TopIs
<1> HIDE DEF d, c, h, s
<1>8. WaitingAt(d, s) /\ EmptyBut(d, {s})
  BY <1>4, <1>5, <1>6, <1>7, VotedCalm
<1> QED BY <1>6, <1>8 DEF VotedIdle, d, c, h, s

\* Every step keeps the votes.
LEMMA VotedNext ==
  Base /\ Earned /\ Cast /\ Voted /\ Base' /\ Earned' /\ Cast' /\ [Next]_vars => Voted'
<1> SUFFICES ASSUME Base, Earned, Cast, Voted, Base', Earned', Cast', [Next]_vars PROVE Voted'
  OBVIOUS
<1>1. ASSUME NEW b \in Block, ApplyBlock(b) PROVE Voted'
  BY <1>1, VotedApply
<1>2. ASSUME NEW common \in 1 .. MaxHeight, StartRollback(common) PROVE Voted'
  BY <1>2, VotedStart
<1>3. CASE PopBlock
  BY <1>3, VotedPop
<1>4. CASE EndRollback
  BY <1>4, VotedEnd
<1>5. CASE LookUp
  BY <1>5, VotedSame DEF LookUp, Sound
<1>6. CASE Restart
  BY <1>6, VotedRestart
<1>7. CASE UNCHANGED vars
  BY <1>7, VotedSame DEF vars, Sound
<1> QED BY <1>1, <1>2, <1>3, <1>4, <1>5, <1>6, <1>7 DEF Next

\* So the votes, and what mem_round has of the current round, are those of the chain.
LEMMA VotedReflects == Base /\ Earned /\ Cast /\ Voted => VotesReflectChain
<1> SUFFICES ASSUME Base, Earned, Cast, Voted, phase = "idle", ~unpaid, ~votesOff, NEW e \in Delegate
             PROVE  /\ db.vote[e] = StakeAt(chain, e, LastEnd(Top))
                    /\ db.memRound[RoundOf(Top + 1)][e]
                         = StakeAt(chain, e, Top) - StakeAt(chain, e, LastEnd(Top))
  BY DEF VotesReflectChain
<1> DEFINE x == StakeAt(chain, e, LastEnd(Top))
           y == StakeAt(chain, e, Top)
           v == db.vote[e]
           m == db.memRound[RoundOf(Top + 1)][e]
<1>1. CountedAt(db, chain, Top) /\ WaitingAt(db, RoundOf(Top + 1))
  BY DEF Voted, Sound, VotedIdle
<1>2. v = x /\ v + m = Held(db, e)
  BY <1>1 DEF CountedAt, WaitingAt
<1>3. Held(db, e) = y
  <2>1. High = Top
    BY DEF High
  <2> QED BY <2>1, StakeWhole
<1>4. v \in Int /\ m \in Int
  <2>1. db \in Db /\ RoundOf(Top + 1) \in Rounds
    BY TopIs
  <2> QED BY <2>1 DEF Db
<1> HIDE DEF x, y, v, m
<1>5. v = x /\ m = y - x
  BY <1>2, <1>3, <1>4
<1> QED BY <1>5 DEF x, y, v, m

-----------------------------------------------------------------------------
(* The lists *)

\* No round was taken back by another list either.
Quiet == Sound /\ ~relisted

\* The rounds that have begun have the list of the votes at their beginning, and so has the
\* cache, if it is for a height up to the next.
Listed ==
  Quiet =>
    /\ \A r \in Rounds :
         (Before(r) < Top /\ (r = 1 => Top > 1 /\ N > 1)) => lists[r] = ListOf(chain, r)
    /\ N = 1 => lists[1] = {}
    /\ (cache.height # 0 /\ cache.height <= Top + 1)
         => cache.height > 1 /\ cache.list = ListOf(chain, RoundOf(cache.height))

\* The rounds before a round have a place in mem_round as well.
LEMMA RoundsDown ==
  ASSUME NEW r \in Rounds, NEW q \in Nat \ {0}, q < r
  PROVE  q \in Rounds
<1> DEFINE n == RoundOf(MaxHeight + 1)
<1>1. MaxHeight + 1 \in Nat \ {0}
  BY Constants
<1>2. n \in Nat
  BY <1>1, RoundFacts
<1>3. r \in 1 .. n
  BY DEF Rounds
<1> HIDE DEF n
<1>4. q \in 1 .. n
  BY <1>2, <1>3
<1> QED BY <1>4 DEF Rounds, n

\* The list of a round is that of any chain with the same blocks below it.
LEMMA ListLocal ==
  ASSUME NEW c, NEW k, NEW n, Agree(c, k, n), NEW r \in Nat \ {0}, Before(r) <= n
  PROVE  ListOf(c, r) = ListOf(k, r)
<1> DEFINE h == Before(r)
<1>1. h \in Nat /\ h <= n
  BY RoundFacts
<1> HIDE DEF h
<1>2. ASSUME NEW e \in Delegate PROVE StakeAt(c, e, h) = StakeAt(k, e, h)
  BY <1>1, StakeLocal
<1>3. [e \in Delegate |-> StakeAt(c, e, h)] = [e \in Delegate |-> StakeAt(k, e, h)]
  BY <1>2
<1> QED BY <1>3 DEF ListOf, h

\* Tables that count what the voters had before the round r give its list.
LEMMA ListCounted ==
  ASSUME NEW d \in Db, NEW c, NEW r,
         \A e \in Delegate : d.vote[e] = StakeAt(c, e, Before(r))
  PROVE  List(d.vote) = ListOf(c, r)
<1>1. d.vote \in [Delegate -> Int]
  BY DEF Db
<1>2. d.vote = [e \in Delegate |-> StakeAt(c, e, Before(r))]
  BY <1>1
<1> QED BY <1>2 DEF ListOf

\* Between synchronisations the votes in the tables give the list of the next height, and so
\* does the cache.
LEMMA ListNext ==
  ASSUME Base, Voted, Listed, Quiet, phase = "idle"
  PROVE  /\ List(db.vote) = ListOf(chain, RoundOf(Top + 1))
         /\ ListFor(Top + 1) = ListOf(chain, RoundOf(Top + 1))
<1> DEFINE r == RoundOf(Top + 1)
<1>0. /\ Top \in Nat \ {0} /\ db \in Db
  BY TopIs
<1>1. CountedAt(db, chain, Top)
  BY DEF Voted, Quiet, VotedIdle
<1>2. LastEnd(Top) = Before(r)
  <2> DEFINE n == Top
  <2>1. n \in Nat \ {0}
    BY <1>0
  <2> HIDE DEF n
  <2>2. LastEnd(n) = Before(RoundOf(n + 1))
    BY <2>1, LastEndIs
  <2> QED BY <2>2 DEF n
<1>3. List(db.vote) = ListOf(chain, r)
  <2> DEFINE d == db
  <2>1. d \in Db
    BY <1>0
  <2> HIDE DEF r
  <2>2. \A e \in Delegate : d.vote[e] = StakeAt(chain, e, Before(r))
    BY <1>1, <1>2 DEF CountedAt
  <2> HIDE DEF d
  <2>3. List(d.vote) = ListOf(chain, r)
    BY <2>1, <2>2, ListCounted
  <2> QED BY <2>3 DEF d
<1>4. ListFor(Top + 1) = ListOf(chain, r)
  <2>1. CASE cache.height = Top + 1
    <3>1. cache.height # 0 /\ cache.height <= Top + 1
      BY <1>0, <2>1
    <3>2. cache.list = ListOf(chain, RoundOf(cache.height))
      BY <3>1 DEF Listed
    <3> QED BY <2>1, <3>2 DEF ListFor
  <2>2. CASE cache.height # Top + 1
    BY <1>3, <2>2 DEF ListFor
  <2> QED BY <2>1, <2>2
<1> QED BY <1>3, <1>4

\* An accepted block notes the list of its round, at the start of the round.
LEMMA ListedAccept ==
  ASSUME Base, Voted, Listed, NEW b \in Block, ApplyBlock(b), NEW h, h = Top + 1,
         NEW r, r = RoundOf(h), NEW t, t = Tick(db, gathered[r], h, b, ListFor(h)), t.ok
  PROVE  Listed'
<1> SUFFICES ASSUME Quiet'
             PROVE  /\ \A q \in Rounds :
                         (Before(q) < Top' /\ (q = 1 => Top' > 1 /\ N > 1))
                           => lists'[q] = ListOf(chain', q)
                    /\ N = 1 => lists'[1] = {}
                    /\ (cache'.height # 0 /\ cache'.height <= Top' + 1)
                         => /\ cache'.height > 1
                            /\ cache'.list = ListOf(chain', RoundOf(cache'.height))
  BY DEF Listed
<1> DEFINE l == ListFor(h)
<1>0. TypeOK /\ Shape
  BY DEF Base
<1>1. /\ phase = "idle" /\ h \in Nat \ {0} /\ h # 1 /\ r \in Rounds /\ Top \in Nat \ {0}
      /\ chain \in Seq(Block \cup {GenesisBlock}) /\ chain' \in Seq(Block \cup {GenesisBlock})
      /\ Top' = h /\ Len(chain') = h /\ Len(chain) = Top /\ l \in SUBSET Delegate
      /\ \A i \in 1 .. Top : chain'[i] = chain[i]
  BY AcceptIs
<1>2. /\ cache' = [height |-> h, list |-> l] /\ Quiet
      /\ lists' = IF Top % N = 0 \/ Top = 1 THEN [lists EXCEPT ![r] = l] ELSE lists
      /\ lists \in [Rounds -> SUBSET Delegate]
  BY <1>0, Types DEF ApplyBlock, Quiet, Sound
<1>3. l = ListOf(chain, r)
  BY <1>1, <1>2, ListNext
<1>4. /\ r \in Nat \ {0} /\ Before(r) \in Nat /\ Before(r) < h /\ h <= Before(r) + N
      /\ \A q \in Rounds : /\ Before(q) \in Nat
                           /\ q # r => Before(q) + N <= Before(r) \/ Before(r) + N <= Before(q)
      /\ N \in Nat \ {0}
  BY <1>1, Places, Constants
<1>5. ASSUME NEW q \in Rounds, Before(q) <= Top PROVE ListOf(chain', q) = ListOf(chain, q)
  <2> DEFINE c == chain
             k == chain'
             n == Top
  <2>1. Agree(c, k, n)
    BY <1>1 DEF Agree
  <2>2. q \in Nat \ {0} /\ Before(q) <= n
    BY <1>5, RoundsOf
  <2> HIDE DEF c, k, n
  <2>3. ListOf(c, q) = ListOf(k, q)
    BY <2>1, <2>2, ListLocal
  <2> QED BY <2>3 DEF c, k
<1>6. Before(r) <= Top
  BY <1>1, <1>4
<1> HIDE DEF l
<1>7. ASSUME NEW q \in Rounds, Before(q) < h, q = 1 => h > 1 /\ N > 1
      PROVE  lists'[q] = ListOf(chain', q)
  <2>1. CASE q # r
    <3>1. Before(q) < Top /\ (q = 1 => Top > 1 /\ N > 1)
      <4>1. Before(q) + N <= Before(r)
        BY <1>1, <1>4, <1>7, <2>1
      <4>2. Before(q) + N <= Top /\ Before(q) \in Nat
        BY <1>1, <1>4, <4>1
      <4> QED BY <1>1, <1>4, <1>7, <4>2
    <3>2. lists[q] = ListOf(chain, q)
      BY <1>2, <3>1 DEF Listed
    <3>3. lists'[q] = lists[q]
      BY <1>2, <2>1
    <3>4. Before(q) <= Top
      <4>1. Before(q) \in Nat /\ Before(q) < Top /\ Top \in Nat
        BY <1>1, <1>4, <3>1
      <4> QED BY <4>1
    <3> QED BY <1>5, <3>2, <3>3, <3>4
  <2>2. CASE q = r /\ (Top % N = 0 \/ Top = 1)
    <3>1. lists'[q] = l
      BY <1>1, <1>2, <2>2
    <3> QED BY <1>3, <1>5, <1>6, <2>2, <3>1
  <2>3. CASE q = r /\ ~(Top % N = 0 \/ Top = 1)
    <3>1. Before(r) # Top
      <4> DEFINE n == Top
      <4>1. n \in Nat \ {0} /\ h = n + 1
        BY <1>1
      <4> HIDE DEF n
      <4>2. RoundOf(n) # r <=> Before(r) = n
        BY <4>1, FirstHeight
      <4>3. RoundOf(n + 1) # RoundOf(n) <=> n % N = 0
        BY <4>1, RoundEnds
      <4> QED BY <2>3, <4>1, <4>2, <4>3 DEF n
    <3>2. Before(q) < Top /\ (q = 1 => Top > 1 /\ N > 1)
      BY <1>1, <1>4, <1>6, <1>7, <2>3, <3>1
    <3>3. lists[q] = ListOf(chain, q)
      BY <1>2, <3>2 DEF Listed
    <3>4. lists'[q] = lists[q]
      BY <1>2, <2>3
    <3> QED BY <1>5, <1>6, <2>3, <3>3, <3>4
  <2> QED BY <2>1, <2>2, <2>3
<1>8. N = 1 => lists'[1] = {}
  <2> SUFFICES ASSUME N = 1 PROVE lists'[1] = {}
    OBVIOUS
  <2>1. r # 1
    <3>1. Before(1) = 0
      BY RoundFacts
    <3> QED BY <1>1, <1>4, <3>1
  <2>2. 1 \in Rounds
    <3>1. 1 \in Nat \ {0} /\ 1 < r
      BY <1>4, <2>1
    <3> QED BY <1>1, <3>1, RoundsDown
  <2>3. lists[1] = {}
    BY <1>2 DEF Listed
  <2> QED BY <1>2, <2>1, <2>2, <2>3
<1>9. cache'.height = h /\ cache'.list = ListOf(chain', r)
  BY <1>1, <1>2, <1>3, <1>5, <1>6
<1> QED BY <1>1, <1>7, <1>8, <1>9

\* Where the lists and the chain stay, the cache may get the next list.
LEMMA ListedSame ==
  ASSUME Base, Voted, Listed, Quiet' => Quiet, lists' = lists, chain' = chain,
         \/ cache' = cache
         \/ phase = "idle" /\ cache' = [height |-> Top + 1, list |-> ListFor(Top + 1)]
  PROVE  Listed'
<1> SUFFICES ASSUME Quiet'
             PROVE  (cache'.height # 0 /\ cache'.height <= Top' + 1)
                         => /\ cache'.height > 1
                            /\ cache'.list = ListOf(chain', RoundOf(cache'.height))
  BY DEF Listed, Top
<1>1. Top' = Top /\ Quiet
  BY DEF Top
<1>2. CASE cache' = cache
  BY <1>1, <1>2 DEF Listed
<1>3. CASE phase = "idle" /\ cache' = [height |-> Top + 1, list |-> ListFor(Top + 1)]
  <2> DEFINE l == ListFor(Top + 1)
             h == Top + 1
  <2>1. l = ListOf(chain, RoundOf(h))
    BY <1>1, <1>3, ListNext
  <2>2. h > 1
    <3>1. Top \in Nat \ {0}
      BY Constants DEF Base, Shape, ChainOK
    <3> QED BY <3>1
  <2>3. cache'.height = h /\ cache'.list = l
    BY <1>3
  <2> HIDE DEF l, h
  <2> QED BY <2>1, <2>2, <2>3
<1> QED BY <1>2, <1>3

\* The list by which a round is taken back is the one by which it was made.
LEMMA PopList ==
  ASSUME Base, Earned, Listed, PopBlock, Quiet', PopSettles
  PROVE  /\ lists[RoundOf(Top)] = ListFor(Top)
         /\ ListFor(Top) = ListOf(chain, RoundOf(Top))
<1> DEFINE r == RoundOf(Top)
<1>0. TypeOK /\ Shape /\ Ungathers /\ ~unpaid' /\ Quiet /\ lists[r] = ListFor(Top)
  <2>1. relisted' = (relisted \/ (PopSettles /\ ListFor(Top) # lists[r]))
    BY DEF PopBlock, PopSettles, PopUn
  <2>2. ~relisted' /\ ~unpaid' /\ ~votesOff'
    BY DEF Quiet, Sound
  <2>3. ~relisted /\ lists[r] = ListFor(Top)
    BY ONLY <2>1, <2>2, PopSettles, Zenon
  <2>4. Sound
    BY <2>2 DEF Sound, PopBlock
  <2> QED BY <2>2, <2>3, <2>4 DEF Base, Earned, Quiet
<1>1. PopShape(r, ungathered[r], PopUn) /\ Before(r) = Top - 1
  BY <1>0, PopCases
<1>2. r \in Rounds /\ N \in Nat \ {0} /\ Top \in Nat \ {0, 1} /\ Before(r) < Top /\ Top # 2
      /\ Before(r) + N <= oldTop /\ oldTop \in Nat
  <2>1. Top # 2
    BY <1>0 DEF PopBlock
  <2> QED BY <1>0, <1>1, <2>1, PopCases DEF PopShape
<1>3. r # 1
  <2>1. Before(1) = 0
    BY RoundFacts
  <2> QED BY <1>1, <1>2, <2>1
<1>4. lists[r] = ListOf(chain, r)
  BY <1>0, <1>2, <1>3 DEF Listed
<1> QED BY <1>0, <1>4

\* A popped block leaves the lists; the cache gets that of the round that is taken back.
LEMMA ListedPop ==
  ASSUME Base, Earned, Listed, PopBlock
  PROVE  Listed'
<1> SUFFICES ASSUME Quiet'
             PROVE  /\ \A q \in Rounds :
                         (Before(q) < Top' /\ (q = 1 => Top' > 1 /\ N > 1))
                           => lists'[q] = ListOf(chain', q)
                    /\ N = 1 => lists'[1] = {}
                    /\ (cache'.height # 0 /\ cache'.height <= Top' + 1)
                         => /\ cache'.height > 1
                            /\ cache'.list = ListOf(chain', RoundOf(cache'.height))
  BY DEF Listed
<1> DEFINE r == RoundOf(Top)
           n == Top - 1
           l == ListFor(Top)
<1>0. TypeOK /\ Shape /\ Ungathers /\ ~unpaid' /\ Quiet
  BY DEF Base, Earned, Quiet, Sound, PopBlock
<1>1. /\ lists' = lists
      /\ PopSettles => cache' = [height |-> Top, list |-> l]
      /\ ~PopSettles => cache' = cache
  BY <1>0, PopIs DEF PopBlock
<1>2. PopShape(r, ungathered[r], PopUn)
  BY <1>0, PopCases
<1>3. /\ r \in Rounds /\ N \in Nat \ {0} /\ Top \in Nat \ {0, 1} /\ Len(chain) = Top /\ n \in Nat
      /\ Top' = n /\ Before(r) \in Nat /\ Before(r) < Top
      /\ Agree(chain, chain', n)
  BY <1>2 DEF PopShape, Agree
<1>4. ASSUME NEW q \in Nat \ {0}, Before(q) <= n PROVE ListOf(chain', q) = ListOf(chain, q)
  <2> DEFINE c == chain
             k == chain'
  <2>1. Agree(c, k, n)
    BY <1>3
  <2> HIDE DEF c, k, n
  <2>2. ListOf(c, q) = ListOf(k, q)
    BY <1>4, <2>1, ListLocal
  <2> QED BY <2>2 DEF c, k
<1>5. ASSUME NEW q \in Rounds, Before(q) < Top', q = 1 => Top' > 1 /\ N > 1
      PROVE  lists'[q] = ListOf(chain', q)
  <2>1. q \in Nat \ {0} /\ Before(q) \in Nat
    BY RoundsOf, RoundFacts
  <2>2. Before(q) < Top /\ (q = 1 => Top > 1 /\ N > 1) /\ Before(q) <= n
    BY <1>3, <1>5, <2>1
  <2>3. lists[q] = ListOf(chain, q)
    BY <1>0, <2>2 DEF Listed
  <2> QED BY <1>1, <1>4, <2>1, <2>2, <2>3
<1>6. N = 1 => lists'[1] = {}
  BY <1>0, <1>1 DEF Listed
<1>7. ASSUME cache'.height # 0, cache'.height <= Top' + 1
      PROVE  cache'.height > 1 /\ cache'.list = ListOf(chain', RoundOf(cache'.height))
  <2>1. CASE PopSettles
    <3>1. cache'.height = Top /\ cache'.list = l
      BY <1>1, <2>1
    <3>2. l = ListOf(chain, r)
      BY <1>0, <2>1, PopList
    <3>3. r \in Nat \ {0} /\ Before(r) <= n
      BY <1>3, RoundsOf
    <3>4. ListOf(chain', r) = ListOf(chain, r)
      BY <1>4, <3>3
    <3> HIDE DEF l
    <3> QED BY <1>3, <3>1, <3>2, <3>4
  <2>2. CASE ~PopSettles
    <3> DEFINE h == cache.height
               q == RoundOf(h)
    <3>1. h \in Nat /\ cache' = cache
      BY <1>0, <1>1, <2>2, Types
    <3>2. h # 0 /\ h <= n + 1 /\ h <= Top + 1
      BY <1>3, <1>7, <3>1
    <3>3. h > 1 /\ cache.list = ListOf(chain, q)
      BY <1>0, <3>2 DEF Listed
    <3>4. q \in Nat \ {0} /\ Before(q) <= n
      <4>1. q \in Nat \ {0} /\ Before(q) < h /\ Before(q) \in Nat
        BY <3>1, <3>2, RoundFacts
      <4> HIDE DEF q, h
      <4> QED BY <1>3, <3>1, <3>2, <4>1
    <3>5. ListOf(chain', q) = ListOf(chain, q)
      BY <1>4, <3>4
    <3> QED BY <3>1, <3>3, <3>5
  <2> QED BY <2>1, <2>2
<1> QED BY <1>5, <1>6, <1>7

\* A restart has the lists, from the blocks that are applied again or as they were.
LEMMA ListedRestart ==
  ASSUME Base, Listed, Restart
  PROVE  Listed'
<1> SUFFICES ASSUME Quiet'
             PROVE  /\ \A q \in Rounds :
                         (Before(q) < Top' /\ (q = 1 => Top' > 1 /\ N > 1))
                           => lists'[q] = ListOf(chain', q)
                    /\ N = 1 => lists'[1] = {}
                    /\ cache'.height = 0
  BY DEF Listed
<1>0. TypeOK /\ Shape
  BY DEF Base
<1>1. /\ chain' = chain /\ cache'.height = 0 /\ ~unpaid' /\ ~votesOff' /\ ~relisted'
      /\ MissingBlock => /\ db' = Replayed.db /\ lists' = Replayed.lists
                         /\ unpaid' = (~Replayed.ok \/ Top >= N)
      /\ ~MissingBlock => /\ lists' = lists /\ unpaid' = unpaid /\ relisted' = relisted
                          /\ votesOff' = (votesOff \/ (phase = "popping" /\ Top % N # 0 /\ MovedUpTo(Top)))
  BY DEF Restart, Quiet, Sound, NoList
<1>2. /\ Top' = Top /\ ChainOK /\ db \in Db /\ Top \in Nat \ {0} /\ N \in Nat \ {0}
  BY <1>0, <1>1, Types, Constants DEF Top, Shape, ChainOK
<1>3. CASE MissingBlock
  <2>1. Top < N /\ Replayed.ok
    <3>1. unpaid' = (~Replayed.ok \/ Top >= N) /\ ~unpaid'
      BY <1>1, <1>3
    <3>2. ~(Top >= N) /\ Replayed.ok
      BY ONLY <3>1, Zenon
    <3> QED BY <1>2, <3>2
  <2>2. IsReplayed(Replayed, Top)
    BY <1>2, <2>1, ReplayedVotes
  <2>3. Top > 1 => lists'[1] = ListOf(chain, 1)
    BY <1>1, <1>3, <2>1, <2>2 DEF IsReplayed
  <2>4. ASSUME NEW q \in Rounds, Before(q) < Top, q = 1 => Top > 1 /\ N > 1
        PROVE  lists'[q] = ListOf(chain, q)
    <3>1. q = 1
      BY <1>2, <2>1, <2>4, FirstRound
    <3> QED BY <2>3, <2>4, <3>1
  <2>5. N # 1
    BY <1>2, <2>1
  <2> QED BY <1>1, <1>2, <2>4, <2>5
<1>4. CASE ~MissingBlock
  <2>1. Quiet
    <3>1. /\ unpaid' = unpaid /\ relisted' = relisted
          /\ votesOff' = (votesOff \/ (phase = "popping" /\ Top % N # 0 /\ MovedUpTo(Top)))
          /\ ~unpaid' /\ ~votesOff' /\ ~relisted'
      BY <1>1, <1>4
    <3>2. ~unpaid /\ ~relisted
      BY <3>1
    <3>3. ~votesOff
      BY ONLY <3>1, Zenon
    <3> QED BY <3>2, <3>3 DEF Quiet, Sound
  <2> QED BY <1>1, <1>2, <1>4, <2>1 DEF Listed
<1> QED BY <1>3, <1>4

\* Before the first block there are no lists.
LEMMA ListedInit == Init => Listed
<1> SUFFICES ASSUME Init PROVE Listed
  OBVIOUS
<1>1. chain = <<GenesisBlock>> /\ cache = NoList /\ lists = [r \in Rounds |-> {}]
  BY DEF Init
<1>2. Top = 1 /\ cache.height = 0 /\ N \in Nat \ {0} /\ 1 \in Rounds
  <2>1. RoundOf(1) = 1
    <3>1. Before(1) = 0 /\ N \in Nat \ {0} /\ 1 \in Nat \ {0}
      BY RoundFacts, Constants
    <3>2. Before(1) < 1 /\ 1 <= Before(1) + N
      BY <3>1
    <3> QED BY <3>1, <3>2, RoundHeights
  <2>2. 1 \in 1 .. MaxHeight + 1
    BY Constants
  <2>3. 1 \in Rounds
    BY <2>1, <2>2, RoundsOf
  <2> QED BY <1>1, <2>3, Constants DEF Top, NoList
<1>3. ASSUME NEW r \in Rounds, Before(r) < 1 PROVE r = 1
  <2>1. r \in Nat \ {0} /\ Before(r) \in Nat
    BY RoundsOf, RoundFacts
  <2>2. 1 < r => Before(1) + N <= Before(r)
    BY <2>1, RoundFacts
  <2>3. Before(1) = 0
    BY RoundFacts
  <2> QED BY <1>2, <1>3, <2>1, <2>2, <2>3
<1> QED BY <1>1, <1>2, <1>3 DEF Listed

\* A block that is applied or refused keeps the lists.
LEMMA ListedApply ==
  ASSUME Base, Voted, Listed, NEW b \in Block, ApplyBlock(b)
  PROVE  Listed'
<1> DEFINE h == Top + 1
           r == RoundOf(h)
           t == Tick(db, gathered[r], h, b, ListFor(h))
<1>1. CASE t.ok
  BY <1>1, ListedAccept
<1>2. CASE ~t.ok
  <2>1. /\ lists' = lists /\ chain' = chain /\ phase = "idle"
        /\ cache' = [height |-> Top + 1, list |-> ListFor(Top + 1)] /\ (Quiet' => Quiet)
    BY <1>2 DEF ApplyBlock, Quiet, Sound
  <2> QED BY <2>1, ListedSame
<1> QED BY <1>1, <1>2

\* Every step keeps the lists those of the rounds before.
LEMMA ListedNext == Base /\ Earned /\ Voted /\ Listed /\ [Next]_vars => Listed'
<1> SUFFICES ASSUME Base, Earned, Voted, Listed, [Next]_vars PROVE Listed'
  OBVIOUS
<1>1. ASSUME NEW b \in Block, ApplyBlock(b) PROVE Listed'
  BY <1>1, ListedApply
<1>2. ASSUME NEW common \in 1 .. MaxHeight, StartRollback(common) PROVE Listed'
  <2>1. lists' = lists /\ chain' = chain /\ cache' = cache /\ (Quiet' => Quiet)
    BY <1>2 DEF StartRollback, Quiet, Sound
  <2> QED BY <2>1, ListedSame
<1>3. CASE PopBlock
  BY <1>3, ListedPop
<1>4. CASE EndRollback
  <2>1. lists' = lists /\ chain' = chain /\ cache' = cache /\ (Quiet' => Quiet)
    BY <1>4 DEF EndRollback, Quiet, Sound
  <2> QED BY <2>1, ListedSame
<1>5. CASE LookUp
  <2>1. /\ lists' = lists /\ chain' = chain /\ (Quiet' => Quiet) /\ phase = "idle"
        /\ cache' = [height |-> Top + 1, list |-> ListFor(Top + 1)]
    BY <1>5 DEF LookUp, Quiet, Sound
  <2> QED BY <2>1, ListedSame
<1>6. CASE Restart
  BY <1>6, ListedRestart
<1>7. CASE UNCHANGED vars
  <2>1. lists' = lists /\ chain' = chain /\ cache' = cache /\ (Quiet' => Quiet)
    BY <1>7 DEF vars, Quiet, Sound
  <2> QED BY <2>1, ListedSame
<1> QED BY <1>1, <1>2, <1>3, <1>4, <1>5, <1>6, <1>7 DEF Next

\* The lists are those of OneListPerRound.
LEMMA ListedReflects == Base /\ Voted /\ Listed => OneListPerRound
<1> SUFFICES ASSUME Base, Voted, Listed, phase = "idle", ~unpaid, ~votesOff, ~relisted
             PROVE  /\ Top % N # 0 /\ Top > 1 => ListFor(Top + 1) = lists[RoundOf(Top)]
                    /\ ListFor(Top + 1) = List(db.vote)
  BY DEF OneListPerRound
<1> DEFINE n == Top
           h == Top + 1
           r == RoundOf(Top)
<1>0. TypeOK /\ Shape /\ Quiet
  BY DEF Base, Quiet, Sound
<1>1. List(db.vote) = ListOf(chain, RoundOf(h)) /\ ListFor(h) = ListOf(chain, RoundOf(h))
  BY <1>0, ListNext
<1>2. ASSUME n % N # 0, n > 1 PROVE ListFor(h) = lists[r]
  <2>1. n \in Nat \ {0} /\ n \in 1 .. MaxHeight + 1 /\ N \in Nat \ {0} /\ r \in Rounds
    <3>1. n \in Nat \ {0} /\ n \in 1 .. MaxHeight + 1 /\ N \in Nat \ {0}
      BY <1>0, Constants DEF Shape, ChainOK
    <3>2. r \in Rounds
      BY <3>1, RoundsOf
    <3> QED BY <3>1, <3>2
  <2>2. RoundOf(h) = r
    BY <1>2, <2>1, RoundEnds
  <2>3. Before(r) < n
    BY <2>1, RoundFacts
  <2>4. N > 1
    <3>1. N = 1 => n % N = 0
      BY <2>1
    <3> QED BY <1>2, <2>1, <3>1
  <2>5. lists[r] = ListOf(chain, r)
    BY <1>0, <1>2, <2>1, <2>3, <2>4 DEF Listed
  <2> QED BY <1>1, <2>2, <2>5
<1> QED BY <1>1, <1>2

-----------------------------------------------------------------------------
(* The missed blocks *)

\* The delegates whose turn in the round r passed without a block.
MissedBy(c, u, l, r) == Outsiders(l[r], Whole(c, u[r], r))
MissedIn(e, S, c, u, l) == {r \in S : e \in MissedBy(c, u, l, r)}
MissedAt(d, S, c, u, l) ==
  \A e \in Delegate : d.missed[e] = Cardinality(MissedIn(e, S, c, u, l))

\* The accounts have the missed blocks of the rounds that are settled.
Missed == Quiet => MissedAt(db, Settled, chain, ungathered, lists)

\* In the rounds in S the same delegates have missed their block.
SameMissed(S, c, u, l, k, v, m) == \A q \in S : MissedBy(c, u, l, q) = MissedBy(k, v, m, q)

\* With the same rounds, the same blocks are missed.
LEMMA MissedSame ==
  ASSUME NEW d, NEW t, t.missed = d.missed, NEW S, NEW c, NEW u, NEW l, NEW k, NEW v, NEW m,
         SameMissed(S, c, u, l, k, v, m), MissedAt(d, S, c, u, l)
  PROVE  MissedAt(t, S, k, v, m)
<1> SUFFICES ASSUME NEW e \in Delegate
             PROVE  t.missed[e] = Cardinality(MissedIn(e, S, k, v, m))
  BY DEF MissedAt
<1>1. MissedIn(e, S, k, v, m) = MissedIn(e, S, c, u, l)
  BY DEF SameMissed, MissedIn
<1>2. d.missed[e] = Cardinality(MissedIn(e, S, c, u, l))
  BY DEF MissedAt
<1> QED BY <1>1, <1>2

\* The rounds in S and the round r, of c and k.
IsNext(S, r, c, u, l, k, v, m) ==
  IsFiniteSet(S) /\ r \notin S /\ SameMissed(S, c, u, l, k, v, m)

\* One more round has one more missed block, or none.
LEMMA MissedGrows ==
  ASSUME NEW S, NEW r, NEW c, NEW u, NEW l, NEW k, NEW v, NEW m,
         IsNext(S, r, c, u, l, k, v, m), NEW e
  PROVE  /\ Cardinality(MissedIn(e, S, c, u, l)) \in Nat
         /\ Cardinality(MissedIn(e, S \cup {r}, k, v, m))
              = Cardinality(MissedIn(e, S, c, u, l)) + IF e \in MissedBy(k, v, m, r) THEN 1 ELSE 0
<1> DEFINE P == MissedIn(e, S, c, u, l)
           Q == MissedIn(e, S \cup {r}, k, v, m)
<1>1. Q = IF e \in MissedBy(k, v, m, r) THEN P \cup {r} ELSE P
  BY DEF IsNext, SameMissed, MissedIn
<1>2. IsFiniteSet(P) /\ r \notin P
  <2>1. P \subseteq S /\ IsFiniteSet(S) /\ r \notin S
    BY DEF MissedIn, IsNext
  <2> HIDE DEF P
  <2> QED BY <2>1, FS_Subset
<1> HIDE DEF P, Q
<1>3. Cardinality(P) \in Nat
  BY <1>2, FS_CardinalityType
<1>4. Cardinality(P \cup {r}) = Cardinality(P) + 1
  BY <1>2, FS_AddElement
<1>5. Cardinality(Q) = Cardinality(P) + IF e \in MissedBy(k, v, m, r) THEN 1 ELSE 0
  BY <1>1, <1>3, <1>4
<1> QED BY <1>3, <1>5 DEF P, Q

\* The tables t have one more round than d.
MarksOne(d, t, k, v, m, r) ==
  \A e \in Delegate : /\ d.missed[e] \in Int /\ t.missed[e] \in Int
                      /\ t.missed[e] = d.missed[e] + IF e \in MissedBy(k, v, m, r) THEN 1 ELSE 0

\* A round is settled.
LEMMA MissedMore ==
  ASSUME NEW S, NEW r, NEW c, NEW u, NEW l, NEW k, NEW v, NEW m,
         IsNext(S, r, c, u, l, k, v, m), NEW d, NEW t, MarksOne(d, t, k, v, m, r)
  PROVE  MissedAt(d, S, c, u, l) <=> MissedAt(t, S \cup {r}, k, v, m)
<1> DEFINE T == S \cup {r}
<1>1. ASSUME NEW e \in Delegate
      PROVE  d.missed[e] = Cardinality(MissedIn(e, S, c, u, l))
               <=> t.missed[e] = Cardinality(MissedIn(e, T, k, v, m))
  <2> DEFINE x == Cardinality(MissedIn(e, S, c, u, l))
             y == Cardinality(MissedIn(e, T, k, v, m))
             n == IF e \in MissedBy(k, v, m, r) THEN 1 ELSE 0
  <2>1. x \in Nat /\ y = x + n
    BY MissedGrows
  <2>2. d.missed[e] \in Int /\ t.missed[e] = d.missed[e] + n
    BY DEF MarksOne
  <2>3. n \in Int
    OBVIOUS
  <2> HIDE DEF x, y, n
  <2>4. d.missed[e] = x <=> t.missed[e] = y
    BY <2>1, <2>2, <2>3
  <2> QED BY <2>4 DEF x, y
<1> HIDE DEF T
<1>2. MissedAt(d, S, c, u, l) <=> MissedAt(t, T, k, v, m)
  BY <1>1 DEF MissedAt
<1> QED BY <1>2 DEF T

\* An accepted block marks those who missed their block, at the end of a round.
LEMMA MissedAccept ==
  ASSUME Base, Earned, Voted, Listed, Missed, NEW b \in Block, ApplyBlock(b), NEW h, h = Top + 1,
         NEW r, r = RoundOf(h), NEW t, t = Tick(db, gathered[r], h, b, ListFor(h)), t.ok
  PROVE  Missed'
<1> SUFFICES ASSUME Quiet' PROVE MissedAt(db', Settled', chain', ungathered', lists')
  BY DEF Missed
<1> DEFINE g == gathered[r]
           l == ListFor(h)
           k == chain'
           v == ungathered'
           m == lists'
           S == SettledAt(Top, Top)
           all == TickAll(g, h, b)
<1>0. TypeOK /\ Shape /\ Gathers
  BY DEF Base, Earned
<1>1. /\ phase = "idle" /\ phase' = "idle" /\ h \in Nat \ {0} /\ h # 1 /\ r \in Rounds /\ Top \in Nat \ {0}
      /\ gathered \in [Rounds -> Seq(Entry)] /\ l \in SUBSET Delegate
      /\ b \in Block \cup {GenesisBlock}
      /\ chain \in Seq(Block \cup {GenesisBlock}) /\ k \in Seq(Block \cup {GenesisBlock})
      /\ db' = t.db /\ Top' = h /\ Len(k) = h /\ Len(chain) = Top /\ db \in Db
      /\ \A i \in 1 .. Top : k[i] = chain[i]
  BY AcceptIs
<1>2. Quiet /\ ~unpaid'
  BY DEF ApplyBlock, Quiet, Sound
<1>3. Listed' /\ l = ListOf(chain, r)
  BY <1>1, <1>2, ListedAccept, ListNext
<1>4. /\ r \in Nat \ {0} /\ N \in Nat \ {0} /\ Before(r) \in Nat /\ Before(r) < h /\ h <= Before(r) + N
      /\ h % N = 0 <=> h = Before(r) + N
  BY <1>1, Places, Constants
<1>5. Settled = S /\ Settled' = SettledAt(h, h)
  BY <1>1 DEF Settled, High
<1>6. /\ h % N # 0 => SettledAt(h, h) = S
      /\ h % N = 0 => SettledAt(h, h) = S \cup {r}
      /\ r \notin S
  <2> DEFINE n == Top
  <2>1. n \in Nat \ {0} /\ h = n + 1
    BY <1>1
  <2>2. r \notin S
    BY <1>1, <1>4 DEF SettledAt
  <2> HIDE DEF n
  <2>3. /\ h % N # 0 => SettledAt(h, h) = SettledAt(n, n)
        /\ h % N = 0 => SettledAt(h, h) = SettledAt(n, n) \cup {r} /\ r \notin SettledAt(n, n)
    BY <1>1, <2>1, SettledGrows
  <2> QED BY <2>2, <2>3 DEF n
<1>7. SameMissed(S, chain, ungathered, lists, k, v, m)
  <2> SUFFICES ASSUME NEW q \in S PROVE MissedBy(chain, ungathered, lists, q) = MissedBy(k, v, m, q)
    BY DEF SameMissed
  <2>1. Whole(k, v[q], q) = Whole(chain, ungathered[q], q)
    BY AcceptSame
  <2>2. m[q] = lists[q]
    <3>1. q # r /\ lists \in [Rounds -> SUBSET Delegate] /\ q \in Rounds
      BY <1>0, <1>6, SettledFinite, Types
    <3>2. m = lists \/ m = [lists EXCEPT ![r] = l]
      BY DEF ApplyBlock
    <3> HIDE DEF m, l
    <3> QED BY <3>1, <3>2
  <2> QED BY <2>1, <2>2 DEF MissedBy
<1>8. MissedAt(db, S, chain, ungathered, lists)
  BY <1>2, <1>5 DEF Missed
<1>9. t.db \in Db /\ IsTicked(t.db, db, g, h, b, l)
  <2>1. db \in Db /\ g \in Seq(Entry) /\ h \in Nat \ {0} /\ RoundOf(h) \in Rounds
        /\ b \in Block \cup {GenesisBlock} /\ l \in SUBSET Delegate /\ t = Tick(db, g, h, b, l)
    BY <1>1
  <2> HIDE DEF g, l
  <2> QED BY <2>1, TickedIs
<1>10. CASE h % N # 0
  <2>1. ~Settles(all, h)
    BY <1>1, <1>10, RoundEnds DEF Settles
  <2>2. db'.missed = db.missed
    <3>1. \A e \in Delegate : t.db.missed[e] = db.missed[e]
      <4>1. \A e \in Delegate : t.db.missed[e] = db.missed[e] + 0
        BY <1>9, <2>1 DEF IsTicked
      <4>2. \A e \in Delegate : db.missed[e] \in Int
        BY <1>1 DEF Db
      <4> QED BY <4>1, <4>2
    <3>2. db' \in Db
      BY <1>1, <1>9
    <3>3. db'.missed \in [Delegate -> Int] /\ db.missed \in [Delegate -> Int]
      BY <1>1, <3>2 DEF Db
    <3> QED BY <1>1, <3>1, <3>3
  <2> DEFINE d == db
             x == db'
  <2>3. MissedAt(d, S, chain, ungathered, lists) /\ x.missed = d.missed
    BY <1>8, <2>2
  <2> HIDE DEF d, x, S, k, v, m
  <2>4. MissedAt(x, S, k, v, m)
    BY <1>7, <2>3, MissedSame
  <2> QED BY <1>5, <1>6, <1>10, <2>4 DEF x, k, v, m
<1>11. CASE h % N = 0
  <2>1. /\ all \in Seq(Entry) /\ Len(all) = N /\ Settles(all, h)
        /\ Whole(k, v[r], r) = all
    BY <1>0, <1>2, <1>11, AcceptWhole
  <2>2. m[r] = l
    <3>1. r = 1 => Top' > 1 /\ N > 1
      <4> SUFFICES ASSUME r = 1 PROVE Top' > 1 /\ N > 1
        OBVIOUS
      <4>1. Before(r) = 0
        BY RoundFacts
      <4>2. h = N
        BY <1>1, <1>4, <1>11, <4>1
      <4>3. N > 1
        BY <1>1, <1>4, <4>2
      <4> HIDE DEF k, v, m, all, S, g, l
      <4> QED BY <1>1, <4>2, <4>3
    <3>2. m[r] = ListOf(k, r)
      BY <1>1, <1>3, <1>4, <3>1 DEF Listed
    <3>3. ListOf(k, r) = ListOf(chain, r)
      <4> DEFINE c == chain
                 n == Top
      <4>1. Agree(c, k, n) /\ r \in Nat \ {0} /\ Before(r) <= n
        BY <1>1, <1>4 DEF Agree
      <4> HIDE DEF c, k, n
      <4>2. ListOf(c, r) = ListOf(k, r)
        BY <4>1, ListLocal
      <4> QED BY <4>2 DEF c
    <3> QED BY <1>3, <3>2, <3>3
  <2>3. MarksOne(db, t.db, k, v, m, r)
    <3> SUFFICES ASSUME NEW e \in Delegate
                 PROVE  /\ db.missed[e] \in Int /\ t.db.missed[e] \in Int
                        /\ t.db.missed[e] = db.missed[e] + IF e \in MissedBy(k, v, m, r) THEN 1 ELSE 0
      BY DEF MarksOne
    <3>1. t.db.missed[e] = db.missed[e] + IF e \in Outsiders(l, all) THEN 1 ELSE 0
      <4>1. t.db.missed[e] = db.missed[e]
              + IF e \in Outsiders(IF h = 1 THEN {} ELSE l, all) THEN 1 ELSE 0
        BY <1>9, <2>1 DEF IsTicked
      <4>2. (IF h = 1 THEN {} ELSE l) = l
        BY <1>1
      <4> QED BY <4>1, <4>2
    <3>2. MissedBy(k, v, m, r) = Outsiders(l, all)
      BY <2>1, <2>2 DEF MissedBy
    <3>3. db.missed[e] \in Int /\ t.db.missed[e] \in Int
      BY <1>1, <1>9 DEF Db
    <3> QED BY <3>1, <3>2, <3>3
  <2> DEFINE d == db
             x == t.db
             T == S \cup {r}
  <2>4. IsNext(S, r, chain, ungathered, lists, k, v, m)
    BY <1>6, <1>7, SettledFinite DEF IsNext
  <2>5. MarksOne(d, x, k, v, m, r) /\ MissedAt(d, S, chain, ungathered, lists)
    BY <1>8, <2>3
  <2> HIDE DEF d, x, S, k, v, m, T
  <2>6. MissedAt(d, S, chain, ungathered, lists) <=> MissedAt(x, S \cup {r}, k, v, m)
    BY <2>4, <2>5, MissedMore
  <2>7. MissedAt(x, T, k, v, m)
    BY <2>5, <2>6 DEF T
  <2> QED BY <1>1, <1>5, <1>6, <1>11, <2>7 DEF x, k, v, m, T
<1> QED BY <1>10, <1>11

\* The blocks of a round counted from the other end have the same generators.
LEMMA BackGenerators ==
  ASSUME NEW g \in Seq(Entry), NEW k \in Seq(Entry), Len(g) = N, Len(k) = N,
         \A i \in 1 .. N : k[i] = g[N + 1 - i]
  PROVE  Generators(k) = Generators(g)
<1>1. N \in Nat \ {0} /\ DOMAIN g = 1 .. N /\ DOMAIN k = 1 .. N
  BY Constants, DomainIs
<1>2. ASSUME NEW i \in 1 .. N PROVE k[i].generator \in Generators(g) /\ g[i].generator \in Generators(k)
  <2> DEFINE j == N + 1 - i
  <2>1. j \in 1 .. N /\ N + 1 - j = i
    BY <1>1
  <2>2. k[i] = g[j]
    OBVIOUS
  <2>3. k[j] = g[N + 1 - j]
    BY <2>1
  <2> HIDE DEF j
  <2>4. k[j] = g[i]
    BY <2>1, <2>3
  <2> QED BY <1>1, <2>1, <2>2, <2>4 DEF Generators
<1> QED BY <1>1, <1>2 DEF Generators

\* The blocks that are popped with the first of a round have its generators.
LEMMA PopGenerators ==
  ASSUME NEW r, NEW u, NEW un, PopShape(r, u, un), Before(r) = Top - 1, Len(u) = N - 1,
         NEW w, w = Whole(chain, u, r)
  PROVE  Generators(un) = Generators(w)
<1>1. w \in Seq(Entry) /\ Len(w) = N /\ Len(un) = N /\ \A i \in 1 .. N : un[i] = w[N + 1 - i]
  BY WholeBack
<1>2. un \in Seq(Entry)
  BY DEF PopShape
<1> QED BY <1>1, <1>2, BackGenerators

\* A popped block takes the marks of its round back, when it is the first of the round.
LEMMA MissedPop ==
  ASSUME Base, Earned, Voted, Listed, Missed, PopBlock
  PROVE  Missed'
<1> SUFFICES ASSUME Quiet' PROVE MissedAt(db', Settled', chain', ungathered', lists')
  BY DEF Missed
<1> DEFINE r == RoundOf(Top)
           un == PopUn
           l == ListFor(Top)
           w == Whole(chain, ungathered[r], r)
           S == Settled'
           k == chain'
           v == ungathered'
           m == lists'
<1>0. TypeOK /\ Shape /\ Ungathers /\ ~unpaid' /\ Quiet
  BY DEF Base, Earned, Quiet, Sound, PopBlock
<1>1. PopShape(r, ungathered[r], un)
      /\ (PopSettles => Before(r) = Top - 1 /\ Before(r) + N <= oldTop /\ Len(ungathered[r]) = N - 1)
  <2>1. /\ PopShape(r, ungathered[r], un)
        /\ PopSettles => Before(r) = Top - 1 /\ Before(r) + N <= oldTop
        /\ Len(ungathered[r]) = IF Before(r) + N <= Top THEN 0
              ELSE (IF Before(r) + N <= oldTop THEN Before(r) + N ELSE oldTop) - Top
    BY <1>0, PopCases
  <2>2. Top \in Nat \ {0, 1} /\ Before(r) \in Nat /\ N \in Nat \ {0} /\ oldTop \in Nat
    BY <2>1 DEF PopShape
  <2>3. PopSettles => Len(ungathered[r]) = N - 1
    BY <2>1, <2>2
  <2> QED BY <2>1, <2>3
<1>2. /\ PopSettles => Settled = S \cup {r} /\ r \notin S
      /\ ~PopSettles => Settled = S
      /\ S = SettledAt(Top - 1, oldTop)
  BY <1>0, PopSettled
<1>3. m = lists
  BY DEF PopBlock
<1>4. SameMissed(S, k, v, m, chain, ungathered, lists)
  <2> SUFFICES ASSUME NEW q \in S PROVE MissedBy(k, v, m, q) = MissedBy(chain, ungathered, lists, q)
    BY DEF SameMissed
  <2>1. q \in SettledAt(Top - 1, oldTop)
    BY <1>2
  <2>2. Whole(k, v[q], q) = Whole(chain, ungathered[q], q)
    BY <1>0, <2>1, PopWhole
  <2> QED BY <1>3, <2>2 DEF MissedBy
<1>5. /\ db \in Db /\ db' \in Db
      /\ ~PopSettles => \A e \in Delegate : db'.missed[e] = db.missed[e]
      /\ PopSettles => \A e \in Delegate :
           db'.missed[e] = db.missed[e] + IF e \in Outsiders(l, un) THEN -1 ELSE 0
  BY <1>0, PopVotes
<1>6. MissedAt(db, Settled, chain, ungathered, lists)
  BY <1>0 DEF Missed
<1>7. CASE ~PopSettles
  <2> DEFINE d == db
             x == db'
             c == chain
             o == ungathered
             n == lists
  <2>1. x.missed = d.missed /\ SameMissed(S, c, o, n, k, v, m) /\ MissedAt(d, S, c, o, n)
    <3>1. x.missed = d.missed
      BY <1>5, <1>7 DEF Db
    <3>2. SameMissed(S, c, o, n, k, v, m)
      BY <1>4 DEF SameMissed
    <3>3. MissedAt(d, S, c, o, n)
      BY <1>2, <1>6, <1>7
    <3> QED BY <3>1, <3>2, <3>3
  <2> HIDE DEF d, x, c, o, n, S, k, v, m
  <2>2. MissedAt(x, S, k, v, m)
    BY <2>1, MissedSame
  <2> QED BY <2>2 DEF x, S, k, v, m
<1>8. CASE PopSettles
  <2>1. /\ r \in Rounds /\ N \in Nat \ {0} /\ Top \in Nat \ {0, 1} /\ Before(r) \in Nat
        /\ Before(r) < Top /\ Top <= Before(r) + N
    BY <1>1 DEF PopShape
  <2>2. lists[r] = l
    BY <1>8, PopList
  <2>3. Generators(un) = Generators(w)
    <3> DEFINE o == ungathered[r]
    <3>1. PopShape(r, o, un) /\ Before(r) = Top - 1 /\ Len(o) = N - 1 /\ w = Whole(chain, o, r)
      BY <1>1, <1>8
    <3> HIDE DEF o, w, r, un
    <3> QED BY ONLY <3>1, PopGenerators
  <2>4. MissedBy(chain, ungathered, lists, r) = Outsiders(l, un)
    BY <2>2, <2>3 DEF MissedBy, Outsiders
  <2>5. MarksOne(db', db, chain, ungathered, lists, r)
    <3> SUFFICES ASSUME NEW e \in Delegate
                 PROVE  /\ db'.missed[e] \in Int /\ db.missed[e] \in Int
                        /\ db.missed[e] = db'.missed[e]
                             + IF e \in MissedBy(chain, ungathered, lists, r) THEN 1 ELSE 0
      BY DEF MarksOne
    <3>3. db.missed[e] \in Int /\ db'.missed[e] \in Int
      BY <1>5 DEF Db
    <3> DEFINE x == db.missed[e]
               y == db'.missed[e]
               p == e \in Outsiders(l, un)
    <3>4. y = x + IF p THEN -1 ELSE 0
      BY <1>5, <1>8
    <3> HIDE DEF x, y, p
    <3>5. x = y + IF p THEN 1 ELSE 0
      <4>1. x \in Int /\ y \in Int
        BY <3>3 DEF x, y
      <4> QED BY <3>4, <4>1
    <3> QED BY <2>4, <3>3, <3>5 DEF x, y, p
  <2> DEFINE d == db
             x == db'
             c == chain
             o == ungathered
             n == lists
             T == S \cup {r}
  <2>6. IsNext(S, r, k, v, m, c, o, n)
    BY <1>2, <1>4, <1>8, SettledFinite DEF IsNext
  <2>7. MarksOne(x, d, c, o, n, r) /\ MissedAt(d, T, c, o, n)
    BY <1>2, <1>6, <1>8, <2>5
  <2> HIDE DEF d, x, c, o, n, S, k, v, m, r, T
  <2>8. MissedAt(x, S, k, v, m) <=> MissedAt(d, S \cup {r}, c, o, n)
    BY <2>6, <2>7, MissedMore
  <2>9. MissedAt(x, S, k, v, m)
    BY <2>7, <2>8 DEF T
  <2> QED BY <2>9 DEF x, S, k, v, m
<1> QED BY <1>7, <1>8

\* Rounds that end below the top have the same blocks whatever is popped.
LEMMA BelowMissed ==
  ASSUME NEW c, Len(c) \in Nat, NEW S, NEW u, NEW v, NEW l,
         \A q \in S : Before(q) \in Nat /\ Before(q) + N <= Len(c)
  PROVE  SameMissed(S, c, u, l, c, v, l)
<1> SUFFICES ASSUME NEW q \in S PROVE MissedBy(c, u, l, q) = MissedBy(c, v, l, q)
  BY DEF SameMissed
<1> DEFINE n == Len(c)
           x == u[q]
           y == v[q]
<1>1. n \in Nat /\ Len(c) \in Nat /\ n <= Len(c) /\ (\A i \in 1 .. n : c[i] = c[i])
      /\ Before(q) \in Nat /\ Before(q) + N <= n
  OBVIOUS
<1> HIDE DEF n, x, y
<1>2. Whole(c, y, q) = Whole(c, x, q)
  BY <1>1, WholeBelow
<1> QED BY <1>2 DEF MissedBy, x, y

\* Where the missed blocks, the chain and the lists stay, and the rounds that are settled are
\* the same and end below the top or have the same popped blocks, so do the marks.
LEMMA MissedStays ==
  ASSUME TypeOK, Shape, Missed, Quiet' => Quiet, db'.missed = db.missed, chain' = chain, lists' = lists,
         Settled' = Settled,
         ungathered' = ungathered \/ Settled = SettledAt(Top, Top)
  PROVE  Missed'
<1> SUFFICES ASSUME Quiet' PROVE MissedAt(db', Settled', chain', ungathered', lists')
  BY DEF Missed
<1> DEFINE S == Settled
           c == chain
           u == ungathered
           v == ungathered'
           l == lists
           d == db
           x == db'
<1>1. MissedAt(d, S, c, u, l) /\ x.missed = d.missed
  BY DEF Missed
<1>2. SameMissed(S, c, u, l, c, v, l)
  <2>1. CASE v = u
    BY <2>1 DEF SameMissed
  <2>2. CASE S = SettledAt(Top, Top)
    <3>1. Len(c) \in Nat
      BY Constants DEF Shape, ChainOK, Top
    <3>2. \A q \in S : Before(q) \in Nat /\ Before(q) + N <= Len(c)
      BY <2>2, RoundsOf, RoundFacts DEF SettledAt, Top
    <3> HIDE DEF S, c, u, v, l
    <3> QED BY <3>1, <3>2, BelowMissed
  <2> QED BY <2>1, <2>2
<1> HIDE DEF S, c, u, v, l, d, x
<1>3. MissedAt(x, S, c, v, l)
  BY <1>1, <1>2, MissedSame
<1> QED BY <1>3 DEF S, c, v, l, x

\* No round of a chain below the height N is settled.
LEMMA NoneSettled ==
  ASSUME NEW h \in Nat \ {0}, h < N
  PROVE  SettledAt(h, h) = {}
<1>1. \A q \in Rounds : ~(Before(q) + N <= h)
  BY FirstRound
<1> QED BY <1>1 DEF SettledAt

\* A restart keeps the marks, or begins without any when the first round is not over.
LEMMA MissedRestart ==
  ASSUME Base, Missed, Restart
  PROVE  Missed'
<1>0. TypeOK /\ Shape /\ InterruptionIsSeen
  BY DEF Base
<1>1. /\ chain' = chain /\ phase' = "idle"
      /\ MissingBlock => db' = Replayed.db /\ unpaid' = (~Replayed.ok \/ Top >= N)
      /\ ~MissingBlock => /\ db' = db /\ unpaid' = unpaid /\ lists' = lists /\ relisted' = relisted
                          /\ votesOff' = (votesOff \/ (phase = "popping" /\ Top % N # 0 /\ MovedUpTo(Top)))
  BY DEF Restart
<1>2. /\ Top' = Top /\ ChainOK /\ db \in Db /\ Top \in Nat \ {0} /\ N \in Nat \ {0}
  BY <1>0, <1>1, Types, Constants DEF Top, Shape, ChainOK
<1>3. Settled' = SettledAt(Top, Top)
  BY <1>1, <1>2 DEF Settled, High
<1>4. CASE MissingBlock
  <2> SUFFICES ASSUME Quiet' PROVE MissedAt(db', Settled', chain', ungathered', lists')
    BY DEF Missed
  <2>1. Top < N /\ Replayed.ok
    <3>1. unpaid' = (~Replayed.ok \/ Top >= N) /\ ~unpaid'
      BY <1>1, <1>4 DEF Quiet, Sound
    <3>2. ~(Top >= N) /\ Replayed.ok
      BY ONLY <3>1, Zenon
    <3> QED BY <1>2, <3>2
  <2>2. IsReplayed(Replayed, Top)
    BY <1>2, <2>1, ReplayedVotes
  <2>3. \A e \in Delegate : db'.missed[e] = 0
    BY <1>1, <1>4, <2>1, <2>2 DEF IsReplayed
  <2>4. Settled' = {}
    <3> DEFINE n == Top
    <3>1. n \in Nat \ {0} /\ n < N
      BY <1>2, <2>1
    <3> HIDE DEF n
    <3>2. SettledAt(n, n) = {}
      BY <3>1, NoneSettled
    <3> QED BY <1>3, <3>2 DEF n
  <2>5. ASSUME NEW e \in Delegate
        PROVE  Cardinality(MissedIn(e, Settled', chain', ungathered', lists')) = 0
    <3>1. MissedIn(e, Settled', chain', ungathered', lists') = {}
      BY <2>4 DEF MissedIn
    <3>2. Cardinality({}) = 0
      BY FS_EmptySet
    <3> QED BY <3>1, <3>2
  <2> QED BY <2>3, <2>5 DEF MissedAt
<1>5. CASE ~MissingBlock
  <2>1. High = Top
    BY <1>0, <1>5, RestartHigh
  <2>2. Settled' = Settled /\ Settled = SettledAt(Top, Top)
    BY <1>3, <2>1 DEF Settled
  <2>3. Quiet' => Quiet
    <3> SUFFICES ASSUME Quiet' PROVE Quiet
      OBVIOUS
    <3>1. /\ unpaid' = unpaid /\ relisted' = relisted /\ votesOff' = (votesOff \/ (phase = "popping" /\ Top % N # 0 /\ MovedUpTo(Top)))
          /\ ~unpaid' /\ ~votesOff' /\ ~relisted'
      BY <1>1, <1>5 DEF Quiet, Sound
    <3>2. ~unpaid /\ ~relisted
      BY <3>1
    <3>3. ~votesOff
      BY ONLY <3>1, Zenon
    <3> QED BY <3>2, <3>3 DEF Quiet, Sound
  <2>4. db'.missed = db.missed /\ lists' = lists
    BY <1>1, <1>5
  <2> QED BY <1>0, <1>1, <2>2, <2>3, <2>4, MissedStays
<1> QED BY <1>4, <1>5

\* The genesis block has no marks.
LEMMA MissedInit == Init => Missed
<1> SUFFICES ASSUME Init PROVE MissedAt(db, Settled, chain, ungathered, lists)
  BY DEF Missed
<1> DEFINE p == RewardPool
           s == Started(NewDb)
<1>1. db = s.db /\ lists = [r \in Rounds |-> {}]
  BY DEF Init
<1>3. \A e \in Delegate : db.missed[e] = 0
  <2>1. s = Started([NewDb EXCEPT !.pool = p]) /\ p \in Nat
    BY NewDbSame, Constants
  <2> HIDE DEF s, p
  <2> QED BY <1>1, <2>1, StartedVotes
<1> HIDE DEF s
<1>4. ASSUME NEW e \in Delegate
      PROVE  Cardinality(MissedIn(e, Settled, chain, ungathered, lists)) = 0
  <2>1. \A q \in Settled : MissedBy(chain, ungathered, lists, q) = {}
    BY <1>1, SettledFinite DEF MissedBy, Outsiders, Settled
  <2>2. MissedIn(e, Settled, chain, ungathered, lists) = {}
    BY <2>1 DEF MissedIn
  <2>3. Cardinality({}) = 0
    BY FS_EmptySet
  <2> QED BY <2>2, <2>3
<1> QED BY <1>3, <1>4 DEF MissedAt

\* A block that is applied or refused keeps the marks.
LEMMA MissedApply ==
  ASSUME Base, Earned, Voted, Listed, Missed, NEW b \in Block, ApplyBlock(b)
  PROVE  Missed'
<1> DEFINE h == Top + 1
           r == RoundOf(h)
           t == Tick(db, gathered[r], h, b, ListFor(h))
<1>1. CASE t.ok
  BY <1>1, MissedAccept
<1>2. CASE ~t.ok
  <2>1. db' = db /\ chain' = chain /\ Top' = Top /\ lists' = lists
    BY <1>2, RefuseIs
  <2>2. phase' = phase /\ oldTop' = oldTop /\ ungathered' = ungathered /\ (Quiet' => Quiet)
    BY DEF ApplyBlock, Quiet, Sound
  <2>3. Settled' = Settled
    BY <2>1, <2>2 DEF Settled, High
  <2> QED BY <2>1, <2>2, <2>3, MissedStays DEF Base
<1> QED BY <1>1, <1>2

\* The start of a synchronisation and its end keep the marks.
LEMMA MissedTurns ==
  ASSUME Base, Earned, Missed,
         (\E common \in 1 .. MaxHeight : StartRollback(common)) \/ EndRollback
  PROVE  Missed'
<1>0. TypeOK /\ Shape /\ Aimed /\ db \in Db
  BY Types DEF Base, Earned
<1>1. chain' = chain /\ lists' = lists
  BY DEF StartRollback, EndRollback
<1>2. Top' = Top
  BY <1>1 DEF Top
<1>s. Quiet' => Quiet
  <2>1. SUFFICES ASSUME Quiet' PROVE Quiet
    OBVIOUS
  <2>2. ~unpaid' /\ ~votesOff' /\ ~relisted'
    BY <2>1 DEF Quiet, Sound
  <2>3. ASSUME NEW common \in 1 .. MaxHeight, StartRollback(common) PROVE Quiet
    <3>1. /\ unpaid' = unpaid /\ relisted' = relisted
          /\ votesOff' = (votesOff \/ (Top % N # 0 /\ MovedUpTo(PopTo(common))))
      BY <2>3 DEF StartRollback
    <3>2. ~votesOff
      BY ONLY <3>1, <2>2, Zenon
    <3> QED BY <3>1, <3>2, <2>2 DEF Quiet, Sound
  <2>4. CASE EndRollback
    <3>1. unpaid' = unpaid /\ votesOff' = votesOff /\ relisted' = relisted
      BY <2>4 DEF EndRollback
    <3> QED BY <3>1, <2>2 DEF Quiet, Sound
  <2> QED BY <2>3, <2>4
<1>3. db'.missed = db.missed
  BY <1>0 DEF StartRollback, EndRollback, Db
<1>4. CASE \E common \in 1 .. MaxHeight : StartRollback(common)
  <2>1. ungathered' = ungathered /\ phase = "idle" /\ phase' = "popping" /\ oldTop' = Top
    BY <1>4 DEF StartRollback
  <2>2. Settled' = Settled
    BY <1>2, <2>1 DEF Settled, High
  <2> QED BY <1>0, <1>1, <1>s, <1>3, <2>1, <2>2, MissedStays
<1>5. CASE EndRollback
  <2>1. phase = "popping" /\ phase' = "idle" /\ unpaid' = unpaid
    BY <1>5 DEF EndRollback
  <2>2. CASE Quiet'
    <3>1. SettledAt(Top, oldTop) = SettledAt(Top, Top)
      BY <1>0, <1>5, <2>1, <2>2, EndSettled DEF Quiet, Sound
    <3>2. Settled' = Settled /\ Settled = SettledAt(Top, Top)
      BY <1>2, <2>1, <3>1 DEF Settled, High
    <3> QED BY <1>0, <1>1, <1>s, <1>3, <3>2, MissedStays
  <2>3. CASE ~Quiet'
    BY <2>3 DEF Missed
  <2> QED BY <2>2, <2>3
<1> QED BY <1>4, <1>5

\* Every step keeps the marks those of the settled rounds.
LEMMA MissedNext == Base /\ Earned /\ Voted /\ Listed /\ Missed /\ [Next]_vars => Missed'
<1> SUFFICES ASSUME Base, Earned, Voted, Listed, Missed, [Next]_vars PROVE Missed'
  OBVIOUS
<1>0. TypeOK /\ Shape
  BY DEF Base
<1>1. ASSUME NEW b \in Block, ApplyBlock(b) PROVE Missed'
  BY <1>1, MissedApply
<1>2. ASSUME NEW common \in 1 .. MaxHeight, StartRollback(common) PROVE Missed'
  BY <1>2, MissedTurns
<1>3. CASE PopBlock
  BY <1>3, MissedPop
<1>4. CASE EndRollback
  BY <1>4, MissedTurns
<1>5. CASE LookUp
  <2>1. /\ db' = db /\ chain' = chain /\ lists' = lists /\ ungathered' = ungathered
        /\ phase' = phase /\ oldTop' = oldTop /\ (Quiet' => Quiet)
    BY <1>5 DEF LookUp, Quiet, Sound
  <2>2. Settled' = Settled
    BY <2>1 DEF Settled, High, Top
  <2> QED BY <1>0, <2>1, <2>2, MissedStays
<1>6. CASE Restart
  BY <1>6, MissedRestart
<1>7. CASE UNCHANGED vars
  <2>1. /\ db' = db /\ chain' = chain /\ lists' = lists /\ ungathered' = ungathered
        /\ phase' = phase /\ oldTop' = oldTop /\ (Quiet' => Quiet)
    BY <1>7 DEF vars, Quiet, Sound
  <2>2. Settled' = Settled
    BY <2>1 DEF Settled, High, Top
  <2> QED BY <1>0, <2>1, <2>2, MissedStays
<1> QED BY <1>1, <1>2, <1>3, <1>4, <1>5, <1>6, <1>7 DEF Next

\* A delegate has no block in a round of the chain when it is not among its generators.
LEMMA MadeIs ==
  ASSUME NEW w, NEW c, NEW r, IsRound(w, c, r), NEW e
  PROVE  Made(c, e, BlocksOf(c, r)) = {} <=> e \notin Generators(w)
<1> DEFINE X == {}
           f == Heights(r)
           P == PlacesBy(w, e, r, X)
<1>1. Moved(f, P) = Made(c, e, BlocksOf(c, r) \ X)
  <2> HIDE DEF X
  <2> QED BY HeightsAre
<1>2. P = ByOne(w, e)
  BY DEF PlacesBy
<1>3. Moved(f, P) = {} <=> P = {}
  <2> HIDE DEF f, P
  <2> QED BY DEF Moved
<1>4. ByOne(w, e) = {} <=> e \notin Generators(w)
  BY DEF ByOne, Generators
<1>5. BlocksOf(c, r) \ X = BlocksOf(c, r)
  OBVIOUS
<1> HIDE DEF f, P, X
<1> QED BY <1>1, <1>2, <1>3, <1>4, <1>5

\* With the marks of the settled rounds, the missed blocks are those of the chain.
LEMMA MissedReflects == Base /\ Missed => MissedReflectsChain
<1> SUFFICES ASSUME Base, Missed, phase = "idle", ~unpaid, ~votesOff, ~relisted, NEW e \in Delegate
             PROVE  db.missed[e] = Cardinality({r \in Finished(chain) :
                       e \in lists[r] /\ Made(chain, e, BlocksOf(chain, r)) = {}})
  BY DEF MissedReflectsChain
<1>1. TypeOK /\ Shape /\ Quiet
  BY DEF Base, Quiet, Sound
<1>2. Finished(chain) = Settled /\ Settled = SettledAt(Top, Top)
  <2>1. High = Top
    BY DEF High
  <2> QED BY <1>1, <2>1, IdleSettled DEF Settled
<1>3. chain \in Seq(Block \cup {GenesisBlock}) /\ Len(chain) = Top
  BY <1>1 DEF Shape, ChainOK, Top
<1>4. ASSUME NEW r \in Settled
      PROVE  e \in MissedBy(chain, ungathered, lists, r)
               <=> e \in lists[r] /\ Made(chain, e, BlocksOf(chain, r)) = {}
  <2> DEFINE u == ungathered[r]
             w == Whole(chain, u, r)
  <2>1. r \in Nat \ {0} /\ Before(r) + N <= Len(chain)
    BY <1>2, <1>3, RoundsOf DEF SettledAt
  <2>2. IsRound(w, chain, r)
    <3> HIDE DEF u
    <3> QED BY <1>3, <2>1, WholeRound
  <2>3. Made(chain, e, BlocksOf(chain, r)) = {} <=> e \notin Generators(w)
    <3> HIDE DEF w
    <3> QED BY <2>2, MadeIs
  <2> QED BY <2>3 DEF MissedBy, Outsiders
<1>5. MissedIn(e, Settled, chain, ungathered, lists)
        = {r \in Finished(chain) : e \in lists[r] /\ Made(chain, e, BlocksOf(chain, r)) = {}}
  BY <1>2, <1>4 DEF MissedIn
<1>6. db.missed[e] = Cardinality(MissedIn(e, Settled, chain, ungathered, lists))
  BY <1>1 DEF Missed, MissedAt
<1> QED BY <1>5, <1>6

\* What is counted and what waits in mem_round, the lists and the marks are those of the
\* chain, in every reachable state, but for what the history variables tell: a round paid that
\* had lost blocks, rows emptied of blocks that stay, a round taken back by another list
\* (round.js and base/account.js with loader.js, accounts.js, delegates.js).
THEOREM RoundsInvariance == Spec => [](Base /\ Earned /\ Cast /\ Voted /\ Listed /\ Missed)
<1> DEFINE I == Base /\ Earned /\ Cast /\ Voted /\ Listed /\ Missed
<1>1. Init => I
  BY BaseInit, EarnedInit, CastInit, VotedInit, ListedInit, MissedInit
<1>2. I /\ [Next]_vars => I'
  BY BaseNext, EarnedNext, CastNext, VotedNext, ListedNext, MissedNext
<1> QED BY <1>1, <1>2, PTL DEF Spec

\* A delegate has the coins that its voters had at the end of the last finished round, and
\* mem_round what they have more since, whatever is paid, moved, voted or withdrawn, through
\* rollbacks, refused blocks and restarts (merge of base/account.js, tick, backwardTick and
\* directionSwap of round.js).
THEOREM RoundVotesSound == Spec => []VotesReflectChain
<1>1. Base /\ Earned /\ Cast /\ Voted => VotesReflectChain
  BY VotedReflects
<1> QED BY <1>1, RoundsInvariance, PTL

\* All blocks of a round are accepted by one list, that of the votes when it began, whoever
\* has asked for it in between, if no round was taken back by another list than its own
\* (generateDelegateList and its cache, delegates.js).
THEOREM ListSound == Spec => []OneListPerRound
<1>1. Base /\ Voted /\ Listed => OneListPerRound
  BY ListedReflects
<1> QED BY <1>1, RoundsInvariance, PTL

\* missedblocks counts the finished rounds whose list had the delegate and that have no block
\* of it, also when they are taken back and made again, if by the same list (getOutsiders,
\* round.js).
THEOREM MissedSound == Spec => []MissedReflectsChain
<1>1. Base /\ Missed => MissedReflectsChain
  BY MissedReflects
<1> QED BY <1>1, RoundsInvariance, PTL
=============================================================================
