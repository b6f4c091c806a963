------------------------------- MODULE Round -------------------------------
(***************************************************************************)
(* The rounds of one node: N blocks, at whose end the generators get the   *)
(* fees and rewards of the round, and the votes cast in it and the coins   *)
(* its voters gained or spent begin to count for the delegates.            *)
(* What a round gathers is in memory, what it pays is in the database, and *)
(* a synchronisation takes both back block by block.                       *)
(* Code: src/src/core/round.js, with its callers in src/src/core/loader.js *)
(* and src/src/core/blocks.js, the votes in src/src/core/accounts.js and   *)
(* src/src/base/account.js, the list in src/src/core/delegates.js.         *)
(*                                                                         *)
(* A step is one task of library.balancesSequence (a block applied or      *)
(* popped), one of the other steps of findUpdate, or a restart.            *)
(***************************************************************************)
EXTENDS Integers, Sequences, FiniteSets, SequencesExt, FiniteSetsExt, Lists

CONSTANTS
  N,            \* slots.delegates: blocks of a round, delegates of a list
  Account,
  Delegate,     \* the registered delegates
  Genesis,      \* the generator of the genesis block
  NoVote,       \* stands for a block without a vote transaction
  Block,        \* what a block may be: generator, fee, what its transactions
                \* move, and one vote at most
  Key,          \* Key[d]: the place of d in the order of the public keys
  Funds,        \* Funds[a]: balance after the genesis block
  InitialDelegates, \* the votes in the genesis block
  Reward,       \* of each block but the first
  RewardPool,   \* map_bigint's REWARD_POOL_BALANCE at the start
  MaxHeight, MaxRollback, MaxRestart, \* bounds
  MaxFork       \* a fork of this length is not followed (5)

Vote == Account \X Delegate
NoMoves == [a \in Account |-> 0]

\* The transfers and votes of the genesis block are in Funds and InitialDelegates.
GenesisBlock == [generator |-> Genesis, fee |-> 0, moves |-> NoMoves, vote |-> NoVote]

ASSUME ConstantsAssumption ==
  /\ N \in Nat \ {0} /\ Delegate \subseteq Account /\ IsFiniteSet(Account)
  /\ Genesis \in Account \ Delegate
  /\ NoVote \notin Vote
  /\ Block \subseteq [generator : Delegate, fee : Nat, moves : [Account -> Int],
                     vote : Vote \cup {NoVote}]
  /\ \A b \in Block : Total(b.moves, Account) = -b.fee
  /\ Key \in [Delegate -> Nat] /\ \A d, e \in Delegate : Key[d] = Key[e] => d = e
  /\ Funds \in [Account -> Nat] /\ InitialDelegates \subseteq Vote
  /\ {Reward, RewardPool, MaxHeight, MaxRollback, MaxRestart, MaxFork} \subseteq Nat
  /\ MaxHeight # 0

VARIABLES
  db,         \* the database: the accounts, mem_round and the reward pool
  chain,      \* the blocks table; chain[1] is the genesis block
  gathered,   \* feesByRound, rewardsByRound, delegatesByRound, per round
  ungathered, \* unFeesByRound, unRewardsByRound, unDelegatesByRound
  cache,      \* private.cacheActiveDelegates: a height and a list
  phase,      \* "idle", or "popping" between the two calls of directionSwap
  target,     \* height of commonBlock while popping
  oldTop,     \* height of findUpdate's lastBlock while popping
  rollbacks, restarts, \* bounds: how many there were
  lists,      \* history: the list by which a round's blocks were accepted
  lost,       \* history: what the current round has gathered is incomplete
  unpaid,     \* history: a round was paid or taken back when it should not
  votesOff,   \* history: mem_round was flushed of blocks that are still there
  relisted    \* history: a round was taken back by another list than its own

vars == <<db, chain, gathered, ungathered, cache, phase, target, oldTop,
          rollbacks, restarts, lists, lost, unpaid, votesOff, relisted>>

\* calc
RoundOf(h) == h \div N + (IF h % N > 0 THEN 1 ELSE 0)

Rounds == 1 .. RoundOf(MaxHeight + 1)
NoBlock == -1   \* the blockId of a block that was deleted
NoList == [height |-> 0, list |-> {}]
Empty == [r \in Rounds |-> <<>>]
Top == Len(chain)

\* A block of `chain' as the accumulators keep it.
RewardAt(h) == IF h <= 1 THEN 0 ELSE Reward
Gathered(h, b) == [generator |-> b.generator, fee |-> b.fee, reward |-> RewardAt(h)]
Generators(g) == {g[i].generator : i \in DOMAIN g}
Fees(g) == Total([i \in DOMAIN g |-> g[i].fee], DOMAIN g)
Rewards(g) == Total([i \in DOMAIN g |-> g[i].reward], DOMAIN g)

-----------------------------------------------------------------------------
(* The list of a round *)

\* getKeysSortByVote: the first N by votes, then by key.
Ahead(vote, d, e) == vote[d] > vote[e] \/ (vote[d] = vote[e] /\ Key[d] < Key[e])
List(vote) == {d \in Delegate : Cardinality({e \in Delegate : Ahead(vote, e, d)}) < N}

\* Mutation: the cache is not asked for which height it is.
ListForAny(h) == IF cache # NoList THEN cache.list ELSE List(db.vote)

\* generateDelegateList: from the cache if it is for this height.
ListFor(h) == IF cache.height = h THEN cache.list ELSE List(db.vote)

-----------------------------------------------------------------------------
(* What a block does to the database *)

\* Mutation: the block is not noted in the accounts it changes.
TouchNothing(d, S, id) == d

\* The accounts in S were last touched by the block `id'.
Touch(d, S, id) ==
  [d EXCEPT !.blockId = [a \in Account |-> IF a \in S THEN id ELSE d.blockId[a]]]

\* f with n more at x.
Plus(f, x, n) == [f EXCEPT ![x] = f[x] + n]

Voters(delegates, e) == {a \in Account : <<a, e>> \in delegates}
Flushed(m, r) == [m EXCEPT ![r] = [d \in Delegate |-> 0]]

\* Mutation: a change of a balance is not noted in mem_round.
CreditOnly(d, r, coins) ==
  [d EXCEPT !.balance = [a \in Account |-> d.balance[a] + coins[a]]]

\* Account.merge of balances: each account a has coins[a] more, and so have, in
\* mem_round, the delegates it votes for.
Credit(d, r, coins) ==
  [d EXCEPT !.balance = [a \in Account |-> d.balance[a] + coins[a]],
            !.memRound = [d.memRound EXCEPT ![r] =
              [e \in Delegate |-> d.memRound[r][e] + Total(coins, Voters(d.delegates, e))]]]

\* Account.merge of a vote, added or withdrawn: recorded for the round r with the
\* balance the voter has now.
CastVote(d, vote, r) ==
  LET weight == d.balance[vote[1]]
  IN  IF vote = NoVote THEN d
      ELSE IF vote \in d.delegates
      THEN [d EXCEPT !.delegates = d.delegates \ {vote},
                     !.memRound = [d.memRound EXCEPT ![r] = Plus(d.memRound[r], vote[2], -weight)]]
      ELSE [d EXCEPT !.delegates = d.delegates \cup {vote},
                     !.memRound = [d.memRound EXCEPT ![r] = Plus(d.memRound[r], vote[2], weight)]]

\* The accounts a block changes, and whether it can be applied.
Concerned(b) == {b.generator} \cup {a \in Account : b.moves[a] # 0 \/ (b.vote # NoVote /\ b.vote[1] = a)}
Affordable(d, b) == \A a \in Account : d.balance[a] + b.moves[a] >= 0

\* The block b is applied (n = 1) or popped (n = -1): its transactions, which pay
\* or take back fees and amounts, its vote, and producedblocks.
Produced(d, b, r, n, id) ==
  LET voted == CastVote(Credit(d, r, [a \in Account |-> n * b.moves[a]]), b.vote, r)
  IN  Touch([voted EXCEPT !.produced = Plus(voted.produced, b.generator, n)], Concerned(b), id)

\* RoundChanges: the share of each generator, the remainder to one of them.
ShareOf(g, i, last) ==
  LET share == Fees(g) \div N
  IN  share + IF i = last THEN Fees(g) - share * N ELSE 0
ByOne(g, a) == {i \in DOMAIN g : g[i].generator = a}
FeesFor(g, a, last) == Total([i \in DOMAIN g |-> ShareOf(g, i, last)], ByOne(g, a))
RewardsFor(g, a) == Total([i \in DOMAIN g |-> g[i].reward], ByOne(g, a))

\* Mutation: the generator at index 0 is not found.
OutsidersOrFirst(list, g) == list \ {g[i].generator : i \in 2 .. Len(g)}
Outsiders(list, g) == list \ Generators(g)

\* The end of a round, forward (sign 1, remainder to the last of g) or backward
\* (sign -1, to the first, which is the same block): the delegates of `list'
\* without a block are marked, the generators paid, and what mem_round then holds
\* for the round is counted.
Settle(d, g, last, sign, list, r, id) ==
  LET fees == [a \in Account |-> sign * FeesFor(g, a, last)]
      rewards == [a \in Account |-> sign * RewardsFor(g, a)]
      paid == Credit(d, r, [a \in Account |-> fees[a] + rewards[a]])
  IN  Touch([paid EXCEPT
        !.missed = [e \in Delegate |->
                      d.missed[e] + IF e \in Outsiders(list, g) THEN sign ELSE 0],
        !.fees = [a \in Account |-> d.fees[a] + fees[a]],
        !.rewards = [a \in Account |-> d.rewards[a] + rewards[a]],
        !.vote = [e \in Delegate |-> d.vote[e] + paid.memRound[r][e]],
        !.memRound = Flushed(paid.memRound, r)], Generators(g), id)

\* When tick settles: at the end of a round that is complete, and at the
\* heights 1 and N whatever was gathered.
Settles(g, h) ==
  /\ RoundOf(h + 1) # RoundOf(h) \/ h = 1
  /\ Len(g) = N \/ h = 1 \/ h = N

\* Mutation: only the last reward leaves the pool.
DrawOne(pool, g) == pool - Last(g).reward

CanPay(d, g) == d.pool >= Rewards(g)
Draw(pool, g) == pool - Rewards(g)

\* applyBlock on block b at height h: its transactions, then tick.  The pool is looked
\* at last; if it is short, the database is rolled back, the round forgotten.
Tick(d, g, h, b, list) ==
  LET r == RoundOf(h)
      made == Produced(d, b, r, 1, h)
      all == Append(g, Gathered(h, b))
      paid == Settle(made, all, Len(all), 1, IF h = 1 THEN {} ELSE list, r, h)
  IN  IF ~Settles(all, h) THEN [ok |-> TRUE, db |-> made, gathered |-> all]
      ELSE IF ~CanPay(made, all) THEN [ok |-> FALSE, db |-> d, gathered |-> <<>>]
      ELSE [ok |-> TRUE, db |-> [paid EXCEPT !.pool = Draw(made.pool, all)], gathered |-> <<>>]

-----------------------------------------------------------------------------
(* Actions *)

\* The tables with the transactions of the genesis block, and after tick on it.
NewDb ==
  [balance |-> Funds, fees |-> [a \in Account |-> 0],
   rewards |-> [a \in Account |-> 0], produced |-> [a \in Account |-> 0],
   missed |-> [d \in Delegate |-> 0], vote |-> [d \in Delegate |-> 0], delegates |-> InitialDelegates,
   memRound |-> [r \in Rounds |-> [d \in Delegate |->
                   IF r = 1 THEN Total(Funds, Voters(InitialDelegates, d)) ELSE 0]],
   blockId |-> [a \in Account |-> 1], pool |-> RewardPool]
Started(d) == Tick(d, <<>>, 1, GenesisBlock, {})

\* onBlockchainReady: the blocks of the last round, read from the table.
GatheredFrom(c) ==
  LET r == RoundOf(Len(c))
      first == (r - 1) * N
  IN  [Empty EXCEPT ![r] = [i \in 1 .. Len(c) - first |-> Gathered(first + i, c[first + i])]]

\* The genesis block is applied and the node ready.
Init ==
  /\ db = Started(NewDb).db
  /\ chain = <<GenesisBlock>>
  /\ gathered = GatheredFrom(chain) /\ ungathered = Empty
  /\ cache = NoList /\ phase = "idle" /\ target = 0 /\ oldTop = 0
  /\ rollbacks = 0 /\ restarts = 0
  /\ lists = [r \in Rounds |-> {}]
  /\ lost = FALSE /\ unpaid = FALSE /\ votesOff = FALSE /\ relisted = FALSE

\* The loop, the vote of a delegate and others ask for the next list.
LookUp ==
  /\ phase = "idle"
  /\ cache' = [height |-> Top + 1, list |-> ListFor(Top + 1)]
  /\ UNCHANGED <<db, chain, gathered, ungathered, phase, target, oldTop,
                 rollbacks, restarts, lists, lost, unpaid, votesOff, relisted>>

\* A block made here, received or downloaded: validateBlockSlot accepts it, its
\* transactions can be paid, tick gathers it and may settle the round.
ApplyBlock(b) ==
  LET h == Top + 1
      r == RoundOf(h)
      list == ListFor(h)
      t == Tick(db, gathered[r], h, b, list)
      ended == t.ok /\ h % N = 0
  IN  /\ phase = "idle" /\ h <= MaxHeight
      /\ b.generator \in list
      /\ Affordable(db, b)
      /\ cache' = [height |-> h, list |-> list]
      /\ db' = t.db
      /\ gathered' = [gathered EXCEPT ![r] = t.gathered]
      /\ chain' = IF t.ok THEN Append(chain, b) ELSE chain
      /\ lists' = IF t.ok /\ (Top % N = 0 \/ Top = 1) THEN [lists EXCEPT ![r] = list] ELSE lists
      /\ unpaid' = (unpaid \/ (ended /\ lost))
      /\ lost' = (~ended /\ (lost \/ ~t.ok))
      /\ UNCHANGED <<ungathered, phase, target, oldTop, rollbacks, restarts,
                     votesOff, relisted>>

\* Mutation: only the blocks of the fork are popped.
ForkOnly(common) == common

\* findUpdate: over the end of a round, the whole round is popped.
PopTo(common) ==
  IF RoundOf(Top) = RoundOf(common) /\ Top % N # 0 THEN common
  ELSE IF RoundOf(common) = 1 THEN 1
  ELSE common - (common % N)

\* Some block of the current round, at a height up to h, has moved votes.
MovedUpTo(h) ==
  \E i \in 1 .. h : /\ RoundOf(i) = RoundOf(Top)
                    /\ chain[i].vote # NoVote \/ chain[i].moves # NoMoves

\* directionSwap('backward'), ...
StartRollback(common) ==
  /\ phase = "idle" /\ rollbacks < MaxRollback
  /\ common \in 1 .. Top - 1 /\ Top - common < MaxFork
  /\ phase' = "popping" /\ target' = PopTo(common) /\ oldTop' = Top
  /\ gathered' = Empty
  /\ db' = [db EXCEPT !.memRound = Flushed(db.memRound, RoundOf(Top))]
  /\ rollbacks' = rollbacks + 1
  /\ votesOff' = (votesOff \/ (Top % N # 0 /\ MovedUpTo(PopTo(common))))
  /\ UNCHANGED <<chain, ungathered, cache, restarts, lists, lost, unpaid, relisted>>

\* ... popLastBlock with backwardTick, once or more, ...
PopBlock ==
  LET b == chain[Top]
      r == RoundOf(Top)
      un == Append(ungathered[r], Gathered(Top, b))
      undone == Produced(db, b, r, -1, Top)
      settles == \/ Top = 2
                 \/ RoundOf(Top - 1) # r /\ Len(un) = N
      back == IF settles THEN Settle(undone, un, 1, -1, ListFor(Top), r, Top) ELSE undone
      touched == {a \in Account : back.blockId[a] = Top}
  IN  /\ phase = "popping" /\ Top > target
      /\ chain' = SubSeq(chain, 1, Top - 1)
      /\ db' = Touch(back, touched, NoBlock)
      /\ ungathered' = [ungathered EXCEPT ![r] = IF settles THEN <<>> ELSE un]
      /\ cache' = IF settles THEN [height |-> Top, list |-> ListFor(Top)] ELSE cache
      /\ unpaid' = (unpaid \/ Top = 2)
      /\ relisted' = (relisted \/ (settles /\ ListFor(Top) # lists[r]))
      /\ UNCHANGED <<gathered, phase, target, oldTop, rollbacks, restarts, lists, lost, votesOff>>

\* ... and directionSwap('forward').
EndRollback ==
  /\ phase = "popping" /\ Top = target
  /\ phase' = "idle" /\ target' = 0 /\ oldTop' = 0
  /\ ungathered' = Empty
  /\ db' = [db EXCEPT !.memRound = Flushed(db.memRound, RoundOf(oldTop))]
  /\ lost' = (Top % N # 0)
  /\ UNCHANGED <<chain, gathered, cache, rollbacks, restarts, lists, unpaid, votesOff, relisted>>

\* Some account was last touched by a block that is no longer in the table.
MissingBlock == \E a \in Account : db.blockId[a] = NoBlock

\* loadBlocksOffset with verification: the accounts and mem_round are emptied and
\* all blocks applied again, the genesis block too; the reward pool is kept.  No
\* block follows one that fails.
ReplayOne(s, h) ==
  LET list == List(s.db.vote)
      t == Tick(s.db, s.gathered, h, chain[h], list)
  IN  IF ~s.ok \/ ~Affordable(s.db, chain[h]) THEN [s EXCEPT !.ok = FALSE]
      ELSE [ok |-> t.ok, db |-> t.db, gathered |-> t.gathered,
            lists |-> [s.lists EXCEPT ![RoundOf(h)] = list]]
ReplayStart ==
  LET genesis == Started([NewDb EXCEPT !.pool = db.pool])
  IN  [ok |-> TRUE, db |-> genesis.db, gathered |-> genesis.gathered,
       lists |-> [r \in Rounds |-> {}]]
Replayed == FoldLeft(ReplayOne, ReplayStart, [i \in 1 .. Top - 1 |-> i + 1])

\* The node stops at any moment and starts: with the tables as they are, or from
\* the blocks if they look damaged.  A reload that fails ends the process, and the
\* next start finds no damage: the tables stay at the block that failed.
Restart ==
  /\ restarts < MaxRestart
  /\ restarts' = restarts + 1
  /\ IF MissingBlock
     THEN /\ db' = Replayed.db /\ lists' = Replayed.lists
          /\ unpaid' = (~Replayed.ok \/ Top >= N)
          /\ votesOff' = FALSE /\ relisted' = FALSE
     ELSE /\ votesOff' = (votesOff \/ (phase = "popping" /\ Top % N # 0 /\ MovedUpTo(Top)))
          /\ UNCHANGED <<db, unpaid, lists, relisted>>
  /\ gathered' = GatheredFrom(chain) /\ ungathered' = Empty
  /\ cache' = NoList /\ phase' = "idle" /\ target' = 0 /\ oldTop' = 0
  /\ lost' = FALSE
  /\ UNCHANGED <<chain, rollbacks>>

Next ==
  \/ \E b \in Block : ApplyBlock(b)
  \/ \E h \in 1 .. MaxHeight : StartRollback(h)
  \/ PopBlock \/ EndRollback
  \/ LookUp \/ Restart

Spec == Init /\ [][Next]_vars

-----------------------------------------------------------------------------
(* What the blocks of a chain amount to *)

Finished(c) == {r \in Rounds : r * N <= Len(c)}
BlocksOf(c, r) == {h \in DOMAIN c : RoundOf(h) = r}
FeesOf(c, r) == Total([h \in DOMAIN c |-> c[h].fee], BlocksOf(c, r))
Made(c, a, S) == {h \in S : c[h].generator = a}

\* The fees of a round, divided by N, go to the generators of its blocks, the
\* genesis block included, and what is left over to the generator of its last.
FeesEarned(c, a, r) ==
  Cardinality(Made(c, a, BlocksOf(c, r))) * (FeesOf(c, r) \div N)
    + IF c[r * N].generator = a THEN FeesOf(c, r) % N ELSE 0
RewardsEarned(c, a, r) == Reward * Cardinality(Made(c, a, BlocksOf(c, r) \ {1}))
EarnedFees(c, a, R) == Total([r \in R |-> FeesEarned(c, a, r)], R)
EarnedRewards(c, a, R) == Total([r \in R |-> RewardsEarned(c, a, r)], R)

MovesOf(c, a, h) == Total([i \in 1 .. h |-> c[i].moves[a]], 1 .. h)
BalanceAt(c, a, h, R) ==
  Funds[a] + EarnedFees(c, a, R) + EarnedRewards(c, a, R) + MovesOf(c, a, h)

\* A vote is withdrawn each second time it is cast.
TimesCast(c, v, h) == Cardinality({i \in 1 .. h : c[i].vote = v})
CastBy(c, h) == {v \in Vote : (v \in InitialDelegates) <=> (TimesCast(c, v, h) % 2 = 0)}

\* What the voters of d have after block h.
StakeAt(c, d, h) ==
  LET R == 1 .. (h \div N)
  IN  Total([a \in Account |-> BalanceAt(c, a, h, R)], Voters(CastBy(c, h), d))

\* The height of the last finished round.
LastEnd(h) == h - (h % N)

-----------------------------------------------------------------------------
(* Properties *)

Entry == [generator : Account, fee : Nat, reward : Nat]
Db == [balance : [Account -> Int], fees : [Account -> Int], rewards : [Account -> Int],
       produced : [Account -> Int], missed : [Delegate -> Int], vote : [Delegate -> Int],
       delegates : SUBSET Vote, memRound : [Rounds -> [Delegate -> Int]],
       blockId : [Account -> Int], pool : Nat]

\* Besides the types, the reward pool never becomes negative (tick looks at it
\* before it pays).
TypeOK ==
  /\ db \in Db
  /\ chain \in Seq(Block \cup {GenesisBlock}) /\ chain # <<>>
  /\ {gathered, ungathered} \subseteq
       [Rounds -> Seq(Entry)]
  /\ cache \in [height : Nat, list : SUBSET Delegate]
  /\ phase \in {"idle", "popping"} /\ {target, oldTop, rollbacks, restarts} \subseteq Nat
  /\ lists \in [Rounds -> SUBSET Delegate]
  /\ {lost, unpaid, votesOff, relisted} \subseteq BOOLEAN

\* Between synchronisations an account has earned what the finished rounds of
\* the chain amount to, each paid once: through forks that are popped over the
\* end of a round, blocks refused for want of rewards, restarts.  (tick,
\* backwardTick, onBlockchainReady.  Not once a round was paid that had lost
\* some of its blocks, or the first round popped: see `unpaid'.)
EarningsReflectChain ==
  phase = "idle" /\ ~unpaid =>
    \A a \in Account :
      /\ db.fees[a] = EarnedFees(chain, a, Finished(chain))
      /\ db.rewards[a] = EarnedRewards(chain, a, Finished(chain))
      /\ db.balance[a] = BalanceAt(chain, a, Top, Finished(chain))
      /\ db.produced[a] = Cardinality(Made(chain, a, DOMAIN chain))

\* A delegate has the coins its voters had at the end of the last finished round,
\* and mem_round what they have more since: whatever was paid, moved, voted or
\* withdrawn, in which order, through rounds that are taken back and made again.
\* (merge, tick, backwardTick.  Not once directionSwap has emptied mem_round of
\* blocks that stay: see `votesOff'.)
VotesReflectChain ==
  phase = "idle" /\ ~unpaid /\ ~votesOff =>
    \A d \in Delegate :
      /\ db.vote[d] = StakeAt(chain, d, LastEnd(Top))
      /\ db.memRound[RoundOf(Top + 1)][d] = StakeAt(chain, d, Top) - StakeAt(chain, d, LastEnd(Top))

\* missedblocks counts the finished rounds whose list had the delegate and that
\* have no block of it, also when they are taken back and made again.  (Not once
\* a round was taken back by the list of the votes at its end: see `relisted'.)
MissedReflectsChain ==
  phase = "idle" /\ ~unpaid /\ ~votesOff /\ ~relisted =>
    \A d \in Delegate :
      db.missed[d] = Cardinality({r \in Finished(chain) :
                       d \in lists[r] /\ Made(chain, d, BlocksOf(chain, r)) = {}})

\* All blocks of a round are accepted by one list, that of the votes when it
\* began, whoever has asked for it in between (the cache is by height only).
OneListPerRound ==
  phase = "idle" /\ ~unpaid /\ ~votesOff /\ ~relisted =>
    /\ Top % N # 0 /\ Top > 1 => ListFor(Top + 1) = lists[RoundOf(Top)]
    /\ ListFor(Top + 1) = List(db.vote)

\* The pool is never overdrawn; no more rewards are in the accounts than have left
\* it, and as many as that if nothing was ever taken back: backwardTick does not
\* refill the pool.
RewardsFromPool ==
  LET inAccounts == Total(db.rewards, Account)
  IN  /\ TypeOK
      /\ inAccounts <= RewardPool - db.pool
      /\ rollbacks = 0 => inAccounts = RewardPool - db.pool

\* A synchronisation that stops between two blocks it pops leaves the accounts
\* wrong, and the start can see it: some account has a block that is missing.
InterruptionIsSeen ==
  phase = "popping" /\ Top < oldTop => MissingBlock

=============================================================================
