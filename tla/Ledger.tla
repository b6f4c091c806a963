------------------------------- MODULE Ledger -------------------------------
(***************************************************************************)
(* The balances of one node: the confirmed ones in the database, the       *)
(* unconfirmed ones, and the asset balances that are kept twice, in the    *)
(* database and in library.balanceCache.  Transactions wait in the pool,   *)
(* which is undone before a block is applied or popped and redone after.   *)
(* Code: src/src/base/transaction.js, src/src/core/blocks.js,              *)
(* src/src/core/transactions.js, src/src/core/loader.js.                   *)
(*                                                                         *)
(* An action is one task of library.balancesSequence, which runs one task  *)
(* at a time, or, in a synchronisation, one of the steps of findUpdate,    *)
(* between which tasks that receive transactions may run.  Transactions    *)
(* are transfers, of the native coin or of one asset.                      *)
(***************************************************************************)
EXTENDS Integers, Sequences, FiniteSets, SequencesExt, FiniteSetsExt, Lists

CONSTANTS
  Account,
  Tx,         \* the transfers, with their id, sender, recipient, amount, asset
  Fee,        \* of a transfer, in the native coin (0.01)
  Funds,      \* Funds[a]: native balance after the genesis block
  AssetFunds, \* AssetFunds[a]: asset balance after the genesis block
  MaxBlocks   \* bound: the length of the chain above the genesis block

ASSUME ConstantsAssumption ==
  /\ Tx \subseteq [id : Nat, sender : Account, recipient : Account,
                   amount : Nat \ {0}, asset : BOOLEAN]
  /\ \A t \in Tx : t.sender # t.recipient
  /\ \A t, u \in Tx : t.id = u.id => t = u
  /\ IsFiniteSet(Tx) \* ids are hashes of 256 bits
  /\ Funds \in [Account -> Nat] /\ AssetFunds \in [Account -> Nat]
  /\ Fee \in Nat \ {0} /\ MaxBlocks \in Nat

VARIABLES
  book,       \* the balances: those of mem_accounts, mem_asset_balances, cache
  saved,      \* what a rollback of the cache goes back to: its last commit
  pool,       \* private.unconfirmedTransactions, without its holes
  invalidIds, \* private.invalidIds: transactions that made a block fail
  chain,      \* the transactions of each block above the genesis block
  phase,      \* of a synchronisation: "idle", "popping" or "loading"
  syncTrs,    \* unconfirmedTrs in findUpdate: the pool to be redone
  dropped,    \* history: a transaction left the pool and kept its funds
  popped,     \* history: an asset transfer was undone since the last commit
  stale,      \* history: the cache was rolled back over such an undo
  underPool   \* history: a block was popped under a pool not undone

vars == <<book, saved, pool, invalidIds, chain, phase, syncTrs, dropped,
          popped, stale, underPool>>

Book == [balance : [Account -> Int], u_balance : [Account -> Int],
         asset : [Account -> Int], cache : [Account -> Int]]

Confirmed == UNION {ToSet(chain[h]) : h \in DOMAIN chain}

-----------------------------------------------------------------------------
(* One transaction *)

Add(f, a, x) == [f EXCEPT ![a] = @ + x]

\* The native coins and the assets its sender spends.
Cost(t) == Fee + IF t.asset THEN 0 ELSE t.amount
Spend(t) == IF t.asset THEN t.amount ELSE 0

\* Mutation: the funds already held by the pool are not looked at.
CanHoldConfirmed(bk, t) ==
  /\ t.asset => bk.cache[t.sender] >= Spend(t)
  /\ bk.balance[t.sender] >= Cost(t)

\* The checks of applyUnconfirmed.
CanHold(bk, t) ==
  /\ t.asset => bk.cache[t.sender] >= Spend(t)
  /\ bk.u_balance[t.sender] >= Cost(t)

ApplyUnconfirmed(bk, t) ==
  [bk EXCEPT !.u_balance = Add(@, t.sender, -Cost(t)),
             !.cache = Add(@, t.sender, -Spend(t))]

UndoUnconfirmed(bk, t) ==
  [bk EXCEPT !.u_balance = Add(@, t.sender, Cost(t)),
             !.cache = Add(@, t.sender, Spend(t))]

\* The checks of apply, with that of updateAssetBalance.
CanApply(bk, t) ==
  /\ bk.balance[t.sender] >= Cost(t)
  /\ bk.asset[t.sender] >= Spend(t)

\* Mutation: the recipient is not credited for its next transactions.
ApplyConfirmedOnly(bk, t) ==
  [bk EXCEPT
     !.balance = Add(Add(@, t.sender, -Cost(t)), t.recipient, Cost(t) - Fee),
     !.asset = Add(Add(@, t.sender, -Spend(t)), t.recipient, Spend(t)),
     !.cache = Add(@, t.recipient, Spend(t))]

Apply(bk, t) ==
  [bk EXCEPT
     !.balance = Add(Add(@, t.sender, -Cost(t)), t.recipient, Cost(t) - Fee),
     !.u_balance = Add(@, t.recipient, Cost(t) - Fee),
     !.asset = Add(Add(@, t.sender, -Spend(t)), t.recipient, Spend(t)),
     !.cache = Add(@, t.recipient, Spend(t))]

\* Mutation: the recipient pays the fee back.
UndoFeeFromRecipient(bk, t) ==
  [bk EXCEPT
     !.balance = Add(Add(@, t.sender, Cost(t)), t.recipient, -Cost(t)),
     !.u_balance = Add(@, t.recipient, Fee - Cost(t)),
     !.asset = Add(Add(@, t.sender, Spend(t)), t.recipient, -Spend(t)),
     !.cache = Add(@, t.recipient, -Spend(t))]

Undo(bk, t) ==
  [bk EXCEPT
     !.balance = Add(Add(@, t.sender, Cost(t)), t.recipient, Fee - Cost(t)),
     !.u_balance = Add(@, t.recipient, Fee - Cost(t)),
     !.asset = Add(Add(@, t.sender, Spend(t)), t.recipient, -Spend(t)),
     !.cache = Add(@, t.recipient, -Spend(t))]

-----------------------------------------------------------------------------
(* Lists of transactions *)

\* undoUnconfirmedList: the pool is emptied.
UndoPool(bk) == FoldLeft(UndoUnconfirmed, bk, pool)

\* Mutation: a transaction that is in a block already is not recognised.
IsKnownUnconfirmed(t, trs, confirmed) == t \in ToSet(trs)

\* processUnconfirmedTransaction refuses what is in the pool or in a block.
IsKnown(t, trs, confirmed) == t \in ToSet(trs) \cup confirmed

\* receiveTransactions on a list: one after the other, up to the first that is
\* refused; the rest is forgotten.
Receiving(bk, trs) == [bk |-> bk, trs |-> trs, refused |-> FALSE]
ReceiveOne(s, t, confirmed, invalid) ==
  IF t \in invalid \/ s.refused THEN s
  ELSE IF IsKnown(t, s.trs, confirmed) \/ ~CanHold(s.bk, t)
  THEN [s EXCEPT !.refused = TRUE]
  ELSE Receiving(ApplyUnconfirmed(s.bk, t), Append(s.trs, t))
ReceiveAll(r, list, confirmed, invalid) ==
  FoldLeft(LAMBDA s, t : ReceiveOne(s, t, confirmed, invalid), r, list)

\* The results of giving list back to the pool trs: a transaction that does not
\* verify any more, or a pool that is full, may cut it short at any place.
Redone(bk, trs, list, confirmed, invalid) ==
  {ReceiveAll(Receiving(bk, trs), SubSeq(list, 1, k), confirmed, invalid) :
     k \in 0 .. Len(list)}

\* popLastBlock on one transaction.
UndoBoth(bk, t) == UndoUnconfirmed(Undo(bk, t), t)

\* The transactions of a block one after the other, up to the first that cannot
\* be applied: what has been applied, and what has failed.
ProcessOne(s, t) ==
  LET held == ApplyUnconfirmed(s.bk, t)
  IN  IF s.failed # {} THEN s
      ELSE IF CanHold(s.bk, t) /\ CanApply(held, t)
      THEN [s EXCEPT !.bk = Apply(held, t), !.done = @ \cup {t}]
      ELSE [s EXCEPT !.failed = {t}]
Process(bk, trs) == FoldLeft(ProcessOne, [bk |-> bk, done |-> {}, failed |-> {}], trs)

\* sortTransactions
Before(t, u) == t.amount < u.amount \/ (t.amount = u.amount /\ t.id < u.id)
Sorted(S) == InOrder(S, Before)

-----------------------------------------------------------------------------
Init ==
  /\ book = [balance |-> Funds, u_balance |-> Funds,
             asset |-> AssetFunds, cache |-> AssetFunds]
  /\ saved = AssetFunds
  /\ pool = <<>> /\ invalidIds = {} /\ chain = <<>>
  /\ phase = "idle" /\ syncTrs = <<>>
  /\ dropped = FALSE /\ popped = FALSE /\ stale = FALSE /\ underPool = FALSE

\* A transaction from a peer or a client, also during a synchronisation.
ReceiveTransaction(t) ==
  LET r == ReceiveAll(Receiving(book, pool), <<t>>, Confirmed, invalidIds)
  IN  /\ r.trs # pool
      /\ book' = r.bk /\ pool' = r.trs
      /\ UNCHANGED <<saved, invalidIds, chain, phase, syncTrs, dropped, popped,
                     stale, underPool>>

\* generateBlock finds a transaction of the pool that no longer verifies, for
\* instance since its sender has got a second signature: it is removed, and the
\* funds it holds are not given back.
DropTransaction(t) ==
  /\ phase = "idle" /\ t \in ToSet(pool)
  /\ pool' = Without(pool, {t})
  /\ dropped' = TRUE
  /\ UNCHANGED <<book, saved, invalidIds, chain, phase, syncTrs, popped, stale,
                 underPool>>

\* Mutation: the cache is left as the failing block has made it.
RollbackNothing(bk, failing) == [bk EXCEPT !.cache = failing.cache]

\* ROLLBACK TO SAVEPOINT and balanceCache.rollback, after the block has failed
\* with the balances `failing'; the savepoint was set on the balances bk.
RolledBack(bk, failing) == [bk EXCEPT !.cache = saved]

\* applyBlock on a block with the transactions S, forged here, received or
\* downloaded.  If one fails, the database and the cache are rolled back and the
\* error is only logged; in both cases the pool is redone in the reverse order,
\* without what the block has applied.
ApplyBlock(S) ==
  LET undone == UndoPool(book)
      p == Process(undone, Sorted(S))
      fails == p.failed # {}
      redo == Without(Reverse(pool), p.done)
  IN  /\ Len(chain) < MaxBlocks
      /\ S \cap Confirmed = {}
      /\ chain' = IF fails THEN chain ELSE Append(chain, Sorted(S))
      /\ saved' = IF fails THEN saved ELSE p.bk.cache
      /\ invalidIds' = invalidIds \cup p.failed
      /\ \E r \in Redone(IF fails THEN RolledBack(undone, p.bk) ELSE p.bk, <<>>,
                         redo, Confirmed', invalidIds') :
            book' = r.bk /\ pool' = r.trs
      /\ phase' = IF phase = "popping" THEN "loading" ELSE phase
      /\ popped' = FALSE
      /\ stale' = (stale \/ (popped /\ fails))
      /\ underPool' = FALSE
      /\ UNCHANGED <<syncTrs, dropped>>

\* findUpdate takes the pool and undoes it, ...
StartSync ==
  /\ phase = "idle" /\ chain # <<>>
  /\ phase' = "popping"
  /\ syncTrs' = Reverse(pool)
  /\ book' = UndoPool(book) /\ pool' = <<>>
  /\ underPool' = FALSE
  /\ UNCHANGED <<saved, invalidIds, chain, dropped, popped, stale>>

\* ... pops blocks one by one (popLastBlock), each in the reverse order of its
\* transactions, which do not return to the pool, ...
PopBlock ==
  LET block == chain[Len(chain)]
  IN  /\ phase = "popping" /\ chain # <<>>
      /\ chain' = SubSeq(chain, 1, Len(chain) - 1)
      /\ book' = FoldLeft(UndoBoth, book, Reverse(block))
      /\ popped' = (popped \/ \E t \in ToSet(block) : t.asset)
      /\ underPool' = (underPool \/ pool # <<>>)
      /\ UNCHANGED <<saved, pool, invalidIds, phase, syncTrs, dropped, stale>>

\* ... and, after the download (ApplyBlock), gives the pool back.
FinishSync ==
  /\ phase # "idle"
  /\ phase' = "idle"
  /\ syncTrs' = <<>>
  /\ \E r \in Redone(book, pool, syncTrs, Confirmed, invalidIds) :
        book' = r.bk /\ pool' = r.trs
  /\ UNCHANGED <<saved, invalidIds, chain, dropped, popped, stale, underPool>>

\* loadBlockChain without verification: the unconfirmed balances are those of
\* the accounts, the cache is filled from the database.
Restart ==
  /\ book' = [book EXCEPT !.u_balance = book.balance, !.cache = book.asset]
  /\ saved' = book.asset
  /\ pool' = <<>> /\ invalidIds' = {} /\ phase' = "idle" /\ syncTrs' = <<>>
  /\ dropped' = FALSE /\ popped' = FALSE /\ stale' = FALSE /\ underPool' = FALSE
  /\ UNCHANGED chain

Next ==
  \/ \E t \in Tx : ReceiveTransaction(t) \/ DropTransaction(t)
  \/ \E S \in SUBSET Tx : ApplyBlock(S)
  \/ StartSync \/ PopBlock \/ FinishSync
  \/ Restart

Spec == Init /\ [][Next]_vars

-----------------------------------------------------------------------------
(* Properties *)

\* Besides the types: no account ever has less than nothing in the database,
\* although undo and popLastBlock do not check the native balances.
TypeOK ==
  /\ book \in Book
  /\ \A a \in Account : book.balance[a] >= 0 /\ book.asset[a] >= 0
  /\ saved \in [Account -> Int]
  /\ pool \in Seq(Tx) /\ syncTrs \in Seq(Tx)
  /\ invalidIds \subseteq Tx
  /\ chain \in Seq(Seq(Tx))
  /\ phase \in {"idle", "popping", "loading"}
  /\ {dropped, popped, stale, underPool} \subseteq BOOLEAN

\* What the transactions in S take from a, and give to a.
SentBy(a, S) == MapThenSumSet(Cost, {t \in S : t.sender = a})
SpentBy(a, S) == MapThenSumSet(Spend, {t \in S : t.sender = a})
ReceivedBy(a, S) == MapThenSumSet(LAMBDA t : Cost(t) - Fee, {t \in S : t.recipient = a})
GainedBy(a, S) == MapThenSumSet(Spend, {t \in S : t.recipient = a})

\* The confirmed balances are those the blocks of the chain amount to, no more
\* and no less, after blocks that fail in the middle, blocks popped, and any
\* number of each (applyBlock with its savepoint, popLastBlock, apply, undo).
LedgerReflectsChain == TypeOK /\
  \A a \in Account :
    /\ book.balance[a] = Funds[a] + ReceivedBy(a, Confirmed) - SentBy(a, Confirmed)
    /\ book.asset[a] = AssetFunds[a] + GainedBy(a, Confirmed) - SpentBy(a, Confirmed)

\* u_balance is the confirmed balance less what the pool holds, through every
\* undo and redo of the pool; only a transaction that generateBlock has dropped
\* may hold more, never less, and until the next restart.
UnconfirmedReflectsPool ==
  \A a \in Account :
    LET free == book.balance[a] - SentBy(a, ToSet(pool))
    IN  book.u_balance[a] <= free /\ (~dropped => book.u_balance[a] = free)

\* In the same way the cache is what the database has of the asset less what the
\* pool spends, though the one is rolled back by its own log and the other by
\* SQLite.  (Not once the cache was rolled back over blocks popped since its last
\* commit: popLastBlock does not commit it.)
CacheReflectsPool ==
  ~stale =>
    \A a \in Account :
      LET free == book.asset[a] - SpentBy(a, ToSet(pool))
      IN  book.cache[a] <= free /\ (~dropped => book.cache[a] = free)

\* A transaction is in one block at most, or once in the pool, never in both,
\* so that it is paid for once.
PaidOnce ==
  /\ \A h \in DOMAIN chain : IsInjective(chain[h])
  /\ \A g, h \in DOMAIN chain :
        g # h => ToSet(chain[g]) \cap ToSet(chain[h]) = {}
  /\ IsInjective(pool) /\ ToSet(pool) \cap Confirmed = {}

\* A block of any transactions of the pool, in the order of sortTransactions and
\* not that of the pool, can be applied by the node that forges it, unless a
\* block was popped under a pool received during a synchronisation.
PoolCanBeForged ==
  ~stale /\ ~underPool =>
    \A S \in SUBSET ToSet(pool) : Process(UndoPool(book), Sorted(S)).failed = {}

=============================================================================
