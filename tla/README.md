# acchain: a TLA+ verification project

acchain is a delegated-proof-of-stake blockchain node written for node.js: 101
elected delegates forge one block every ten seconds, a block is final for a
node when its proposer has collected the votes of more than two thirds of the
delegates, and the blocks carry transfers of the native coin (ACC) and of user
issued assets. All paths below are relative to the repository root as
`src/<path>`; the node itself is in `src/src/`.

## 1. Inventory

### How the node is put together

`app.js` and `src/init.js` build one process with a SQLite database behind a
pipe (`dblite`), a set of modules that talk over a bus (`library.bus.message`
calls `on<Event>` in every module), and task queues. Everything is callbacks on
one thread: a handler is interrupted at every database call, so two handlers
interleave unless they are tasks of the same queue.

* `library.sequence` runs the consensus work: generating a block, receiving a
  block, a proposal or votes, a round of synchronisation.
* `library.balancesSequence` runs what changes balances: applying a block,
  popping one, receiving transactions, adding a signature.

* `library.dbSequence` reads chunks of the chain.

Tasks of `sequence` wait for tasks of `balancesSequence` they add, and those of
`balancesSequence` and `dbSequence` for each other's (module `TaskQueues`). The
one place that changes balances outside its queue is `findUpdate` in the loader.

### Components

| component | state | operations | made correct by |
|---|---|---|---|
| block agreement: `core/blocks.js`, `base/consensus.js`, `core/delegates.js` (loop) | last block, pending block and its votes, what was seen, the last vote and its time | generate, propose, vote, collect votes, apply and broadcast, receive | a block anywhere has its two thirds; forks are accountable; one chain per node; progress |
| synchronisation: `core/loader.js`, part of `core/blocks.js` | blocks table, the sync timer | find a common block, pop, download | the table is one path of certified blocks wherever it stops |
| balance cache: `utils/balance-manager.js`, `utils/tmdb.js` | a map of maps and an undo log | set, commit, rollback | rollback gives back the last commit |
| ledger: `base/transaction.js`, `core/blocks.js`, `base/account.js`, `utils/model.js` | `balance`, `u_balance`, asset balances in the database and the cache | apply, undo, applyUnconfirmed, undoUnconfirmed, apply and pop a block | confirmed and unconfirmed balances agree, nothing is created or spent twice |
| pool: `core/transactions.js` | array with holes, index by id, counter, invalid ids | receive, process, undo all, redo, remove | one entry per id, the counter and the limit tell the truth |
| rounds: `core/round.js`, `utils/block-status.js` | fees, rewards, delegates and votes gathered per round | tick, backwardTick, restart | a round is paid once and undone exactly, what is in the accounts is what the chain amounts to |
| delegates: `core/delegates.js`, `core/accounts.js` | registered delegates, votes, the list of a round | register, vote, undo, list | the same list on every node, everybody in it once; votes are for delegates |
| multisignatures: `core/multisignatures.js`, `core/signatures.js` | signatures of pending transactions, key groups | sign, create, undo | enough distinct signatures on all that is forged |
| assets: `src/uia/*.js`, `core/uia.js` | issuers, assets, issues, approvals, exercises | issue, approve, transfer, exercise, undo | quantities match balances and approvals |
| queues: `utils/sequence.js` | list of tasks | add, tick | one at a time, in order, none waits for ever |
| transport, peers: `core/transport.js`, `core/peer.js` | table of peers | routes, broadcast, ban | delivery is best effort |
| dapps: `core/dapps.js` | installed side chains, child processes | install, launch, in and out transfer | (mostly I/O) |
| database, API, clients: `core/sql.js`, `utils/model.js`, `src/dblite`, `core/server.js`, `cli/`, `acchain-js/`, `public/` | files, none of the node's own | read, format | (no part of the protocol) |

### What is hard here

Messages are late, repeated, reordered and lost; nodes restart and forget
everything but the database; two thirds are counted by one node and believed by
the others; a node that votes by the clock can vote twice for one height;
rollbacks move between the database, an in-memory cache and the pool, which
each have an undo of their own; the pool is undone and redone around each block
with errors swallowed. The end of a round pays and counts votes in one step of
many updates, and a fork over it takes all of them back with values of another
moment. What one transaction of the pool keeps others from doing is in a map
(`library.oneoff`) that each type sets and clears in its own way.
`PROJECT.json` lists each hazard at its line.

## 2. Modules

| module | what it is |
|---|---|
| `Consensus` | the agreement on blocks and the synchronisation between nodes |
| `TimelyConsensus` | the same on a network that becomes timely, with what makes a node synchronise |
| `ConsensusProofs` | types, ballots, certification, accountability, paths, spacing of votes and single blocks of `Consensus`, proved |
| `Tmdb` | the map with its undo log behind the balance cache |
| `SnapshotStore` | what that map promises: a store saved and restored as a whole |
| `MCTmdb` | its symmetries, for TLC |
| `Ledger` | the balances of one node, confirmed and unconfirmed, with the pool, the blocks and their undo |
| `TxPool` | the pool of unconfirmed transactions between two database calls |
| `Round` | fees, rewards, votes and lists of rounds, forward and backward |
| `Assets` | assets and issues, their approval by active delegates, the cache beside the tables |
| `Multisignatures` | the signatures of one multisignature account's transactions |
| `Delegates` | registrations, votes and second signatures, with what the pool keeps for them |
| `DelegateList` | how the list of a round is made, and whose slot it is |
| `TaskQueues` | the three task queues and who waits for whom |
| `Lists` | what the code does to lists of transactions with `filter` and `sort`, and sums |
| `ListsProofs` | lemmas on folds, sums over finite sets and lists, for the modules that follow |
| `LedgerProofs`, `MultisignaturesProofs`, `RoundProofs`, `AssetsProofs` | the proofs about these four |
| `TxPoolProofs` | the proofs about `TxPool` and two utilities: `Tmdb`, with the refinement of `SnapshotStore`, and `TaskQueues` |
| `DelegatesProofs` | the proofs about `Delegates` and `DelegateList` |
| `MCConsensus`, `MCTimelyConsensus`, `MCLedger`, `MCTxPool`, `MCRound`, `MCAssets`, `MCMultisignatures`, `MCDelegates`, `MCDelegateList`, `MCTaskQueues` | the values of the constants for TLC: small sets of accounts, transactions, blocks |

The modules are views of one node, each as fine as its questions need.
`Consensus` decides which blocks are applied and popped, with blocks that are
only a height, a slot and a generator; all others take any block at any time.
`Ledger` and `TxPool` are two views of the same code at different grain.
`Ledger` takes a task of the balances queue as one step and follows the money;
`TxPool` cuts the tasks at every database call and follows the array, its index
and its counter. `Multisignatures`, `Delegates` and `Assets` take the grain of
`Ledger` (a task is a step) for one family of transactions each, `Round` that of
a block. That tasks are steps is what `TaskQueues` is about: a queue runs one
at a time, in order, and none of them gets stuck. `Tmdb` is the cache
that `Ledger` keeps as `book.cache` and `saved`; that a rollback gives back the
last commit, which `RolledBack` takes as one step, is what `Refinement` proves.

### Consensus

One action per handler: `GenerateAndApply`, `GenerateAndPropose` and
`GenerateInVain` are the three ways `generateBlock` ends, `ReceivePropose`
(`VoteOnPropose`, `IgnorePropose`), `ReceiveVotes` and `ReceiveBlock` are the
tasks of the three routes, `Sync` is a round of `findUpdate` with
`loadBlocksFromPeer`, `Crash` a restart that keeps the database. Each handler is
one task of `library.sequence`, which is why it is one step. `SetLastBlock` is
everything the success branch of `applyBlock` clears.

`GenerateInVain` is a block that does not leave its node. A transaction in it
fails in `applyBlock`, the error is not passed on (`core/blocks.js:928`), the
last block stays, no block is pending, and `loop` comes back after 100 ms: it
forges another block for the same height and the same slot, with other
transactions. So a delegate may make several blocks in a slot. `OneBlockPerSlot`
is about those that are made public, in a message or in a table (`Published`).

Abstractions, and why they are sound for the properties stated:

* A block is its height, slot, generator and predecessor; its id is the place
  in which it was forged. Its transactions are left out: no check of the
  consensus reads them. What they can do is make a block fail, and any may: one
  forged here (`GenerateInVain`), one received or completed by votes (`ok` in
  `ReceiveBlock` and `ReceiveVotes`), one downloaded (`Sync` may end at every
  block).
* The network is a set of messages that never shrinks; messages are delivered
  late, again and in any order, and a message dropped during a synchronisation
  is one not delivered. `proposeCache` and `blockCache` are marked on arrival in
  the code and when the task runs in the model: the copies in between would be
  dropped in both.
* A signature exists if its key's node has made it (`signed`); `Keypairs` may
  give one delegate to two nodes, which is why two blocks of one slot are not
  excluded by the proofs.
* The queue of tasks: a task queued is a message not yet received. For forging,
  `loop` chooses the delegate and looks at the time before it queues the task;
  `ForgeTicks` set to the whole slot stands for a task that waits in the queue.
* The instances stay in the first round, with one delegate list and no rollback
  to the beginning of a round, which is in `Round`. `getIdSequence2` samples the
  last five blocks, so the common block `Sync` finds within `MaxFork` is the one
  the code finds.

`Sync` may happen at any moment, which is more than the code does and right for
safety. What makes a node synchronise is in the next module.

### TimelyConsensus

`Consensus` with the messages each node has handled (`handled`) and the nodes
whose synchronisation is in the queue (`active`, which is `isActive` of the
loader). A node asks for one in two cases only:

* a block or a proposal shows that it has missed blocks (`ShowsGap`:
  `core/blocks.js:1267` and `1295`);
* the timer of `core/loader.js:477` fires, every ten seconds, and the last block
  is three slots back (`Late`). The timer has its phase: it fires in the middle
  of a slot.

The task (`RunSync`) asks a peer and follows it if its chain is higher; messages
that come meanwhile may be dropped. With two nodes the random peer is the other
one. `Handle` is a message that arrives, and is handled or found to be known.

From the tick `GST` on, the clock moves only when every message has been
handled, every queued synchronisation has run and the leader has forged
(`TimelyTick`), and no block fails to apply. Before `GST` messages are as late as
they like, those on their way at `GST` may be lost, received blocks may fail, and
a node may restart once (a block that fails where it was forged leaves nothing
behind, and is in the other run only). No step of a node is hurried but for this: a node that has
fallen behind stays there until one of the two triggers is met.

### Tmdb and SnapshotStore

`Set`, `Commit` and `Rollback` are the three operations of `BalanceManager`;
the rollback pops one log entry per step (`Undo`), as the loop does, so that the
states in between are seen. `RemovePath` and `PutBack` are `remove_` and `set_`,
with their early return on a path that is not there. A key is a pair of an
address and a currency, the only kind the manager uses. `get` changes nothing.

### Ledger

`Apply`, `Undo`, `ApplyUnconfirmed` and `UndoUnconfirmed` are the four functions
of `base/transaction.js` with their part in `Transfer`; `Process` is the loop of
`applyBlock` over a block, `RolledBack` its error path (the savepoint in SQLite
and the log of the cache, which go back to different moments), `ReceiveAll` is
`receiveTransactions`. `ApplyBlock` is the whole task, with the undo of the pool
before and its redo after, also when the block fails. A synchronisation is
`StartSync`, any number of `PopBlock`, the download (`ApplyBlock`), and
`FinishSync`, between which transactions are received. `Restart` is
`loadBlockChain` as the shipped configurations run it (`verifyOnLoading` false).

* Transactions are transfers of the native coin or of one asset. Fees go to the
  round, which is not part of the module: they leave the balances and come back
  with an undo. A transaction that fails a check that has nothing to do with
  balances may cut a redo short anywhere (`Redone`) or be dropped when a block
  is generated (`DropTransaction`).
* The error path of `popLastBlock` is not a step: the code passes over the error
  of an undo, and `LedgerReflectsChain` shows that no undo fails for want of an
  asset balance. The cache of invalid ids of the HTTP route only keeps
  transactions out.
* Two properties exempt what the code does not keep. `stale`: `popLastBlock`
  does not commit the cache, so that a block that fails after it rolls the cache
  back to before the pop (without the exemption TLC finds the divergence).
  `underPool`: a transaction received during a synchronisation may spend what
  the next popped block takes away. `dropped`: a dropped transaction keeps its
  hold on `u_balance` until the restart.

### TxPool

Two flows work on the pool: "task", the running task of `balancesSequence`, and
"sync", `findUpdate`. `pc` is the database call each waits for: `Read`, `Hold`,
`Push` and `Continue` are the pieces of `processUnconfirmedTransaction`,
`UndoNext` and `UndoOne` those of `undoUnconfirmedList`. `RemoveUnconfirmed` is
the removal as it is written, with its unconditional decrement. What works in
`library.sequence` but not in the balances queue (`Drop`, `RefuseBlock`) may
come between any two pieces of a task.

A block has one transaction and is applied in one step, since nothing else
touches the pool while it is applied; the balances of recipients are left to
`Ledger`. `eachSeries` takes the length of the array when it starts (async
1.5.2), so that what is pushed meanwhile is not undone (`end`).

### Round

`ApplyBlock` is a block, what its transactions move, its vote, and `tick`;
`Settle` is the end of a round in either direction, with the shares of
`RoundChanges`. A synchronisation is `StartRollback`
(`directionSwap('backward')`, which forgets what the round has gathered and
flushes its rows of `mem_round`), `PopBlock` with `backwardTick` as often as
`PopTo` says, and `EndRollback`. `Restart` rebuilds what was gathered from the
blocks table (`onBlockchainReady`), after a reload of all blocks if some account
was last touched by a block that is gone. `LookUp` is anybody who asks for a
delegate list, which is cached by height only. `Replayed`, that reload, is a fold
of the same `Tick` over the heights of the table; if it fails, the process ends,
the next start finds nothing missing, and the tables stay at the block that
failed.

* A vote counts for a delegate with all the coins of the voter. The code keeps
  this by rows of `mem_round`, which are added to `vote` when the round ends:
  `CastVote` is the row of a vote given or withdrawn, with the voter's balance of
  the moment (`base/account.js:744`); `Credit` is the row of each voted delegate
  whenever the balance of a voter changes (`base/account.js:712`), by a transfer,
  a fee, a share of a round, and by the undo of each.
* A block has a generator, a fee, what its transactions move between accounts
  (`moves`, less the fee in all), and at most one vote. A block that some account
  cannot pay for is not applied (`Affordable`). The transfers and votes of the
  genesis block are in `Funds` and `InitialDelegates`.
* Sums of fees, rewards and votes are `Total`, a sum over a finite set, so that
  they can be reasoned about without recursion.
* `lists` is a history variable: the list by which the blocks of each round were
  accepted. Four others name what the code does not keep: `lost` (what is
  gathered is incomplete: a rollback inside a round, or a round's end that was
  refused), `unpaid` (a round was paid or taken back with such a list, the first
  round was popped, or a reload failed, or paid the first round, which it does
  without the genesis block), `votesOff` (`directionSwap` flushed the rows
  of the round at hand, of which blocks stay that have moved votes) and
  `relisted` (a round was taken back by another list than its own:
  `backwardTick` asks for the list of the round's first height when the votes are
  still those of its end, and if the cache is for another height it makes, and
  keeps, a list of those). The properties exempt the last three; without the
  exemptions TLC finds each divergence.

### Assets

`Apply` and `Undo` are the types of `src/uia` in blocks, after `applyBlock` has
called their unconfirmed halves; `ActiveVotes` is the count that an approval
compares with the threshold, made of `library.oneoff`, of the approvals table and
of who is active now. `ApproveIssue` and `RevokeIssue` keep the order of the
updates and what is left when one fails. The worth of an issue in ACC is a
constant of the issue, a multiple of four, so that the locked quarter is an
integer.

* `miscounted` exempts approvals taken back with another count than they were
  given with: `library.oneoff` left by a block that failed, or another list of
  active delegates. It also exempts the votes for an asset that the genesis
  block has approved: taken back, they clear the flag whatever had set it, six
  states from the start. `drifted` exempts the cache after an issue that is not
  chain level is taken back (`uia/approval.js:205` puts the sign before the
  currency) and after a block fails between a pop and the next block, as in
  `Ledger`.

### Multisignatures

Creations and transactions that spend, with the signatures of their objects
in the pool. `Submit`, `Answer` and `AddSignature` are the pieces of
`processSignature`: the check, the answer of the database, and the task, which
does not check again. `Ready` and `Verify` are `ready` and `verify` on them.
`Forge` is `generateBlock`, which removes what does not verify; blocks of other
nodes are `ReceiveBlock`. `pending` is `private.unconfirmedSignatures`.

* A signature is a string, and `KeyOf` the key it verifies under. One member may
  have several: `verify` compares strings, `ready` counts them, and neither asks
  whose they are. `ForgedAreSigned` therefore promises as many different strings
  as the minimum asks for, all of members, and one of each member for a creation
  only. The instance has a member with two.
* A transaction may be asked for by a member in place of the owner
  (`requesterPublicKey`, `Requester`): the requester must be in the group, the
  owner then counts as a signer, the requester does not. A creation with a
  requester needs a group, and an account that has one can not get another, so
  such a creation is never held and is left out.
* A block that fails takes the tables back, but not `pending`: a creation that
  verifies and is not ready is held first and refused by `apply` then, and leaves
  the flag set with nothing in the pool. Until the restart no other creation of
  the account is accepted.
* An object in no list any more is gone with its signatures (`Forget`).
* `dropped` exempts a creation that was removed, or refused in a block, and not
  undone, `restarted` the unconfirmed columns after a restart, which are restored
  without the minimum. `offered` chooses, once, which transactions there are, and
  `MaxSubmit` says for each choice how many signatures come in.

### Delegates

Registrations, votes and second signatures with `library.oneoff`. `Hold` is
`applyUnconfirmed`, which takes the fee before the type refuses (`kept`);
`Release` is `undoUnconfirmed` with the keys it deletes, and those it does not.
`accounts` are the confirmed columns, `u_balance` is the unconfirmed one.
`ApplyBlock` undoes the pool, clears the keys, applies the transactions in the
order of `sortTransactions`, clears the keys and redoes the pool. The weight of
votes is in `Round`. `offered` chooses, once, what clients and other nodes send:
two accounts and a name, two that vote for each other, one that sets a second
signature, or one that does and asks for transactions of another account.

* A transaction with a `requesterPublicKey` is signed by the requester, who must
  be in the sender's group, in place of the sender. Whether a second signature has
  to be there depends on the requester's second key (`base/transaction.js:550`),
  but whose it is, is not verified: `verify` is called without the requester, and
  the check of the sender's second key is for transactions without one
  (`base/transaction.js:293`). `SecondSignatureHonoured` says what is left:
  presence for all that an account signs, its own key for what it signs for
  itself.
* The groups (`Group`) are of blocks before these, and what needs signatures of
  a group has them: how they come together is in `Multisignatures`.
* Votes are sets of accounts. In the code they are keys in hexadecimal, of which
  an upper-case form is another string for the same account: such a pair of votes
  for one delegate is left out, and so are votes that add and remove one account.

### DelegateList

One exchange of `generateDelegateList` is one step; the hash is any byte. The
outer loop counts on as well as the inner one, so every fifth place is not
exchanged, as in the code. `DelegateOf` is the slot's owner, which is nobody on
a chain with fewer delegates than slots; `NextSlot` is `getBlockSlotData`.

### TaskQueues

A task has a kind, the task that waits for it, and may add others to the queues
its kind adds to (`AddedBy`, from all calls of `Sequence.add`); `Tick` and
`Finish` are `__tick`. Before `BlockchainReady` only the loading of the chain
runs. `LoadUnconfirmedTransactions` is the timer, which does not set itself
again when it fires during a synchronisation.

## 3. Runs

| run | instance | question |
|---|---|---|
| `consensus` | 2 nodes, one with 3 of 4 delegates that can decide alone and one that needs it; 6 ticks, 3 heights, 1 restart or rollback each, 1 block forged in vain | is each table one path, is each vote counted once for its block, does nobody publish two blocks in a slot? |
| `timely_consensus` | 2 nodes with 2 delegates each, one may restart; 25 ticks, timely from tick 6, 4 heights | does the chain grow and agree again after any prefix, with every block certified and every fork paid for? |
| `tmdb` | 2 addresses, 2 currencies, 2 values, log of 5 | does the undo log restore the last commit? |
| `ledger` | 2 accounts, 4 transfers, 2 of them of an asset, 2 blocks | do balances, cache, pool and chain agree through blocks that fail, pops, downloads, restarts? |
| `txpool` | 3 transactions, 2 of one account that can pay for 1; 3 blocks, 2 synchronisations | do array, index, counter and holds agree between any two database calls? |
| `txpool_duplicate` | 2 transactions, 1 synchronisation | is a transaction in the pool once? No |
| `round` | rounds of 3, 5 accounts with 4 delegates, 4 kinds of block (one with a transfer, one with a vote), 7 blocks, a pool of rewards for 2 rounds; 1 rollback, 1 restart | are fees, rewards, coins behind a delegate, misses and lists those of the chain? |
| `assets` | 3 assets, 2 issues, 3 delegates of whom 2 approve; 4 blocks, 2 pops, 1 new list, 1 failure, 1 restart | are approvals, quantities, ACC and cache those of the chain? |
| `multisignatures` | 2 members, one with 2 strings, and the owner; 2 of 2 creations and 2 spends, one with a requester; up to 2 signatures, 2 blocks, 1 fault | is what is forged signed, is the group that of the chain? |
| `delegates` | 2 accounts, one in the group of the other; 4 or 5 transactions on one of four subjects; 3 blocks, 1 fault | are accounts those of the chain, are votes for delegates, are second signatures honoured? |
| `task_queues` | 5 tasks that add up to 2 each | does every task end, in order, and do the queues never wait for each other? |
| `delegate_list` | up to 6 delegates for 5 slots, all votes and seeds | is everybody elected in the list once, with one slot? |

One run ends in a violation (PROJECT.json, `findings`). `txpool_duplicate`:
`findUpdate` gives the pool back outside `balancesSequence`
(`core/loader.js:163`). A transaction received at that moment by
`transport.js:411` and the same one in the pool given back both pass the check
of `core/transactions.js:390`, and the array holds it twice with one index: one
copy stays for ever, and its amount is credited again at every undo.

The other places where the code does not keep what one would expect are in the
models as they are, and the properties say under which condition they hold.
Each was found by TLC on the property without the condition:

* for the same reason, two transactions of one account can both pass the
  comparison of `base/transaction.js:571`, and `u_balance` becomes negative
  (`NoOverdraft` and the last part of `IndexSound`: until the first
  synchronisation);
* the counter of the pool drifts below the truth, so the limit on the pool does
  not hold (`CountNeverHigh` says that it is never above);
* a block that fails after a pop takes the cache back to before the pop
  (`stale` in `Ledger`, `drifted` in `Assets`);
* a rollback inside a round, or a round whose end was refused for want of
  rewards, is not paid in the end (`lost`, `unpaid` in `Round`), and what its
  remaining blocks have moved for delegates is flushed and never counted
  (`votesOff`); a round that is taken back may be held against the list of
  another moment (`relisted`); a rollback that is cut off is repaired at the
  next start only if an account was last touched by a block that is gone
  (`InterruptionIsSeen`: one always is);
* an approval counts only if the votes are exactly the threshold, so a new list
  of delegates can make it jump over (`VotesAt` says when it is complete);
* two issues that each fit below an asset's maximum exceed it together;
* a block that fails in its own node is forged again in the same slot, with
  other transactions (`GenerateInVain`);
* a signature can be pushed twice, and different strings of one member count as
  those of several; a creation that does not verify when a block is made, or that
  a block fails on, is pending until a restart (`dropped`);
* a second signature of a transaction with a requester is only asked to be there;
* the fee of a refused transaction is kept from `u_balance` until a restart
  (`kept`);
* a name in upper case can be registered twice; a transaction's key for a name
  is not deleted by its undo, so that the name is refused until the next block;
* the timer for unconfirmed transactions stops for good when it fires during a
  synchronisation.

Bounds. Four delegates are the smallest number where two thirds (three votes)
differ from a majority and from all, and where a quorum needs two nodes. A slot
is two ticks and a vote blocks another for one tick, the proportion of ten and
five seconds. Three heights are enough for a fork that is rolled back past its
first block. `RemoteQuorum` and `VotesSent` are two, one below the proposer's
three, as six is below sixty-eight. `MaxTick`, `MaxHeight` and `MaxEpoch` bound
the state space and are named in the module; the clock's bound stops the system,
which is why these configurations do not check for deadlock. In
`timely_consensus` what happens before `GST` has three slots, in which two nodes
can fork, lose each other's votes and restart; the ten slots after it leave time
for a node to be three slots behind, to wait for the timer and to catch up, and
for the leaders to fill the chain. In `Tmdb` two addresses and two currencies
give two paths that share an address; a log of five holds two paths and three
values, so a value is overwritten after and before a path is created. In
`Ledger` account a can pay for one of its two transfers and b only for what a
has sent it, so blocks fail, redos are refused, and a pop takes away what was
spent; two blocks are enough for a pop of one and of both. In `TxPool` the limit
of the pool is two (one in the violation); `MaxArray` and `MaxBelow` bound the
array, which only grows, and the counter, which may fall for ever. In `Round`
the chain has up to seven blocks, two rounds of three and the beginning of the
third: a fork of two blocks (`MaxFork` is three, five in the code) is inside a
round, at its end, or over it; the reward pool pays two rounds of the three that
can end when one is made again. One account votes for two delegates, makes
blocks, pays a transfer to another voter and casts a vote for the delegate
outside the list, so that each kind of row of `mem_round` is made, and the vote
can change who is in the list. In `Assets` two of three delegates approve, so
that a new list changes who counts; two pops take back an approval and the block
before it. In `Multisignatures`, `Delegates` and `TaskQueues` the bounds are on
what comes from outside (`MaxSubmit`, `MaxFault`, `MaxTasks`) and on the chain.
These systems stop at their bounds, and their configurations do not check for
deadlock. `DelegateList` has lists shorter, equal and longer than the slots, one
byte that stays in place, one that does not, and the largest.

Fairness is assumed in two places. `TimelySpec` (`TimelyConsensus`): the next
step is taken as long as there is one, since node.js never stops while a timer, a
task or a message is due. That from tick `GST` on the clock does not pass a
delivery, a queued synchronisation or a leader who may forge is a condition of
the clock's step (`TimelyTick`): a network that delivers within a tick and an
event loop that is not starved, which is what any such protocol needs to make
progress. It does not make a node synchronise: only the gap of a block or
proposal and the timer do. `TaskQueues`: a queue whose head
can run is ticked (`setTimeout` every 3 ms for ever), and a task all of whose
tasks have ended ends; what arrives from outside has no fairness.

The types of the variables are the first conjunct of one invariant per module:
`LogUndoable`, `LedgerReflectsChain`, `IndexSound`, `RewardsFromPool`,
`SupplyReflectsApprovals`, `GroupReflectsChain`, `AccountsReflectChain`,
`NoCircularWait`, `ListIsElected`; only `Consensus` checks `TypeOK` by itself.

Every property has a mutant in `PROJECT.json`: a definition of the model is
replaced by what a plausible slip in the code would make of it and the run must
then fail.

## 4. Proofs

`ConsensusProofs`, for any number of nodes, delegates, heights and slots, under
`ConstantsAssumption` (the keys of a node are delegates, and six votes are never
more than one above two thirds):

* `TypeCorrectness`, `BallotSoundness`: `[]TypeOK` and `[]BallotSound`.
* `Certification`: `[]ChainsCertified`. It is not inductive: a block reaches a
  table from a message or from another table, so the invariant adds that every
  block message is about a certified block (`MessagesCertified`), and that the
  ballot of a proposer holds genuine signatures of distinct keys
  (`BallotSound`), of which the count gives a quorum. Signatures are never
  taken back, so a certified block stays certified.
* `ForkAccountability`: `[]ForksAreDoubleSigned`, from certification and the
  intersection of two sets of more than two thirds.
* `Linkage`: `[]ChainsLinked`. A table is a path up to its last block; cutting a
  path at one of its blocks and splicing two paths at a block they share give
  paths again (`PathCut`, `PathSpliced`), which is what a rollback and a download
  do, wherever they stop. The invariant adds that the predecessor of every
  block is a block one lower (`BlocksLinked`).
* `Spacing`: `VotesSpaced`. To a node, a step is the end of its epoch
  (`Interrupted`), a higher last block (`Advances`), or the same last block
  (`Stays`), lemma `NodeStep`. Within an epoch the last vote is at most one above
  the last block, and `lastVoteTime` is forgotten only when that height is
  reached (`VoteInv`).
* `SingleBlocks`: `[]OneBlockPerSlot`, if no key is at two nodes (`KeysApart`;
  with one key at two nodes it is false, as nothing in the code prevents it). It
  is about blocks that were made public: those that failed in their node are in
  nobody's table, not pending and in no message, and stay so. A public block above
  the last one is of the slot of the pending block or of an earlier one
  (`ForgeInv`), and with a pending block none is forged until a later slot has
  come.

`TxPoolProofs`, first part, for any transactions, accounts, funds and limits,
under `ConstantsAssumption` (costs are positive, funds are natural numbers):
`SoundIndex` (`[]IndexSound`), `CounterBelow` (`[]CountNeverHigh`) and
`NothingOverdrawn` (`[]NoOverdraft`). Every step leaves the pool, removes one
id, or pushes what a flow has held (`PoolSteps`); a removal makes one hole at
most, at the place of the index, and so takes no more from the pool than from
the counter (`Removed`). Before the first synchronisation only the task is on
the way: what it has looked up is still not in the index, and the balance it has
read is still that of the account (`TaskAlone`). A list without some elements
(`Without`) is written with places instead of recursion, so that its type can be
proved.

`TxPoolProofs`, second part, for any addresses, currencies, values and length of
log: `Undoability` (`[]LogUndoable`) and `Refinement` (`Spec => Refines`): the
map with its log implements `SnapshotStore`, where the saved store is what
restoring the log from its oldest entries would give. The invariant says that
the oldest entry of a value lies where the value's path exists, in an order that
can be undone from the end.

`TxPoolProofs`, third part, for any number of tasks and any steps of them:
`Ordered` (`[]TasksInOrder`), and `NeverCircular` (`[]NoCircularWait`). The
queues of balances and of the database could wait for each other in one way
only, `popLastBlock` for `loadBlocksData` while `loadBlocksOffset` waits for
`applyBlock`; the invariant `Phases` says that chunks are loaded before the node
is ready and blocks popped after, and `RunningIsOwn`, `CallersAdd` and
`QueueSorted` tie what a queue runs to what it was given.

`DelegatesProofs`, second part, for any delegates, votes, bytes of the hash and
number of slots, under `DelegatesAssumption` (keys differ, there are slots):
`ListCorrect` (`[]ListIsElected`) and `OneSlotForEach` (`[]OneSlotEach`).
The ranks by votes and key are a bijection from the delegates to their number, so
the list starts with the elected ones once each, and every exchange is a
permutation; `Slots` slots in a row run through every remainder once
(`SlotRemainders`), so every place has one of them. `DelegateList` has names of
its own (`ListSpec`, `ListInit`, `ListNext`), so that one module can extend both.

`LedgerProofs`, for any accounts, transfers, funds and bounds, under
`ConstantsAssumption` (transactions are finitely many transfers from one account
to another, amounts and the fee are positive, no two share an id): `LedgerSound`
(`[]LedgerReflectsChain`), `UnconfirmedSound` (`[]UnconfirmedReflectsPool`),
`CacheSound` (`[]CacheReflectsPool`), `SinglePayment` (`[]PaidOnce`) and
`PoolForgeable` (`[]PoolCanBeForged`), from `BooksInvariance`. Balances are sums
over sets of transactions (`Moves`, `AssetMoves`, `SentBy`, `SpentBy`), of which a
lemma says what one more transaction adds. A fold over a block or over the pool
is shown to move the sums from one set to the next: `FoldLeft` is a function on
the positions of a list, and induction over natural numbers is available as
`SetInduction`, which follows from the library's theorem on well-founded
relations without a parameter. The invariant says of every state

* `BooksOfChain`: the confirmed balances are the first ones moved by the chain;
* `SavedReflects`: the cache as last committed has the asset balances of the
  chain (at most those, after a transaction was dropped), until a block is popped;
  without it nothing is known after a rollback;
* `Solvent`: after every prefix of the chain no balance is negative, which is why
  an undo never fails in `popLastBlock`;
* `IsKept` and `Covered`: what is unconfirmed is what is confirmed less what the
  pool holds, and covers it, so that the pool can be undone and applied in the
  order of `sortTransactions`;
* `BlocksOnce`: no transaction is in the chain twice.

`MultisignaturesProofs`, for any keys, strings, creations, requesters, groups
and bounds, under `ConstantsAssumption` (a group is finite, its minimum is
between 2 and one more than its members, every string verifies under one key):
`GroupsSound` (`[]GroupReflectsChain`), `PendingSound` (`[]PendingReflectsPool`)
and `SignedSound` (`[]ForgedAreSigned`), from `GroupInvariance`. None of the
three is inductive. That the columns are those of one creation is lost if a
second can be in the pool while the first is applied; `IsKept` therefore says of
the account, the flag and the pool at once that one creation at most is in the
chain or in the pool, that the flag is set for one in the pool, or for one that
left it without being undone or was refused in a block that failed (`loose`),
and that none is pending above one in the chain. It is stated for any state and
any set of creations, so that it can be carried through the folds of
`applyBlock` (`ApplyKeeps`, `ReceiveAllKeeps`), `popLastBlock` (`PopKeeps`) and
`undoUnconfirmedList` (`UndoAllKeeps`): a list that holds one creation at most
is folded as that creation alone (`ReleaseOnly`, `ApplyOnly`, `UndoOnly`).
`ForgedAreSigned` follows since a block is verified against the columns before
the pool is undone, which does not touch the confirmed ones
(`VerifiedIsSigned`), and blocks below it are never replaced without it. What
verification promises is different strings, and of a creation that is ready one
of each member.

`DelegatesProofs`, for any accounts, groups, names, votes, bounds and sets of
transactions to be sent, with or without a requester, under
`ConstantsAssumption` (no two transactions that are sent share an id, a vote
does not add and remove the same account, lower case of lower case is itself):
`AccountsSound` (`[]AccountsReflectChain`), `OnceSound` (`[]OncePerAccount`),
`VotesSound` (`[]VotesAreForDelegates`), `SecondSignatureSound`
(`[]SecondSignatureHonoured`) and `FeesSound` (`[]UnconfirmedReflectsPool`),
from `AccountsInvariance`. An undo does not invert every apply: it clears a name
that was there before, drops a vote that was there before, so that the tables
are those of the chain only if each transaction fits the tables it was applied
to (`Fits`, `UndoApply`). The invariant therefore has the whole history: tables
`T[h]` after each height (`IsHistory`), where each block leads from one to the
next (`Leads`, transaction by transaction), its transactions have no keys in
common (`IsApart`), and each is new on what the blocks below made and stays so
above (`AreNew`, `Grown`). Verification looks at the tables before the block,
application happens on those in its midst: what is still true there follows from
the keys in `library.oneoff` (`IsApplied`, `AppliedFits`), which is where a
registration undone with another's key, or two votes of an account in one block,
would break it. `IsBooked` accounts for the fees: what is missing from an
unconfirmed balance is that of the pool's transactions, each there once, and of
those that were kept. `OnceSound` and `SecondSignatureSound` compare two places
of the history; the others are parts of the invariant.

`RoundProofs`, for any delegates, blocks, funds, sizes of a round, rewards and
bounds, under `ConstantsAssumption`: `PoolSound` (`[]RewardsFromPool`) and
`InterruptionSound` (`[]InterruptionIsSeen`) from `BaseInvariance`,
`EarningsSound` (`[]EarningsReflectChain`) from `EarningsInvariance`, and
`RoundVotesSound` (`[]VotesReflectChain`), `ListSound` (`[]OneListPerRound`) and
`MissedSound` (`[]MissedReflectsChain`) from `RoundsInvariance`. Sums over
accounts and over places of a list are related by counting (`ListsProofs`); the
shares of a round add up to its fees because the remainder has one receiver.

* `BaseInvariance` has the types, where a synchronisation stands (`target` below
  `oldTop`, both heights of the chain that was), and that what is rewarded in
  the accounts has left the pool. That an interruption is seen needs that a
  deleted block stays noted in some account: the next block that is popped may
  note itself there, and is then deleted too.
* `EarningsInvariance` relates the accounts to the chain at every step and not
  only between synchronisations, where the property looks. While blocks are
  popped the current round is taken apart: `ungathered` is the popped end of it,
  in the other order, and the round is undone as a whole or was never paid. The
  aim of a synchronisation (`PopTo`) is what makes that true: the end of a round
  or a height in the round at hand. `Settle` with the blocks of a round backward
  gives back what it gave forward, since the first of the reversed list is the
  last of the list. A reload is the fold of blocks that each keep the relation
  (`ReplayFold`). A round that ends with `lost` blocks is not settled, or, at
  the height `N`, with what is left of it: either way `unpaid` is set.
* `RoundsInvariance` has votes, lists and misses in one, for the votes are counted
  by rounds, the lists are made of the votes, and the misses are by the lists. All
  of it is under `Sound`, no round paid that should not be (`unpaid`) and no row
  flushed whose block stays (`votesOff`), lists and misses also under `Quiet`, no
  round taken back by another list (`relisted`); these are the exemptions of the
  properties.
  `Cast`: a vote is in the tables if it was cast an odd number of times. `Voted`,
  between synchronisations: a delegate has the coins its voters had at the end of
  the last finished round, the row of the current round what they have more
  since, the other rows nothing. The coins of the voters in the tables are those
  of the chain by `EarningsInvariance`, so that a step has to be shown only to
  move for a delegate, in `vote` or in its row, what it moves for its voters
  (`IsRecorded`): `Credit` and `CastVote` do, in either direction and
  whatever votes were cast in between, and `Settle` only moves from the row to
  `vote`. While blocks are popped (`VotedBack`) the votes
  still have the round that is being taken apart until its first block is gone,
  and its row has the difference; the row of the round in which the
  synchronisation began may hold anything, since it is flushed at its end and
  the blocks of that round that stay have moved nothing. `Listed`: the list by
  which a round was accepted, and the cached one while its height is not passed,
  is made of the votes of the rounds before it, whoever has asked for it.
  `Missed`: the marks are those of the settled rounds, held against these lists.

`AssetsProofs`, for any assets, issues, delegates, lists of active ones, blocks
and bounds, under `ConstantsAssumption` (assets and issues are finitely many, no
id is twice in a block): `ApprovalsSound` (`[]ApprovalsReflectChain`),
`SupplySound` (`[]SupplyReflectsApprovals`) and `CacheSound`
(`[]CacheReflectsTables`), from `AssetsInvariance`. The votes for a value are
counted by place: `At` is how many there are among the transactions of the
blocks below and the first `p` of a block. A block applied up to `p` has counted
`At(p) - At(0)` of them in `library.oneoff`, one undone down to `p` has `At(p) -
At(Len)`, so with the rows of the table each compares the same number with the
threshold (`ApplyStep`, `UndoStep`). The number grows at each approval of the
value and is reached once (`GainedMore`, `Once`): the undo takes back what this
approval had made complete, and no other. The invariant says

* `Shape`, in every state: the rows are the transactions of the chain, and each
  block is `Placed` on those below it. None of its transactions was there, its
  approvals are by delegates who were active, its issues and exercises are of
  assets that were registered, and an issue it completes was made below it;
  what is approved is registered.
* `Sound`, unless `miscounted`: what is approved is what the votes of the chain
  say, quantities, balances and the ACC created are those of what is approved
  and exercised (`Books`), and they were solvent at each place of the chain
  (`SolventTo`), which is why taking back an issue or an exercise does not fail
  half way.
* the cache has what the tables have, unless `drifted` or `miscounted`.

Model-checked only are `Converges` and `EveryTaskEnds`: liveness under fairness is
out of the prover's reach. Each invariant and action property of a passing run
has a theorem. TLC has checked the inductive invariants of `Ledger`,
`Multisignatures`, `Round` and `Assets` on small instances before they were
proved; that of `Delegates` quantifies over histories, of which the run checks
the five properties.

## 5. What is left, and what is not modelled

No invariant of a run is left to prove. Of the model, the hazards that no property
covers yet are in `PROJECT.json`, each with the reason: the arithmetic of an
amount that is negated as a float, the maximum of an asset that two issues
share, and the timer that stops asking for unconfirmed transactions.

Not modelled:

* `core/peer.js`: which peer answers is left open in `Consensus`, so a table of
  who may be asked cannot change what is checked.
* `core/dapps.js`: installation and child processes of side chains, I/O on files
  and processes; its transfers in and out are deposits and withdrawals of the
  native coin, as `Ledger` has them.
* encodings, hashes and signatures (`base/block.js`, `base/transaction.js`,
  `utils/protobuf.js`): a block has an id, a signature is a pair of key and block.
* `utils/block-status.js`, the rewards by height: the constant `Reward` of
  `Round`. A table of boundaries has no states.
* `core/sql.js`, `utils/model.js`, `src/dblite`: text of SQL statements and a
  pipe; taken as an atomic store with savepoints.
* the reload that verifies all blocks with assets: `Round` has the reload for
  fees, rewards and votes.
* `core/server.js`, `cli/`, `acchain-js/`, `public/`, `execute/`: clients and
  pages, which have no part in the protocol and make up most of the repository.
