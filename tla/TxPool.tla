------------------------------- MODULE TxPool -------------------------------
(***************************************************************************)
(* The pool of unconfirmed transactions, between two database calls.  Two  *)
(* flows work on it at once: the tasks of library.balancesSequence, which  *)
(* receive a transaction or apply a block, and a synchronisation, which    *)
(* undoes and redoes the pool without queueing for it.  A handler is cut   *)
(* where it waits for the database, and what it has read before may have   *)
(* changed when it goes on.                                                *)
(* Code: src/src/core/transactions.js, src/src/core/loader.js              *)
(* (findUpdate), src/src/core/blocks.js (applyBlock, popLastBlock).        *)
(*                                                                         *)
(* Blocks have one transaction: the pool is undone and redone around each  *)
(* block as a whole.  A transaction spends native coins of its sender; the *)
(* accounts of recipients are not those of senders.                        *)
(***************************************************************************)
EXTENDS Integers, Sequences, FiniteSets, SequencesExt, Lists

CONSTANTS
  Tx, Account,
  NoTx,           \* stands for false and for undefined
  Sender,         \* Sender[t]: the account that pays for t
  Cost,           \* Cost[t]: what t takes from it, with the fee
  Funds,          \* Funds[a]: the balance of a at first
  MaxTxsPerBlock, \* constants.maxTxsPerBlock, the limit on the pool (500)
  MaxArray,       \* bound: no transaction is received into a longer array
  MaxBelow,       \* bound: none is received, and no block refused, with the
                  \* counter that far below 0
  MaxBlocks,      \* bound: how many blocks are applied
  MaxSyncs        \* bound: how many synchronisations there are

ASSUME ConstantsAssumption ==
  /\ Sender \in [Tx -> Account] /\ Cost \in [Tx -> Nat \ {0}]
  /\ Funds \in [Account -> Nat]
  /\ NoTx \notin Tx
  /\ {MaxTxsPerBlock, MaxArray, MaxBelow, MaxBlocks, MaxSyncs} \subseteq Nat

\* What works on the pool: the task of the balances queue, and findUpdate.
Flow == {"task", "sync"}

VARIABLES
  array,      \* private.unconfirmedTransactions, NoTx for false
  idIndex,    \* private.unconfirmedTransactionsIdIndex, 0 for undefined
  number,     \* private.unconfirmedNumber
  invalidIds, \* private.invalidIds
  u_balance,  \* of mem_accounts
  confirmed,  \* the transactions in a block
  pc,         \* where each flow waits, "idle" if it is not running
  list,       \* the transactions it has still to receive
  end,        \* the length of the array when it began to undo it
  pos,        \* the place in the array where it undoes
  trs,        \* the transaction at hand
  sender,     \* the u_balance of its sender when its account was read
  block,      \* the transaction of the block the task applies, or NoTx
  blocks,     \* history: blocks applied
  syncs       \* history: synchronisations

poolVars == <<array, idIndex, number>>
flowVars == <<pc, list, end, pos, trs, sender>>
vars == <<poolVars, invalidIds, u_balance, confirmed, flowVars, block, blocks, syncs>>

-----------------------------------------------------------------------------
(* The array and its index *)

Live == {i \in DOMAIN array : array[i] # NoTx}

\* getUnconfirmedTransactionList(true): what is in the array, the last first.
ListReversed == Reverse(Without(array, {NoTx}))

\* Mutation: the index keeps the id of what was removed.
RemoveKeepingIndex(t) ==
  /\ idIndex' = idIndex
  /\ array' = IF idIndex[t] = 0 THEN array ELSE [array EXCEPT ![idIndex[t]] = NoTx]
  /\ number' = number - 1

\* Mutation: the counter is left as it is.
RemoveUncounted(t) ==
  /\ idIndex' = [idIndex EXCEPT ![t] = 0]
  /\ array' = IF idIndex[t] = 0 THEN array ELSE [array EXCEPT ![idIndex[t]] = NoTx]
  /\ number' = number

\* removeUnconfirmedTransaction: also of an id that is not there, whose index is
\* undefined; the counter is decremented all the same.
RemoveUnconfirmed(t) ==
  /\ idIndex' = [idIndex EXCEPT ![t] = 0]
  /\ array' = IF idIndex[t] = 0 THEN array ELSE [array EXCEPT ![idIndex[t]] = NoTx]
  /\ number' = number - 1

\* addUnconfirmedTransaction, after applyUnconfirmed.
AddUnconfirmed(t) ==
  /\ array' = Append(array, t)
  /\ idIndex' = [idIndex EXCEPT ![t] = Len(array) + 1]
  /\ number' = number + 1

-----------------------------------------------------------------------------
Init ==
  /\ array = <<>> /\ idIndex = [t \in Tx |-> 0] /\ number = 0
  /\ invalidIds = {} /\ u_balance = Funds /\ confirmed = {}
  /\ pc = [f \in Flow |-> "idle"] /\ list = [f \in Flow |-> <<>>]
  /\ end = [f \in Flow |-> 0] /\ pos = [f \in Flow |-> 0]
  /\ trs = [f \in Flow |-> NoTx] /\ sender = [f \in Flow |-> 0]
  /\ block = NoTx /\ blocks = 0 /\ syncs = 0

Goto(f, where) == pc' = [pc EXCEPT ![f] = where]

-----------------------------------------------------------------------------
(* receiveTransactions, in both flows *)

\* processUnconfirmedTransaction: the id must not be in the index.
MustProcess(t) == idIndex[t] = 0

\* The first of the rest l of the list is looked up; at the end of the list, and
\* after an error, which ends it, the flow is over.
Proceed(f, l) ==
  IF l # <<>> /\ MustProcess(Head(l))
  THEN /\ trs' = [trs EXCEPT ![f] = Head(l)]
       /\ list' = [list EXCEPT ![f] = Tail(l)]
       /\ Goto(f, "read")
       /\ UNCHANGED block
  ELSE /\ trs' = [trs EXCEPT ![f] = NoTx]
       /\ list' = [list EXCEPT ![f] = <<>>]
       /\ Goto(f, "idle")
       /\ block' = IF f = "task" THEN NoTx ELSE block

\* Too many in the pool: none is received; those that were invalid are left out.
ReceiveTransactions(f, l) ==
  Proceed(f, IF number > MaxTxsPerBlock THEN <<>> ELSE Without(l, invalidIds))

\* The account of the sender is read, and the database asked for the transaction.
Read(f) ==
  /\ pc[f] = "read"
  /\ IF trs[f] \in confirmed
     THEN /\ Proceed(f, <<>>)
          /\ UNCHANGED sender
     ELSE /\ sender' = [sender EXCEPT ![f] = u_balance[Sender[trs[f]]]]
          /\ Goto(f, "hold")
          /\ UNCHANGED <<list, trs, block>>
  /\ UNCHANGED <<poolVars, invalidIds, u_balance, confirmed, end, pos, blocks, syncs>>

\* Mutation: the sender may spend what it has not.
IsAffordableAny(t, balance) == TRUE

IsAffordable(t, balance) == Cost[t] <= balance

\* applyUnconfirmed: the balance that was read is compared, the balance that is
\* there is reduced.
Hold(f) ==
  LET t == trs[f]
  IN  /\ pc[f] = "hold"
      /\ IF IsAffordable(t, sender[f])
         THEN /\ u_balance' = [u_balance EXCEPT ![Sender[t]] = @ - Cost[t]]
              /\ Goto(f, "push")
              /\ UNCHANGED <<poolVars, list, trs, block>>
         ELSE /\ RemoveUnconfirmed(t)
              /\ Proceed(f, <<>>)
              /\ UNCHANGED u_balance
      /\ sender' = [sender EXCEPT ![f] = 0]
      /\ UNCHANGED <<invalidIds, confirmed, end, pos, blocks, syncs>>

\* The callback of applyUnconfirmed.
Push(f) ==
  /\ pc[f] = "push"
  /\ AddUnconfirmed(trs[f])
  /\ Goto(f, "next")
  /\ UNCHANGED <<invalidIds, u_balance, confirmed, list, end, pos, trs, sender,
                 block, blocks, syncs>>

Continue(f) ==
  /\ pc[f] = "next"
  /\ Proceed(f, list[f])
  /\ UNCHANGED <<poolVars, invalidIds, u_balance, confirmed, end, pos, sender,
                 blocks, syncs>>

-----------------------------------------------------------------------------
(* undoUnconfirmedList, in both flows *)

\* eachSeries comes to the element i of the n that were there when it began.  The
\* account of its sender is read; a hole is passed over in the next turn.
LookAt(f, i, n) ==
  /\ trs' = [trs EXCEPT ![f] = IF i <= n THEN array[i] ELSE NoTx]
  /\ pos' = [pos EXCEPT ![f] = IF i <= n THEN i + 1 ELSE 0]
  /\ end' = [end EXCEPT ![f] = IF i <= n THEN n ELSE 0]
  /\ Goto(f, IF i > n THEN "apply" ELSE IF array[i] = NoTx THEN "undo" ELSE "undoing")

StartUndo(f) ==
  /\ list' = [list EXCEPT ![f] = ListReversed]
  /\ LookAt(f, 1, Len(array))

UndoNext(f) ==
  /\ pc[f] = "undo"
  /\ LookAt(f, pos[f], end[f])
  /\ UNCHANGED <<poolVars, invalidIds, u_balance, confirmed, list, sender, block,
                 blocks, syncs>>

\* undoUnconfirmed
UndoOne(f) ==
  LET t == trs[f]
  IN  /\ pc[f] = "undoing"
      /\ RemoveUnconfirmed(t)
      /\ u_balance' = [u_balance EXCEPT ![Sender[t]] = @ + Cost[t]]
      /\ Goto(f, "undo")
      /\ UNCHANGED <<invalidIds, confirmed, list, end, pos, trs, sender, block,
                     blocks, syncs>>

-----------------------------------------------------------------------------
(* The tasks of the balances queue *)

\* A transaction has come from a peer or a client.
StartReceive(t) ==
  /\ pc["task"] = "idle" /\ Len(array) < MaxArray /\ number > - MaxBelow
  /\ ReceiveTransactions("task", <<t>>)
  /\ UNCHANGED <<poolVars, invalidIds, u_balance, confirmed, end, pos, sender,
                 blocks, syncs>>

\* applyBlock, in a task of library.sequence: outside a synchronisation, which is
\* such a task too, or in its download.
StartBlock(t) ==
  /\ pc["task"] = "idle" /\ pc["sync"] \in {"idle", "apply"}
  /\ blocks < MaxBlocks /\ t \notin confirmed
  /\ blocks' = blocks + 1
  /\ block' = t
  /\ StartUndo("task")
  /\ UNCHANGED <<poolVars, invalidIds, u_balance, confirmed, sender, syncs>>

\* processBlock, in a task of library.sequence, refuses a block with a transaction
\* that is in another block, and removes that from the pool.
RefuseBlock(t) ==
  /\ pc["sync"] \in {"idle", "apply"} /\ block = NoTx
  /\ t \in confirmed /\ number > - MaxBelow
  /\ RemoveUnconfirmed(t)
  /\ UNCHANGED <<invalidIds, u_balance, confirmed, flowVars, block, blocks, syncs>>

\* doApplyBlock: whether it can be applied or not, the transaction is removed.
BlockApplied ==
  /\ pc["task"] = "apply"
  /\ RemoveUnconfirmed(block)
  /\ IF IsAffordable(block, u_balance[Sender[block]])
     THEN /\ u_balance' = [u_balance EXCEPT ![Sender[block]] = @ - Cost[block]]
          /\ confirmed' = confirmed \cup {block}
          /\ list' = [list EXCEPT !["task"] = Without(@, {block})]
          /\ UNCHANGED invalidIds
     ELSE /\ invalidIds' = invalidIds \cup {block}
          /\ UNCHANGED <<u_balance, confirmed, list>>
  /\ Goto("task", "receive")
  /\ UNCHANGED <<end, pos, trs, sender, block, blocks, syncs>>

Redo ==
  /\ pc["task"] = "receive"
  /\ ReceiveTransactions("task", list["task"])
  /\ UNCHANGED <<poolVars, invalidIds, u_balance, confirmed, end, pos, sender,
                 blocks, syncs>>

\* generateBlock, in a task of library.sequence, removes a transaction that does
\* not verify any more; what it holds is not given back.
Drop(t) ==
  /\ pc["sync"] = "idle" /\ block = NoTx /\ \E i \in Live : array[i] = t
  /\ blocks < MaxBlocks /\ blocks' = blocks + 1
  /\ RemoveUnconfirmed(t)
  /\ UNCHANGED <<invalidIds, u_balance, confirmed, flowVars, block, syncs>>

-----------------------------------------------------------------------------
(* findUpdate *)

StartSync ==
  /\ pc["sync"] = "idle" /\ block = NoTx
  /\ syncs < MaxSyncs /\ syncs' = syncs + 1
  /\ StartUndo("sync")
  /\ UNCHANGED <<poolVars, invalidIds, u_balance, confirmed, sender, block, blocks>>

\* popLastBlock, a task of its own.
PopBlock(t) ==
  /\ pc["sync"] = "apply" /\ pc["task"] = "idle"
  /\ t \in confirmed
  /\ confirmed' = confirmed \ {t}
  /\ u_balance' = [u_balance EXCEPT ![Sender[t]] = @ + Cost[t]]
  /\ RemoveUnconfirmed(t)
  /\ UNCHANGED <<invalidIds, flowVars, block, blocks, syncs>>

\* The download is over.
EndDownload ==
  /\ pc["sync"] = "apply" /\ block = NoTx
  /\ ReceiveTransactions("sync", list["sync"])
  /\ UNCHANGED <<poolVars, invalidIds, u_balance, confirmed, end, pos, sender,
                 blocks, syncs>>

-----------------------------------------------------------------------------
Next ==
  \/ \E f \in Flow :
        \/ Read(f) \/ Hold(f) \/ Push(f) \/ Continue(f)
        \/ UndoNext(f) \/ UndoOne(f)
  \/ \E t \in Tx : StartReceive(t) \/ StartBlock(t) \/ RefuseBlock(t)
                    \/ Drop(t) \/ PopBlock(t)
  \/ BlockApplied \/ Redo
  \/ StartSync \/ EndDownload

Spec == Init /\ [][Next]_vars

-----------------------------------------------------------------------------
(* Properties *)

TypeOK ==
  /\ array \in Seq(Tx \cup {NoTx}) /\ idIndex \in [Tx -> Nat] /\ number \in Int
  /\ invalidIds \subseteq Tx /\ confirmed \subseteq Tx
  /\ u_balance \in [Account -> Int]
  /\ pc \in [Flow -> {"idle", "receive", "next", "read", "hold", "push",
                      "undo", "undoing", "apply"}]
  /\ list \in [Flow -> Seq(Tx)]
  /\ end \in [Flow -> Nat] /\ pos \in [Flow -> Nat]
  /\ trs \in [Flow -> Tx \cup {NoTx}] /\ sender \in [Flow -> Int]
  /\ \A f \in Flow : pc[f] \in {"read", "hold", "push", "undoing"} => trs[f] \in Tx
  /\ block \in Tx \cup {NoTx} /\ (pc["task"] = "apply" => block \in Tx)
  /\ blocks \in Nat /\ syncs \in Nat

\* The index never points to a hole or to another transaction, whatever removes
\* an id that is not there, or adds or removes one twice; and until the first
\* synchronisation, what is in the array is found by its id, and can so be removed:
\* no transaction stays in the pool for ever.  (findUpdate gives the pool back
\* beside the balances queue, and a transaction that is received meanwhile can be
\* pushed twice: InPoolOnce.)
IndexSound ==
  /\ TypeOK
  /\ \A t \in Tx : idIndex[t] # 0 => idIndex[t] \in DOMAIN array /\ array[idIndex[t]] = t
  /\ syncs = 0 => \A i \in Live : idIndex[array[i]] = i

\* unconfirmedNumber, from which transactions are removed more than once, is never
\* above the number of those in the pool: a pool that has room refuses none.
CountNeverHigh == number <= Cardinality(Live)

\* Until the first synchronisation, no account has more on hold than it owns, though
\* its balance is compared some database calls after it was read, and while
\* transactions are dropped and blocks applied.  (A transaction received while
\* findUpdate gives another of its account back is held against the same balance.)
NoOverdraft == syncs = 0 => \A a \in Account : u_balance[a] >= 0

\* "Transaction ... already exists, ignoring...": a transaction is in the pool
\* once (processUnconfirmedTransaction).
InPoolOnce == \A i, j \in Live : array[i] = array[j] => i = j

=============================================================================
