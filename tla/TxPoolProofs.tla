---------------------------- MODULE TxPoolProofs ----------------------------
(***************************************************************************)
(* The pool of unconfirmed transactions, and the two utilities it and the  *)
(* rest of the node rely on: the undo log of the balance cache and the     *)
(* task queues.                                                            *)
(*                                                                         *)
(* TxPool: the index of the pool is sound, its counter never too high and  *)
(* no balance overdrawn before a synchronisation, for any transactions,    *)
(* accounts, funds and limits.                                             *)
(*                                                                         *)
(* Tmdb (src/src/utils/tmdb.js): the undo log implements SnapshotStore,    *)
(* whatever the addresses, the currencies, the values and the length of    *)
(* the log.  What a rollback gives a slot is in the oldest entry of the    *)
(* slot in the log.  That there is an oldest one needs no induction on the *)
(* log: it is part of the invariant, since set adds entries at the end and *)
(* rollback takes them from there.                                         *)
(*                                                                         *)
(* TaskQueues (src/src/utils/sequence.js): the three queues never wait for *)
(* each other and keep their order, whatever the number of tasks.  They    *)
(* could deadlock in one way only: popLastBlock, in the balances queue,    *)
(* waits for the database queue, where loadBlocksOffset waits for the      *)
(* balances queue.  `Phases' says why they never meet: the one runs before *)
(* the chain is loaded and the other after.                                *)
(***************************************************************************)
EXTENDS TxPool, Tmdb, TaskQueues, ListsProofs

-----------------------------------------------------------------------------
(* The operators on sequences and on the array *)

\* The list that the pool is redone from.
LEMMA ListReversedType ==
  ASSUME TypeOK
  PROVE  ListReversed \in Seq(Tx)
<1> DEFINE s == Without(array, {NoTx})
<1>1. s \in Seq(Tx)
  <2>1. s \in Seq((Tx \cup {NoTx}) \ {NoTx})
    BY WithoutIs DEF TypeOK
  <2>2. (Tx \cup {NoTx}) \ {NoTx} = Tx
    BY ConstantsAssumption
  <2> QED BY <2>1, <2>2
<1>2. ListReversed = [i \in 1 .. Len(s) |-> s[(Len(s) - i) + 1]]
  BY DEF ListReversed, Reverse
<1> HIDE DEF s
<1>3. \A i \in 1 .. Len(s) : s[(Len(s) - i) + 1] \in Tx
  BY <1>1
<1>4. ListReversed \in [1 .. Len(s) -> Tx] /\ Len(s) \in Nat
  BY <1>1, <1>2, <1>3
<1> QED BY <1>4

-----------------------------------------------------------------------------
(* The invariant *)

\* Where a flow undoes is in the array.
UndoInArray ==
  \A f \in Flow : pc[f] \in {"undo", "undoing"} => pos[f] # 0 /\ end[f] <= Len(array)

\* While the pool is undone for a block, it is there.
BlockHeld == pc["task"] \in {"undo", "undoing", "apply"} => block \in Tx

\* The first part of IndexSound.
IndexHolds ==
  \A t \in Tx : idIndex[t] # 0 => idIndex[t] \in DOMAIN array /\ array[idIndex[t]] = t

\* What is in the array is found by its id.
AllFound == \A i \in Live : idIndex[array[i]] = i

\* Before the first synchronisation the task is alone: what it has looked up is still
\* not in the index, and the balance it has read is still that of the account.
TaskAlone ==
  syncs = 0 =>
    /\ pc["sync"] = "idle" /\ AllFound
    /\ pc["task"] \in {"read", "hold", "push"} => idIndex[trs["task"]] = 0
    /\ pc["task"] = "hold" => sender["task"] = u_balance[Sender[trs["task"]]]
    /\ \A a \in Account : u_balance[a] >= 0

IInv ==
  TypeOK /\ UndoInArray /\ BlockHeld /\ IndexHolds /\ CountNeverHigh /\ TaskAlone

-----------------------------------------------------------------------------
(* What is removed and added *)

\* The positions of the array are finitely many.
LEMMA LiveFinite ==
  ASSUME array \in Seq(Tx \cup {NoTx})
  PROVE  IsFiniteSet(Live) /\ Cardinality(Live) \in Nat /\ Live \in SUBSET (1 .. Len(array))
<1>1. Len(array) \in Nat /\ Live \in SUBSET (1 .. Len(array))
  BY DEF Live
<1>2. IsFiniteSet(1 .. Len(array))
  BY <1>1, FS_Interval
<1> QED BY <1>1, <1>2, FS_Subset, FS_CardinalityType

\* removeUnconfirmedTransaction, of an id that is there or is not: one hole more at
\* most, at the place the index has.
LEMMA Removed ==
  ASSUME TypeOK, IndexHolds, NEW t \in Tx, RemoveUnconfirmed(t)
  PROVE  /\ array' \in Seq(Tx \cup {NoTx}) /\ idIndex' \in [Tx -> Nat] /\ number' \in Int
         /\ Len(array') = Len(array)
         /\ \A u \in Tx : idIndex'[u] = IF u = t THEN 0 ELSE idIndex[u]
         /\ IndexHolds'
         /\ CountNeverHigh => CountNeverHigh'
         /\ AllFound => AllFound'
<1>1. /\ array \in Seq(Tx \cup {NoTx}) /\ idIndex \in [Tx -> Nat] /\ number \in Int
      /\ NoTx \notin Tx
  BY ConstantsAssumption DEF TypeOK
<1>2. /\ idIndex' = [idIndex EXCEPT ![t] = 0] /\ number' = number - 1
      /\ array' = IF idIndex[t] = 0 THEN array ELSE [array EXCEPT ![idIndex[t]] = NoTx]
  BY DEF RemoveUnconfirmed
<1>3. idIndex[t] # 0 => idIndex[t] \in 1 .. Len(array) /\ array[idIndex[t]] = t
  BY <1>1 DEF IndexHolds
<1>4. /\ array' \in Seq(Tx \cup {NoTx}) /\ Len(array') = Len(array)
      /\ DOMAIN array' = DOMAIN array
      /\ \A i \in DOMAIN array :
            array'[i] = IF idIndex[t] # 0 /\ i = idIndex[t] THEN NoTx ELSE array[i]
  <2>1. CASE idIndex[t] = 0
    BY <1>1, <1>2, <2>1
  <2>2. CASE idIndex[t] # 0
    <3>1. array' = [array EXCEPT ![idIndex[t]] = NoTx] /\ idIndex[t] \in 1 .. Len(array)
      BY <1>2, <1>3, <2>2
    <3>2. array' \in Seq(Tx \cup {NoTx}) /\ Len(array') = Len(array)
          /\ DOMAIN array' = DOMAIN array
      BY <1>1, <3>1
    <3>3. \A i \in DOMAIN array : array'[i] = IF i = idIndex[t] THEN NoTx ELSE array[i]
      BY <1>1, <3>1
    <3> QED BY <2>2, <3>2, <3>3
  <2> QED BY <2>1, <2>2
<1>5. \A u \in Tx : idIndex'[u] = IF u = t THEN 0 ELSE idIndex[u]
  BY <1>1, <1>2
<1>6. IndexHolds'
  <2> SUFFICES ASSUME NEW u \in Tx, idIndex'[u] # 0
               PROVE  idIndex'[u] \in DOMAIN array' /\ array'[idIndex'[u]] = u
    BY DEF IndexHolds
  <2>1. u # t /\ idIndex'[u] = idIndex[u] /\ idIndex[u] # 0
    BY <1>5
  <2>2. idIndex[u] \in DOMAIN array /\ array[idIndex[u]] = u
    BY <2>1 DEF IndexHolds
  <2>3. ~(idIndex[t] # 0 /\ idIndex[u] = idIndex[t])
    BY <1>3, <2>1, <2>2
  <2> QED BY <1>4, <2>1, <2>2, <2>3
<1>7. Live' = Live \ {idIndex[t]}
  <2>1. Live' = {i \in DOMAIN array : array'[i] # NoTx}
    BY <1>4 DEF Live
  <2>2. \A i \in DOMAIN array : array'[i] # NoTx <=> array[i] # NoTx /\ i # idIndex[t]
    BY <1>1, <1>4
  <2> QED BY <2>1, <2>2 DEF Live
<1>8. CountNeverHigh => CountNeverHigh'
  <2>1. /\ Cardinality(Live') = IF idIndex[t] \in Live THEN Cardinality(Live) - 1
                                ELSE Cardinality(Live)
        /\ Cardinality(Live) \in Nat
    BY <1>1, <1>7, LiveFinite, FS_RemoveElement
  <2> QED BY <1>1, <1>2, <2>1 DEF CountNeverHigh
<1>9. AllFound => AllFound'
  <2> SUFFICES ASSUME AllFound, NEW i \in Live' PROVE idIndex'[array'[i]] = i
    BY DEF AllFound
  <2>1. i \in Live /\ i # idIndex[t] /\ i \in DOMAIN array /\ array[i] \in Tx
    BY <1>1, <1>7 DEF Live
  <2>2. array'[i] = array[i] /\ idIndex[array[i]] = i
    BY <1>4, <2>1 DEF AllFound
  <2> QED BY <1>5, <2>1, <2>2
<1> QED BY <1>1, <1>2, <1>4, <1>5, <1>6, <1>8, <1>9

\* addUnconfirmedTransaction: one more at the end, which the index points to.
LEMMA Added ==
  ASSUME TypeOK, IndexHolds, NEW t \in Tx, AddUnconfirmed(t)
  PROVE  /\ array' \in Seq(Tx \cup {NoTx}) /\ idIndex' \in [Tx -> Nat] /\ number' \in Int
         /\ Len(array') = Len(array) + 1
         /\ IndexHolds'
         /\ CountNeverHigh => CountNeverHigh'
         /\ AllFound /\ idIndex[t] = 0 => AllFound'
<1>1. /\ array \in Seq(Tx \cup {NoTx}) /\ idIndex \in [Tx -> Nat] /\ number \in Int
      /\ NoTx \notin Tx
  BY ConstantsAssumption DEF TypeOK
<1> DEFINE n == Len(array) + 1
<1>2. /\ idIndex' = [idIndex EXCEPT ![t] = n] /\ number' = number + 1
      /\ array' = Append(array, t) /\ n \in Nat
  BY <1>1 DEF AddUnconfirmed
<1>3. /\ array' \in Seq(Tx \cup {NoTx}) /\ Len(array') = n /\ array'[n] = t
      /\ DOMAIN array' = DOMAIN array \cup {n} /\ n \notin DOMAIN array
      /\ \A i \in DOMAIN array : array'[i] = array[i]
  BY <1>1, <1>2
<1> HIDE DEF n
<1>4. \A u \in Tx : idIndex'[u] = IF u = t THEN n ELSE idIndex[u]
  BY <1>1, <1>2
<1>5. IndexHolds'
  BY <1>3, <1>4 DEF IndexHolds
<1>6. Live' = Live \cup {n} /\ n \notin Live
  BY <1>1, <1>3 DEF Live
<1>7. CountNeverHigh => CountNeverHigh'
  <2>1. Cardinality(Live') = Cardinality(Live) + 1 /\ Cardinality(Live) \in Nat
    BY <1>1, <1>6, LiveFinite, FS_AddElement
  <2> QED BY <1>1, <1>2, <2>1 DEF CountNeverHigh
<1>8. AllFound /\ idIndex[t] = 0 => AllFound'
  <2> SUFFICES ASSUME AllFound, idIndex[t] = 0, NEW i \in Live'
               PROVE  idIndex'[array'[i]] = i
    BY DEF AllFound
  <2>1. CASE i = n
    BY <1>3, <1>4, <2>1
  <2>2. CASE i # n
    <3>1. i \in Live /\ i \in DOMAIN array /\ array[i] \in Tx /\ array'[i] = array[i]
      BY <1>1, <1>3, <1>6, <2>2 DEF Live
    <3>2. idIndex[array[i]] = i /\ i # 0
      BY <1>1, <3>1 DEF AllFound
    <3> QED BY <1>4, <3>1, <3>2
  <2> QED BY <2>1, <2>2
<1>9. idIndex' \in [Tx -> Nat] /\ number' \in Int
  BY <1>1, <1>2
<1> QED BY <1>3, <1>5, <1>7, <1>8, <1>9 DEF n

-----------------------------------------------------------------------------
(* What a flow goes on with *)

\* Proceed takes up a transaction that is not in the index, or ends the flow.
LEMMA ProceedType ==
  ASSUME TypeOK, BlockHeld, NEW f \in Flow, NEW l \in Seq(Tx), Proceed(f, l)
  PROVE  /\ trs' \in [Flow -> Tx \cup {NoTx}] /\ list' \in [Flow -> Seq(Tx)]
         /\ pc' \in [Flow -> {"idle", "receive", "next", "read", "hold", "push",
                              "undo", "undoing", "apply"}]
         /\ \A g \in Flow : g # f => pc'[g] = pc[g] /\ trs'[g] = trs[g]
         /\ \/ pc'[f] = "idle"
            \/ pc'[f] = "read" /\ trs'[f] \in Tx /\ idIndex[trs'[f]] = 0
         /\ block' \in Tx \cup {NoTx}
         /\ f # "task" => block' = block
<1>1. CASE l # <<>> /\ MustProcess(Head(l))
  <2>1. Head(l) \in Tx /\ Tail(l) \in Seq(Tx)
    BY <1>1
  <2> QED BY <1>1, <2>1 DEF Proceed, MustProcess, Goto, TypeOK
<1>2. CASE ~(l # <<>> /\ MustProcess(Head(l)))
  <2>1. <<>> \in Seq(Tx)
    OBVIOUS
  <2> QED BY <1>2, <2>1 DEF Proceed, Goto, TypeOK
<1> QED BY <1>1, <1>2

\* receiveTransactions goes on with a part of the list.
LEMMA ReceiveType ==
  ASSUME TypeOK, NEW f \in Flow, NEW l \in Seq(Tx), ReceiveTransactions(f, l)
  PROVE  \E k \in Seq(Tx) : Proceed(f, k)
<1>1. <<>> \in Seq(Tx)
  OBVIOUS
<1>2. Without(l, invalidIds) \in Seq(Tx)
  <2>1. Without(l, invalidIds) \in Seq(Tx \ invalidIds)
    BY WithoutIs
  <2> QED BY <2>1
<1> QED BY <1>1, <1>2 DEF ReceiveTransactions

\* undoUnconfirmedList comes to an element of the array, or to the end.
LEMMA LookAtType ==
  ASSUME TypeOK, NEW f \in Flow, NEW i \in Nat, NEW n \in Nat, i # 0, n <= Len(array),
         LookAt(f, i, n)
  PROVE  /\ trs' \in [Flow -> Tx \cup {NoTx}] /\ pos' \in [Flow -> Nat]
         /\ end' \in [Flow -> Nat]
         /\ pc' \in [Flow -> {"idle", "receive", "next", "read", "hold", "push",
                              "undo", "undoing", "apply"}]
         /\ \A g \in Flow : g # f =>
              pc'[g] = pc[g] /\ trs'[g] = trs[g] /\ pos'[g] = pos[g] /\ end'[g] = end[g]
         /\ pc'[f] \in {"undo", "undoing", "apply"}
         /\ pc'[f] = "undoing" => trs'[f] \in Tx
         /\ pc'[f] # "apply" => pos'[f] # 0 /\ end'[f] <= Len(array)
<1>1. array \in Seq(Tx \cup {NoTx}) /\ Len(array) \in Nat
  BY DEF TypeOK
<1>2. CASE i <= n
  <2>1. array[i] \in Tx \cup {NoTx}
    BY <1>1, <1>2
  <2>2. /\ trs' = [trs EXCEPT ![f] = array[i]] /\ pos' = [pos EXCEPT ![f] = i + 1]
        /\ end' = [end EXCEPT ![f] = n]
        /\ pc' = [pc EXCEPT ![f] = IF array[i] = NoTx THEN "undo" ELSE "undoing"]
    <3>1. (i <= n) = TRUE /\ (i > n) = FALSE
      BY <1>2
    <3> QED BY <3>1, Zenon DEF LookAt, Goto
  <2> QED BY <2>1, <2>2 DEF TypeOK
<1>3. CASE ~(i <= n)
  <2>1. /\ trs' = [trs EXCEPT ![f] = NoTx] /\ pos' = [pos EXCEPT ![f] = 0]
        /\ end' = [end EXCEPT ![f] = 0] /\ pc' = [pc EXCEPT ![f] = "apply"]
    <3>1. (i <= n) = FALSE /\ (i > n) = TRUE
      BY <1>3
    <3> QED BY <3>1, Zenon DEF LookAt, Goto
  <2> QED BY <2>1 DEF TypeOK
<1> QED BY <1>2, <1>3

\* undoUnconfirmedList begins with the first element of the array.
LEMMA StartUndoType ==
  ASSUME TypeOK, NEW f \in Flow, StartUndo(f)
  PROVE  /\ LookAt(f, 1, Len(array)) /\ Len(array) \in Nat /\ Len(array) <= Len(array)
         /\ list' \in [Flow -> Seq(Tx)]
<1>1. LookAt(f, 1, Len(array)) /\ list' = [list EXCEPT ![f] = ListReversed]
  BY DEF StartUndo
<1>2. Len(array) \in Nat
  BY DEF TypeOK
<1> QED BY <1>1, <1>2, ListReversedType DEF TypeOK

-----------------------------------------------------------------------------
(* The steps *)

\* Every step leaves the pool, removes an id from it, or pushes what a flow has held.
LEMMA PoolSteps ==
  ASSUME TypeOK, BlockHeld, [Next]_vars
  PROVE  \/ UNCHANGED poolVars
         \/ \E t \in Tx : RemoveUnconfirmed(t)
         \/ \E f \in Flow : pc[f] = "push" /\ trs[f] \in Tx /\ AddUnconfirmed(trs[f])
<1>1. CASE UNCHANGED vars
  BY <1>1 DEF vars
<1>2. ASSUME NEW f \in Flow, Read(f) \/ Continue(f) \/ UndoNext(f)
      PROVE  UNCHANGED poolVars
  BY <1>2 DEF Read, Continue, UndoNext, poolVars
<1>3. ASSUME NEW f \in Flow, Hold(f)
      PROVE  UNCHANGED poolVars \/ \E t \in Tx : RemoveUnconfirmed(t)
  <2>1. trs[f] \in Tx
    BY <1>3 DEF Hold, TypeOK
  <2>2. UNCHANGED poolVars \/ RemoveUnconfirmed(trs[f])
    BY <1>3 DEF Hold
  <2> QED BY <2>1, <2>2
<1>4. ASSUME NEW f \in Flow, Push(f)
      PROVE  pc[f] = "push" /\ trs[f] \in Tx /\ AddUnconfirmed(trs[f])
  BY <1>4 DEF Push, TypeOK
<1>5. ASSUME NEW f \in Flow, UndoOne(f)
      PROVE  \E t \in Tx : RemoveUnconfirmed(t)
  <2>1. trs[f] \in Tx /\ RemoveUnconfirmed(trs[f])
    BY <1>5 DEF UndoOne, TypeOK
  <2> QED BY <2>1
<1>6. ASSUME NEW t \in Tx, StartReceive(t) \/ StartBlock(t)
      PROVE  UNCHANGED poolVars
  BY <1>6 DEF StartReceive, StartBlock, poolVars
<1>7. ASSUME NEW t \in Tx, RefuseBlock(t) \/ Drop(t) \/ PopBlock(t)
      PROVE  RemoveUnconfirmed(t)
  BY <1>7 DEF RefuseBlock, Drop, PopBlock
<1>8. CASE BlockApplied
  <2>1. block \in Tx /\ RemoveUnconfirmed(block)
    BY <1>8 DEF BlockApplied, BlockHeld
  <2> QED BY <2>1
<1>9. CASE Redo \/ StartSync \/ EndDownload
  BY <1>9 DEF Redo, StartSync, EndDownload, poolVars
<1> QED BY <1>1, <1>2, <1>3, <1>4, <1>5, <1>6, <1>7, <1>8, <1>9 DEF Next

\* So the index stays sound and the counter is not too high.
LEMMA PoolStep ==
  ASSUME IInv, [Next]_vars
  PROVE  /\ array' \in Seq(Tx \cup {NoTx}) /\ idIndex' \in [Tx -> Nat] /\ number' \in Int
         /\ Len(array') >= Len(array)
         /\ IndexHolds' /\ CountNeverHigh'
<1>1. /\ TypeOK /\ BlockHeld /\ IndexHolds /\ CountNeverHigh
      /\ array \in Seq(Tx \cup {NoTx}) /\ idIndex \in [Tx -> Nat] /\ number \in Int
      /\ Len(array) \in Nat
  BY DEF IInv, TypeOK
<1>2. CASE UNCHANGED poolVars
  BY <1>1, <1>2 DEF poolVars, IndexHolds, CountNeverHigh, Live
<1>3. ASSUME NEW t \in Tx, RemoveUnconfirmed(t)
      PROVE  /\ array' \in Seq(Tx \cup {NoTx}) /\ idIndex' \in [Tx -> Nat]
             /\ number' \in Int /\ Len(array') >= Len(array)
             /\ IndexHolds' /\ CountNeverHigh'
  BY <1>1, <1>3, Removed
<1>4. ASSUME NEW t \in Tx, AddUnconfirmed(t)
      PROVE  /\ array' \in Seq(Tx \cup {NoTx}) /\ idIndex' \in [Tx -> Nat]
             /\ number' \in Int /\ Len(array') >= Len(array)
             /\ IndexHolds' /\ CountNeverHigh'
  <2>1. Len(array') = Len(array) + 1
    BY <1>1, <1>4, Added
  <2>2. Len(array') >= Len(array)
    BY <1>1, <2>1
  <2> QED BY <1>1, <1>4, <2>2, Added
<1>5. \A f \in Flow : trs[f] \in Tx /\ AddUnconfirmed(trs[f]) => \E t \in Tx : AddUnconfirmed(t)
  OBVIOUS
<1> QED BY <1>1, <1>2, <1>3, <1>4, <1>5, PoolSteps

\* What a step keeps beside the pool.
Rest == TypeOK /\ UndoInArray /\ BlockHeld

\* What the pool is after a step, for the lemmas below.
LEMMA PoolTypes ==
  ASSUME IInv, [Next]_vars
  PROVE  /\ TypeOK /\ UndoInArray /\ BlockHeld
         /\ array' \in Seq(Tx \cup {NoTx}) /\ idIndex' \in [Tx -> Nat] /\ number' \in Int
         /\ Len(array') >= Len(array) /\ Len(array) \in Nat /\ Len(array') \in Nat
BY PoolStep DEF IInv, TypeOK

\* A flow goes on with the next transaction, or ends.
LEMMA ProceedRest ==
  ASSUME IInv, [Next]_vars, NEW f \in Flow, NEW l \in Seq(Tx), Proceed(f, l),
         sender' \in [Flow -> Int],
         UNCHANGED <<invalidIds, u_balance, confirmed, end, pos>>,
         blocks' \in Nat, syncs' \in Nat
  PROVE  Rest'
<1>0. /\ TypeOK /\ UndoInArray /\ BlockHeld
      /\ array' \in Seq(Tx \cup {NoTx}) /\ idIndex' \in [Tx -> Nat] /\ number' \in Int
      /\ Len(array') >= Len(array) /\ Len(array) \in Nat /\ Len(array') \in Nat
  BY PoolTypes
<1>1. /\ trs' \in [Flow -> Tx \cup {NoTx}] /\ list' \in [Flow -> Seq(Tx)]
      /\ pc' \in [Flow -> {"idle", "receive", "next", "read", "hold", "push",
                           "undo", "undoing", "apply"}]
      /\ \A g \in Flow : g # f => pc'[g] = pc[g] /\ trs'[g] = trs[g]
      /\ \/ pc'[f] = "idle"
         \/ pc'[f] = "read" /\ trs'[f] \in Tx /\ idIndex[trs'[f]] = 0
      /\ block' \in Tx \cup {NoTx}
      /\ f # "task" => block' = block
  BY <1>0, ProceedType, Zenon
<1>2. BlockHeld'
  <2>1. CASE f = "task"
    BY <1>1, <2>1 DEF BlockHeld
  <2>2. CASE f # "task"
    <3>1. pc'["task"] = pc["task"] /\ block' = block
      BY <1>1, <2>2 DEF Flow
    <3> QED BY <1>0, <3>1 DEF BlockHeld
  <2> QED BY <2>1, <2>2
<1>3. UndoInArray'
  <2> SUFFICES ASSUME NEW g \in Flow, pc'[g] \in {"undo", "undoing"}
               PROVE  pos'[g] # 0 /\ end'[g] <= Len(array')
    BY DEF UndoInArray
  <2>1. pc[g] = pc'[g] /\ pos'[g] = pos[g] /\ end'[g] = end[g] /\ end[g] \in Nat
    BY <1>0, <1>1 DEF TypeOK
  <2> QED BY <1>0, <2>1 DEF UndoInArray
<1>4. TypeOK'
  BY <1>0, <1>1, <1>2 DEF TypeOK, BlockHeld
<1> QED BY <1>2, <1>3, <1>4 DEF Rest

\* undoUnconfirmedList begins, or goes on.
LEMMA LookAtRest ==
  ASSUME IInv, [Next]_vars, NEW f \in Flow, NEW i \in Nat, NEW n \in Nat, i # 0,
         n <= Len(array), LookAt(f, i, n),
         list' \in [Flow -> Seq(Tx)], block' \in Tx \cup {NoTx},
         IF f = "task" THEN block' \in Tx ELSE block' = block,
         UNCHANGED <<invalidIds, u_balance, confirmed, sender>>,
         blocks' \in Nat, syncs' \in Nat
  PROVE  Rest'
<1>0. /\ TypeOK /\ UndoInArray /\ BlockHeld
      /\ array' \in Seq(Tx \cup {NoTx}) /\ idIndex' \in [Tx -> Nat] /\ number' \in Int
      /\ Len(array') >= Len(array) /\ Len(array) \in Nat /\ Len(array') \in Nat
  BY PoolTypes
<1>1. /\ trs' \in [Flow -> Tx \cup {NoTx}] /\ pos' \in [Flow -> Nat]
      /\ end' \in [Flow -> Nat]
      /\ pc' \in [Flow -> {"idle", "receive", "next", "read", "hold", "push",
                           "undo", "undoing", "apply"}]
      /\ \A g \in Flow : g # f =>
           pc'[g] = pc[g] /\ trs'[g] = trs[g] /\ pos'[g] = pos[g] /\ end'[g] = end[g]
      /\ pc'[f] \in {"undo", "undoing", "apply"}
      /\ pc'[f] = "undoing" => trs'[f] \in Tx
      /\ pc'[f] # "apply" => pos'[f] # 0 /\ end'[f] <= Len(array)
  BY <1>0, LookAtType, Zenon
<1>2. BlockHeld'
  <2>1. CASE f = "task"
    BY <2>1 DEF BlockHeld
  <2>2. CASE f # "task"
    <3>1. pc'["task"] = pc["task"] /\ block' = block
      BY <1>1, <2>2 DEF Flow
    <3> QED BY <1>0, <3>1 DEF BlockHeld
  <2> QED BY <2>1, <2>2
<1>3. UndoInArray'
  <2> SUFFICES ASSUME NEW g \in Flow, pc'[g] \in {"undo", "undoing"}
               PROVE  pos'[g] # 0 /\ end'[g] <= Len(array')
    BY DEF UndoInArray
  <2>1. end'[g] \in Nat
    BY <1>1
  <2>2. CASE g = f
    BY <1>0, <1>1, <2>1, <2>2
  <2>3. CASE g # f
    <3>1. pc'[g] = pc[g] /\ pos'[g] = pos[g] /\ end'[g] = end[g]
      BY <1>1, <2>3
    <3> QED BY <1>0, <2>1, <3>1 DEF UndoInArray
  <2> QED BY <2>2, <2>3
<1>4. TypeOK'
  BY <1>0, <1>1, <1>2 DEF TypeOK, BlockHeld
<1> QED BY <1>2, <1>3, <1>4 DEF Rest

\* A flow waits elsewhere, with what it has.
LEMMA GotoRest ==
  ASSUME IInv, [Next]_vars, NEW f \in Flow,
         NEW w \in {"hold", "push", "next", "undo", "receive"}, pc' = [pc EXCEPT ![f] = w],
         w \in {"hold", "push"} => trs[f] \in Tx, w = "undo" => pc[f] = "undoing",
         u_balance' \in [Account -> Int], sender' \in [Flow -> Int],
         list' \in [Flow -> Seq(Tx)], invalidIds' \subseteq Tx, confirmed' \subseteq Tx,
         UNCHANGED <<trs, block, end, pos, blocks, syncs>>
  PROVE  Rest'
<1>0. /\ TypeOK /\ UndoInArray /\ BlockHeld
      /\ array' \in Seq(Tx \cup {NoTx}) /\ idIndex' \in [Tx -> Nat] /\ number' \in Int
      /\ Len(array') >= Len(array) /\ Len(array) \in Nat /\ Len(array') \in Nat
  BY PoolTypes
<1>1. /\ \A g \in Flow : pc'[g] = IF g = f THEN w ELSE pc[g]
      /\ pc' \in [Flow -> {"idle", "receive", "next", "read", "hold", "push",
                           "undo", "undoing", "apply"}]
  BY <1>0 DEF TypeOK
<1>2. BlockHeld'
  BY <1>0, <1>1 DEF BlockHeld, Flow
<1>3. UndoInArray'
  <2> SUFFICES ASSUME NEW g \in Flow, pc'[g] \in {"undo", "undoing"}
               PROVE  pos'[g] # 0 /\ end'[g] <= Len(array')
    BY DEF UndoInArray
  <2>1. pc[g] \in {"undo", "undoing"}
    BY <1>1
  <2>2. pos'[g] = pos[g] /\ end'[g] = end[g] /\ end[g] \in Nat
    BY <1>0 DEF TypeOK
  <2> QED BY <1>0, <2>1, <2>2 DEF UndoInArray
<1>4. TypeOK'
  BY <1>0, <1>1, <1>2 DEF TypeOK, BlockHeld
<1> QED BY <1>2, <1>3, <1>4 DEF Rest

\* No flow moves.
LEMMA FlowsRest ==
  ASSUME IInv, [Next]_vars, UNCHANGED <<flowVars, block, invalidIds, syncs>>,
         u_balance' \in [Account -> Int], confirmed' \subseteq Tx, blocks' \in Nat
  PROVE  Rest'
<1>0. /\ TypeOK /\ UndoInArray /\ BlockHeld
      /\ array' \in Seq(Tx \cup {NoTx}) /\ idIndex' \in [Tx -> Nat] /\ number' \in Int
      /\ Len(array') >= Len(array) /\ Len(array) \in Nat /\ Len(array') \in Nat
  BY PoolTypes
<1>1. UndoInArray'
  <2> SUFFICES ASSUME NEW g \in Flow, pc'[g] \in {"undo", "undoing"}
               PROVE  pos'[g] # 0 /\ end'[g] <= Len(array')
    BY DEF UndoInArray
  <2>1. pc' = pc /\ pos' = pos /\ end' = end /\ end[g] \in Nat
    BY <1>0 DEF TypeOK, flowVars
  <2> QED BY <1>0, <2>1 DEF UndoInArray
<1>2. TypeOK' /\ BlockHeld'
  BY <1>0 DEF TypeOK, BlockHeld, flowVars
<1> QED BY <1>1, <1>2 DEF Rest

\* Every step keeps the types, where a flow undoes, and the block.
LEMMA RestStep ==
  ASSUME IInv, [Next]_vars
  PROVE  Rest'
<1>0. TypeOK /\ UndoInArray /\ BlockHeld
  BY DEF IInv
<1>1. /\ <<>> \in Seq(Tx) /\ list \in [Flow -> Seq(Tx)] /\ sender \in [Flow -> Int]
      /\ u_balance \in [Account -> Int] /\ confirmed \subseteq Tx /\ invalidIds \subseteq Tx
      /\ blocks \in Nat /\ syncs \in Nat /\ block \in Tx \cup {NoTx}
      /\ "task" \in Flow /\ "sync" \in Flow
  BY <1>0 DEF TypeOK, Flow
<1>2. \A t \in Tx : Sender[t] \in Account /\ Cost[t] \in Nat
  BY ConstantsAssumption
<1>3. CASE UNCHANGED vars
  BY <1>0, <1>1, <1>3, FlowsRest DEF vars
<1>4. ASSUME NEW f \in Flow, Read(f) PROVE Rest'
  <2>1. pc[f] = "read" /\ trs[f] \in Tx
    BY <1>0, <1>4 DEF Read, TypeOK
  <2>2. CASE trs[f] \in confirmed
    <3>1. /\ Proceed(f, <<>>)
          /\ UNCHANGED <<sender, invalidIds, u_balance, confirmed, end, pos, blocks, syncs>>
      BY <1>4, <2>2 DEF Read
    <3> QED BY <1>1, <3>1, ProceedRest
  <2>3. CASE trs[f] \notin confirmed
    <3>1. /\ pc' = [pc EXCEPT ![f] = "hold"]
          /\ sender' = [sender EXCEPT ![f] = u_balance[Sender[trs[f]]]]
          /\ UNCHANGED <<invalidIds, u_balance, confirmed, list, trs, block, end, pos,
                         blocks, syncs>>
      BY <1>4, <2>3 DEF Read, Goto
    <3>2. sender' \in [Flow -> Int]
      BY <1>1, <1>2, <2>1, <3>1
    <3> QED BY <1>1, <2>1, <3>1, <3>2, GotoRest
  <2> QED BY <2>2, <2>3
<1>5. ASSUME NEW f \in Flow, Hold(f) PROVE Rest'
  <2>1. /\ pc[f] = "hold" /\ trs[f] \in Tx /\ sender' \in [Flow -> Int]
        /\ UNCHANGED <<invalidIds, confirmed, end, pos, blocks, syncs>>
    BY <1>0, <1>1, <1>5 DEF Hold, TypeOK
  <2>2. CASE IsAffordable(trs[f], sender[f])
    <3>1. /\ u_balance' = [u_balance EXCEPT ![Sender[trs[f]]] = @ - Cost[trs[f]]]
          /\ pc' = [pc EXCEPT ![f] = "push"]
          /\ UNCHANGED <<list, trs, block>>
      BY <1>5, <2>2 DEF Hold, Goto
    <3>2. u_balance' \in [Account -> Int]
      BY <1>1, <1>2, <2>1, <3>1
    <3> QED BY <1>1, <2>1, <3>1, <3>2, GotoRest
  <2>3. CASE ~IsAffordable(trs[f], sender[f])
    <3>1. Proceed(f, <<>>) /\ UNCHANGED u_balance
      BY <1>5, <2>3 DEF Hold
    <3> QED BY <1>1, <2>1, <3>1, ProceedRest
  <2> QED BY <2>2, <2>3
<1>6. ASSUME NEW f \in Flow, Push(f) PROVE Rest'
  <2>1. /\ pc' = [pc EXCEPT ![f] = "next"]
        /\ UNCHANGED <<invalidIds, u_balance, confirmed, list, end, pos, trs, sender,
                       block, blocks, syncs>>
    BY <1>6 DEF Push, Goto
  <2> QED BY <1>1, <2>1, GotoRest
<1>7. ASSUME NEW f \in Flow, Continue(f) PROVE Rest'
  <2>1. /\ Proceed(f, list[f]) /\ list[f] \in Seq(Tx)
        /\ UNCHANGED <<sender, invalidIds, u_balance, confirmed, end, pos, blocks, syncs>>
    BY <1>1, <1>7 DEF Continue
  <2> QED BY <1>1, <2>1, ProceedRest
<1>8. ASSUME NEW f \in Flow, UndoNext(f) PROVE Rest'
  <2>1. /\ pc[f] = "undo" /\ LookAt(f, pos[f], end[f])
        /\ UNCHANGED <<invalidIds, u_balance, confirmed, list, sender, block, blocks, syncs>>
    BY <1>8 DEF UndoNext
  <2>2. pos[f] \in Nat /\ end[f] \in Nat /\ pos[f] # 0 /\ end[f] <= Len(array)
    BY <1>0, <2>1 DEF TypeOK, UndoInArray
  <2>3. IF f = "task" THEN block' \in Tx ELSE block' = block
    BY <1>0, <2>1 DEF BlockHeld
  <2> QED BY <1>1, <2>1, <2>2, <2>3, LookAtRest
<1>9. ASSUME NEW f \in Flow, UndoOne(f) PROVE Rest'
  <2>1. /\ pc[f] = "undoing" /\ trs[f] \in Tx /\ pc' = [pc EXCEPT ![f] = "undo"]
        /\ u_balance' = [u_balance EXCEPT ![Sender[trs[f]]] = @ + Cost[trs[f]]]
        /\ UNCHANGED <<invalidIds, confirmed, list, end, pos, trs, sender, block,
                       blocks, syncs>>
    BY <1>0, <1>9 DEF UndoOne, Goto, TypeOK
  <2>2. u_balance' \in [Account -> Int]
    BY <1>1, <1>2, <2>1
  <2> QED BY <1>1, <2>1, <2>2, GotoRest
<1>10. ASSUME NEW t \in Tx, StartReceive(t) PROVE Rest'
  <2>1. /\ ReceiveTransactions("task", <<t>>) /\ <<t>> \in Seq(Tx)
        /\ UNCHANGED <<sender, invalidIds, u_balance, confirmed, end, pos, blocks, syncs>>
    BY <1>10 DEF StartReceive
  <2>2. PICK l \in Seq(Tx) : Proceed("task", l)
    BY <1>0, <1>1, <2>1, ReceiveType
  <2> QED BY <1>1, <2>1, <2>2, ProceedRest
<1>11. ASSUME NEW t \in Tx, StartBlock(t) PROVE Rest'
  <2>1. /\ StartUndo("task") /\ block' = t /\ blocks' = blocks + 1
        /\ UNCHANGED <<invalidIds, u_balance, confirmed, sender, syncs>>
    BY <1>11 DEF StartBlock
  <2>2. /\ LookAt("task", 1, Len(array)) /\ Len(array) \in Nat /\ Len(array) <= Len(array)
        /\ list' \in [Flow -> Seq(Tx)]
    BY <1>0, <1>1, <2>1, StartUndoType
  <2> QED BY <1>1, <2>1, <2>2, LookAtRest
<1>12. ASSUME NEW t \in Tx, RefuseBlock(t) \/ Drop(t) PROVE Rest'
  <2>1. /\ UNCHANGED <<flowVars, block, invalidIds, syncs, u_balance, confirmed>>
        /\ blocks' \in Nat
    BY <1>1, <1>12 DEF RefuseBlock, Drop
  <2> QED BY <1>1, <2>1, FlowsRest
<1>13. ASSUME NEW t \in Tx, PopBlock(t) PROVE Rest'
  <2>1. /\ UNCHANGED <<flowVars, block, invalidIds, syncs, blocks>>
        /\ confirmed' = confirmed \ {t}
        /\ u_balance' = [u_balance EXCEPT ![Sender[t]] = @ + Cost[t]]
    BY <1>13 DEF PopBlock
  <2>2. u_balance' \in [Account -> Int] /\ confirmed' \subseteq Tx
    BY <1>1, <1>2, <2>1
  <2> QED BY <1>1, <2>1, <2>2, FlowsRest
<1>14. CASE BlockApplied
  <2>1. /\ block \in Tx /\ pc' = [pc EXCEPT !["task"] = "receive"]
        /\ UNCHANGED <<end, pos, trs, sender, block, blocks, syncs>>
    BY <1>0, <1>14 DEF BlockApplied, Goto, BlockHeld
  <2>2. CASE IsAffordable(block, u_balance[Sender[block]])
    <3>1. /\ u_balance' = [u_balance EXCEPT ![Sender[block]] = @ - Cost[block]]
          /\ confirmed' = confirmed \cup {block}
          /\ list' = [list EXCEPT !["task"] = Without(@, {block})]
          /\ UNCHANGED invalidIds
      BY <1>14, <2>2 DEF BlockApplied
    <3>2. Without(list["task"], {block}) \in Seq(Tx)
      <4>1. Without(list["task"], {block}) \in Seq(Tx \ {block})
        BY <1>1, WithoutIs
      <4> QED BY <4>1
    <3>3. /\ u_balance' \in [Account -> Int] /\ confirmed' \subseteq Tx
          /\ list' \in [Flow -> Seq(Tx)]
      BY <1>1, <1>2, <2>1, <3>1, <3>2
    <3> QED BY <1>1, <2>1, <3>1, <3>3, GotoRest
  <2>3. CASE ~IsAffordable(block, u_balance[Sender[block]])
    <3>1. invalidIds' = invalidIds \cup {block} /\ UNCHANGED <<u_balance, confirmed, list>>
      BY <1>14, <2>3 DEF BlockApplied
    <3> QED BY <1>1, <2>1, <3>1, GotoRest
  <2> QED BY <2>2, <2>3
<1>15. CASE Redo \/ EndDownload
  <2>1. PICK f \in Flow : ReceiveTransactions(f, list[f])
    BY <1>1, <1>15 DEF Redo, EndDownload
  <2>2. PICK l \in Seq(Tx) : Proceed(f, l)
    BY <1>0, <1>1, <2>1, ReceiveType
  <2>3. UNCHANGED <<sender, invalidIds, u_balance, confirmed, end, pos, blocks, syncs>>
    BY <1>15 DEF Redo, EndDownload
  <2> QED BY <1>1, <2>2, <2>3, ProceedRest
<1>16. CASE StartSync
  <2>1. /\ StartUndo("sync") /\ syncs' = syncs + 1
        /\ UNCHANGED <<invalidIds, u_balance, confirmed, sender, block, blocks>>
    BY <1>16 DEF StartSync
  <2>2. /\ LookAt("sync", 1, Len(array)) /\ Len(array) \in Nat /\ Len(array) <= Len(array)
        /\ list' \in [Flow -> Seq(Tx)]
    BY <1>0, <1>1, <2>1, StartUndoType
  <2>3. /\ block' \in Tx \cup {NoTx} /\ syncs' \in Nat /\ blocks' \in Nat
        /\ IF "sync" = "task" THEN block' \in Tx ELSE block' = block
    BY <1>1, <2>1
  <2>4. 1 \in Nat /\ 1 # 0
    OBVIOUS
  <2> QED BY <1>1, <2>1, <2>2, <2>3, <2>4, LookAtRest, Zenon
<1> QED BY <1>3, <1>4, <1>5, <1>6, <1>7, <1>8, <1>9, <1>10, <1>11, <1>12, <1>13, <1>14,
          <1>15, <1>16 DEF Next

\* Only the task can be on the way before the first synchronisation.
LEMMA AllFoundStep ==
  ASSUME IInv, [Next]_vars, syncs = 0
  PROVE  AllFound'
<1>0. TypeOK /\ BlockHeld /\ IndexHolds /\ TaskAlone
  BY DEF IInv
<1>1. /\ pc["sync"] = "idle" /\ AllFound
      /\ pc["task"] \in {"read", "hold", "push"} => idIndex[trs["task"]] = 0
  BY <1>0 DEF TaskAlone
<1>2. CASE UNCHANGED poolVars
  BY <1>1, <1>2 DEF poolVars, AllFound, Live
<1>3. ASSUME NEW t \in Tx, RemoveUnconfirmed(t) PROVE AllFound'
  BY <1>0, <1>1, <1>3, Removed
<1>4. ASSUME NEW f \in Flow, pc[f] = "push", trs[f] \in Tx, AddUnconfirmed(trs[f])
      PROVE  AllFound'
  <2>1. f = "task" /\ idIndex[trs[f]] = 0
    BY <1>1, <1>4 DEF Flow
  <2> QED BY <1>0, <1>1, <1>4, <2>1, Added
<1> QED BY <1>0, <1>2, <1>3, <1>4, PoolSteps

\* What is removed is not in the index, and nothing else comes into it.
LEMMA OutOfIndex ==
  ASSUME IInv, [Next]_vars, NEW t \in Tx, idIndex[t] = 0,
         UNCHANGED poolVars \/ \E u \in Tx : RemoveUnconfirmed(u)
  PROVE  idIndex'[t] = 0
<1>1. TypeOK /\ IndexHolds
  BY DEF IInv
<1>2. ASSUME NEW u \in Tx, RemoveUnconfirmed(u) PROVE idIndex'[t] = 0
  BY <1>1, <1>2, Removed
<1> QED BY <1>2 DEF poolVars

\* The task that goes on has looked up what it takes.
LEMMA ProceedAlone ==
  ASSUME IInv, [Next]_vars, syncs = 0, syncs' = 0, NEW l \in Seq(Tx), Proceed("task", l),
         UNCHANGED poolVars \/ \E u \in Tx : RemoveUnconfirmed(u),
         UNCHANGED u_balance
  PROVE  TaskAlone'
<1>0. /\ TypeOK /\ BlockHeld /\ "task" \in Flow /\ "sync" \in Flow
      /\ pc["sync"] = "idle" /\ \A a \in Account : u_balance[a] >= 0
  BY DEF IInv, TaskAlone, Flow
<1>1. /\ \A g \in Flow : g # "task" => pc'[g] = pc[g] /\ trs'[g] = trs[g]
      /\ \/ pc'["task"] = "idle"
         \/ pc'["task"] = "read" /\ trs'["task"] \in Tx /\ idIndex[trs'["task"]] = 0
  BY <1>0, ProceedType, Zenon
<1>2. pc'["task"] = "read" => idIndex'[trs'["task"]] = 0
  BY <1>1, OutOfIndex
<1>3. pc'["sync"] = "idle"
  BY <1>0, <1>1
<1>4. AllFound'
  BY AllFoundStep
<1> QED BY <1>0, <1>1, <1>2, <1>3, <1>4 DEF TaskAlone

\* Every step keeps what is so before the first synchronisation.
LEMMA TaskAloneStep ==
  ASSUME IInv, [Next]_vars
  PROVE  TaskAlone'
<1> SUFFICES ASSUME syncs' = 0 PROVE TaskAlone'
  BY DEF TaskAlone
<1>0. TypeOK /\ BlockHeld /\ TaskAlone /\ "task" \in Flow /\ "sync" \in Flow
  BY DEF IInv, Flow
<1>1. /\ syncs \in Nat /\ <<>> \in Seq(Tx) /\ list \in [Flow -> Seq(Tx)]
      /\ pc \in [Flow -> {"idle", "receive", "next", "read", "hold", "push",
                          "undo", "undoing", "apply"}]
      /\ trs \in [Flow -> Tx \cup {NoTx}] /\ sender \in [Flow -> Int]
      /\ u_balance \in [Account -> Int]
  BY <1>0 DEF TypeOK
<1>2. \A t \in Tx : Sender[t] \in Account /\ Cost[t] \in Nat
  BY ConstantsAssumption
<1>3. syncs = 0
  <2>1. syncs' = syncs \/ syncs' = syncs + 1
    BY DEF Next, vars, Read, Hold, Push, Continue, UndoNext, UndoOne, StartReceive,
           StartBlock, RefuseBlock, Drop, PopBlock, BlockApplied, Redo, StartSync,
           EndDownload
  <2> QED BY <1>1, <2>1
<1>4. /\ pc["sync"] = "idle"
      /\ pc["task"] \in {"read", "hold", "push"} => idIndex[trs["task"]] = 0
      /\ pc["task"] = "hold" => sender["task"] = u_balance[Sender[trs["task"]]]
      /\ \A a \in Account : u_balance[a] >= 0
  BY <1>0, <1>3 DEF TaskAlone
<1>5. AllFound'
  BY <1>3, AllFoundStep
<1>6. \A f \in Flow : pc[f] # "idle" => f = "task"
  BY <1>4 DEF Flow
<1>7. pc["task"] \in {"read", "hold", "push"} => trs["task"] \in Tx
  BY <1>0 DEF TypeOK
\* The task waits for what is not the database's answer to a receipt.
<1>8. ASSUME pc'["sync"] = "idle", pc'["task"] \notin {"read", "hold", "push"},
             \A a \in Account : u_balance'[a] >= 0
      PROVE  TaskAlone'
  BY <1>5, <1>8 DEF TaskAlone
\* Nothing that the task is about changes.
<1>9. ASSUME UNCHANGED <<pc, trs, sender, u_balance>>,
             UNCHANGED poolVars \/ \E u \in Tx : RemoveUnconfirmed(u)
      PROVE  TaskAlone'
  <2>1. pc["task"] \in {"read", "hold", "push"} => idIndex'[trs["task"]] = 0
    BY <1>4, <1>7, <1>9, OutOfIndex
  <2> QED BY <1>4, <1>5, <1>9, <2>1 DEF TaskAlone
<1>10. CASE UNCHANGED vars
  BY <1>9, <1>10 DEF vars, flowVars
<1>11. ASSUME NEW f \in Flow, Read(f) PROVE TaskAlone'
  <2>1. pc[f] = "read" /\ f = "task" /\ UNCHANGED <<poolVars, u_balance>>
    BY <1>6, <1>11 DEF Read
  <2>2. CASE trs["task"] \in confirmed
    <3>1. Proceed("task", <<>>)
      BY <1>11, <2>1, <2>2 DEF Read
    <3> QED BY <1>1, <1>3, <2>1, <3>1, ProceedAlone
  <2>3. CASE trs["task"] \notin confirmed
    <3>1. /\ pc' = [pc EXCEPT !["task"] = "hold"] /\ UNCHANGED trs
          /\ sender' = [sender EXCEPT !["task"] = u_balance[Sender[trs["task"]]]]
      BY <1>11, <2>1, <2>3 DEF Read, Goto
    <3>2. pc'["sync"] = "idle" /\ pc'["task"] = "hold"
          /\ sender'["task"] = u_balance'[Sender[trs'["task"]]]
      BY <1>0, <1>1, <1>4, <2>1, <3>1
    <3>3. idIndex'[trs'["task"]] = 0
      BY <1>4, <2>1, <3>1 DEF poolVars
    <3> QED BY <1>4, <1>5, <2>1, <3>2, <3>3 DEF TaskAlone
  <2> QED BY <2>2, <2>3
<1>12. ASSUME NEW f \in Flow, Hold(f) PROVE TaskAlone'
  <2>1. pc[f] = "hold" /\ f = "task" /\ trs["task"] \in Tx
    BY <1>6, <1>7, <1>12 DEF Hold
  <2>2. CASE IsAffordable(trs["task"], sender["task"])
    <3>1. /\ u_balance' = [u_balance EXCEPT ![Sender[trs["task"]]] = @ - Cost[trs["task"]]]
          /\ pc' = [pc EXCEPT !["task"] = "push"] /\ UNCHANGED <<poolVars, trs>>
      BY <1>12, <2>1, <2>2 DEF Hold, Goto
    <3>2. Cost[trs["task"]] <= u_balance[Sender[trs["task"]]]
      BY <1>4, <2>1, <2>2 DEF IsAffordable
    <3>3. \A a \in Account : u_balance'[a] >= 0
      <4> SUFFICES ASSUME NEW a \in Account PROVE u_balance'[a] >= 0
        OBVIOUS
      <4>1. CASE a = Sender[trs["task"]]
        <5>1. u_balance'[a] = u_balance[a] - Cost[trs["task"]]
              /\ u_balance[a] \in Int /\ Cost[trs["task"]] \in Int
          BY <1>1, <1>2, <2>1, <3>1, <4>1
        <5> QED BY <3>2, <4>1, <5>1
      <4>2. CASE a # Sender[trs["task"]]
        <5>1. u_balance'[a] = u_balance[a]
          BY <1>1, <3>1, <4>2
        <5> QED BY <1>4, <5>1
      <4> QED BY <4>1, <4>2
    <3>4. pc'["sync"] = "idle" /\ pc'["task"] = "push" /\ idIndex'[trs'["task"]] = 0
      BY <1>0, <1>1, <1>4, <2>1, <3>1 DEF poolVars
    <3> QED BY <1>5, <3>3, <3>4 DEF TaskAlone
  <2>3. CASE ~IsAffordable(trs["task"], sender["task"])
    <3>1. Proceed("task", <<>>) /\ RemoveUnconfirmed(trs["task"]) /\ UNCHANGED u_balance
      BY <1>12, <2>1, <2>3 DEF Hold
    <3> QED BY <1>1, <1>3, <2>1, <3>1, ProceedAlone
  <2> QED BY <2>2, <2>3
<1>13. ASSUME NEW f \in Flow, Push(f) PROVE TaskAlone'
  <2>1. f = "task" /\ pc' = [pc EXCEPT !["task"] = "next"] /\ UNCHANGED u_balance
    BY <1>6, <1>13 DEF Push, Goto
  <2>2. pc'["sync"] = "idle" /\ pc'["task"] = "next"
    BY <1>0, <1>1, <1>4, <2>1
  <2> QED BY <1>4, <1>8, <2>1, <2>2
<1>14. ASSUME NEW f \in Flow, Continue(f) PROVE TaskAlone'
  <2>1. f = "task" /\ Proceed("task", list["task"]) /\ UNCHANGED <<poolVars, u_balance>>
    BY <1>6, <1>14 DEF Continue
  <2> QED BY <1>0, <1>1, <1>3, <2>1, ProceedAlone
<1>15. ASSUME NEW f \in Flow, NEW i, NEW n, f = "task", LookAt(f, i, n), UNCHANGED u_balance
       PROVE  TaskAlone'
  <2>1. PICK w \in {"undo", "undoing", "apply"} : pc' = [pc EXCEPT !["task"] = w]
    BY <1>15 DEF LookAt, Goto
  <2>2. pc'["sync"] = "idle" /\ pc'["task"] \in {"undo", "undoing", "apply"}
    BY <1>0, <1>1, <1>4, <2>1
  <2> QED BY <1>4, <1>8, <1>15, <2>2
<1>16. ASSUME NEW f \in Flow, UndoNext(f) PROVE TaskAlone'
  <2>1. f = "task" /\ LookAt(f, pos[f], end[f]) /\ UNCHANGED u_balance
    BY <1>6, <1>16 DEF UndoNext
  <2> QED BY <1>15, <2>1
<1>17. ASSUME NEW f \in Flow, UndoOne(f) PROVE TaskAlone'
  <2>1. /\ pc[f] = "undoing" /\ f = "task" /\ pc' = [pc EXCEPT !["task"] = "undo"]
        /\ u_balance' = [u_balance EXCEPT ![Sender[trs[f]]] = @ + Cost[trs[f]]]
    BY <1>6, <1>17 DEF UndoOne, Goto
  <2>2. trs[f] \in Tx
    BY <1>0, <2>1 DEF TypeOK
  <2>3. \A a \in Account : u_balance'[a] >= 0
    BY <1>1, <1>2, <1>4, <2>1, <2>2
  <2>4. pc'["sync"] = "idle" /\ pc'["task"] = "undo"
    BY <1>0, <1>1, <1>4, <2>1
  <2> QED BY <1>8, <2>3, <2>4
<1>18. ASSUME NEW t \in Tx, StartReceive(t) PROVE TaskAlone'
  <2>1. /\ ReceiveTransactions("task", <<t>>) /\ <<t>> \in Seq(Tx)
        /\ UNCHANGED <<poolVars, u_balance>>
    BY <1>18 DEF StartReceive
  <2>2. PICK l \in Seq(Tx) : Proceed("task", l)
    BY <1>0, <2>1, ReceiveType
  <2> QED BY <1>3, <2>1, <2>2, ProceedAlone
<1>19. ASSUME NEW t \in Tx, StartBlock(t) PROVE TaskAlone'
  <2>1. LookAt("task", 1, Len(array)) /\ UNCHANGED u_balance
    BY <1>19 DEF StartBlock, StartUndo
  <2> QED BY <1>0, <1>15, <2>1
<1>20. ASSUME NEW t \in Tx, RefuseBlock(t) \/ Drop(t) PROVE TaskAlone'
  <2>1. UNCHANGED <<pc, trs, sender, u_balance>> /\ RemoveUnconfirmed(t)
    BY <1>20 DEF RefuseBlock, Drop, flowVars
  <2> QED BY <1>9, <2>1
<1>21. \A t \in Tx : ~PopBlock(t)
  BY <1>4 DEF PopBlock
<1>22. CASE BlockApplied
  <2>1. /\ pc["task"] = "apply" /\ pc' = [pc EXCEPT !["task"] = "receive"]
        /\ block \in Tx
    BY <1>0, <1>22 DEF BlockApplied, Goto, BlockHeld
  <2>2. \A a \in Account : u_balance'[a] >= 0
    <3>1. CASE IsAffordable(block, u_balance[Sender[block]])
      <4>1. u_balance' = [u_balance EXCEPT ![Sender[block]] = @ - Cost[block]]
            /\ Cost[block] <= u_balance[Sender[block]]
        BY <1>22, <3>1 DEF BlockApplied, IsAffordable
      <4> QED BY <1>1, <1>2, <1>4, <2>1, <4>1
    <3>2. CASE ~IsAffordable(block, u_balance[Sender[block]])
      BY <1>4, <1>22, <3>2 DEF BlockApplied
    <3> QED BY <3>1, <3>2
  <2>3. pc'["sync"] = "idle" /\ pc'["task"] = "receive"
    BY <1>0, <1>1, <1>4, <2>1
  <2> QED BY <1>8, <2>2, <2>3
<1>23. CASE Redo
  <2>1. ReceiveTransactions("task", list["task"]) /\ UNCHANGED <<poolVars, u_balance>>
    BY <1>23 DEF Redo
  <2>2. PICK l \in Seq(Tx) : Proceed("task", l)
    BY <1>0, <1>1, <2>1, ReceiveType
  <2> QED BY <1>3, <2>1, <2>2, ProceedAlone
<1>24. ~StartSync
  BY <1>1, <1>3 DEF StartSync
<1>25. ~EndDownload
  BY <1>4 DEF EndDownload
<1> QED BY <1>10, <1>11, <1>12, <1>13, <1>14, <1>16, <1>17, <1>18, <1>19, <1>20, <1>21,
          <1>22, <1>23, <1>24, <1>25 DEF Next

\* At first the pool is empty.
LEMMA InitInv ==
  ASSUME Init PROVE IInv
<1>1. /\ <<>> \in Seq(Tx \cup {NoTx}) /\ <<>> \in Seq(Tx) /\ Live = {} /\ DOMAIN array = {}
  BY DEF Init, Live
<1>2. Funds \in [Account -> Nat]
  BY ConstantsAssumption
<1>3. TypeOK
  <2>1. /\ array \in Seq(Tx \cup {NoTx}) /\ idIndex \in [Tx -> Nat] /\ number \in Int
        /\ invalidIds \subseteq Tx /\ confirmed \subseteq Tx /\ u_balance \in [Account -> Int]
    BY <1>1, <1>2 DEF Init
  <2>2. /\ list \in [Flow -> Seq(Tx)] /\ end \in [Flow -> Nat] /\ pos \in [Flow -> Nat]
        /\ trs \in [Flow -> Tx \cup {NoTx}] /\ sender \in [Flow -> Int]
    BY <1>1 DEF Init
  <2>3. /\ pc \in [Flow -> {"idle", "receive", "next", "read", "hold", "push",
                            "undo", "undoing", "apply"}]
        /\ \A f \in Flow : pc[f] = "idle"
    BY DEF Init
  <2>4. block \in Tx \cup {NoTx} /\ blocks \in Nat /\ syncs \in Nat /\ "task" \in Flow
    BY DEF Init, Flow
  <2> QED BY <2>1, <2>2, <2>3, <2>4 DEF TypeOK
<1>4. UndoInArray /\ BlockHeld /\ IndexHolds
  BY DEF Init, UndoInArray, BlockHeld, IndexHolds, Flow
<1>5. CountNeverHigh
  BY <1>1, FS_EmptySet DEF Init, CountNeverHigh
<1>6. TaskAlone
  BY <1>1, <1>2 DEF Init, TaskAlone, AllFound, Flow
<1> QED BY <1>3, <1>4, <1>5, <1>6 DEF IInv

-----------------------------------------------------------------------------
(* The theorems *)

\* The invariant of the pool, whatever the two flows do between their database calls.
THEOREM Inductive == Spec => []IInv
<1>1. Init => IInv
  BY InitInv
<1>2. IInv /\ [Next]_vars => IInv'
  BY PoolStep, RestStep, TaskAloneStep DEF IInv, Rest
<1> QED BY <1>1, <1>2, PTL DEF Spec

\* unconfirmedTransactionsIdIndex never points to a hole or to another transaction,
\* and has all that is in the array until the first synchronisation.
THEOREM SoundIndex == Spec => []IndexSound
<1>1. IInv => IndexSound
  BY DEF IInv, IndexHolds, TaskAlone, AllFound, IndexSound
<1> QED BY <1>1, Inductive, PTL

\* unconfirmedNumber is never above the number of transactions in the pool.
THEOREM CounterBelow == Spec => []CountNeverHigh
<1>1. IInv => CountNeverHigh
  BY DEF IInv
<1> QED BY <1>1, Inductive, PTL

\* Until the first synchronisation no account has more on hold than it owns, though
\* applyUnconfirmed compares a balance that was read before.
THEOREM NothingOverdrawn == Spec => []NoOverdraft
<1>1. IInv => NoOverdraft
  BY DEF IInv, TaskAlone, NoOverdraft
<1> QED BY <1>1, Inductive, PTL

-----------------------------------------------------------------------------
(* The undo log *)

HasValueEntry(l, k) == \E i \in DOMAIN l : IsValueOf(l, i, k)
OldestExists == \A k \in Slot : HasValueEntry(log, k) => \E i \in DOMAIN log : IsOldest(log, i, k)

\* The inductive invariant.
LogInv == TmdbTypeOK /\ OldestExists /\ LogUndoable

-----------------------------------------------------------------------------
(* What the log says *)

\* The value of the oldest entry of a slot is what a rollback restores
\* (RestoredValue chooses an oldest entry, and there is only one).
LEMMA OldestRestores ==
  ASSUME NEW l \in Seq(Entry), NEW m, NEW k \in Slot, NEW i \in DOMAIN l, IsOldest(l, i, k)
  PROVE  RestoredValue(l, m, k) = l[i].old
<1> DEFINE o == CHOOSE j \in DOMAIN l : IsOldest(l, j, k)
<1>1. o \in DOMAIN l /\ IsOldest(l, o, k)
  OBVIOUS
<1>2. DOMAIN l = 1 .. Len(l) /\ Len(l) \in Nat
  OBVIOUS
<1>3. o = i
  <2> HIDE DEF o
  <2> QED
    BY <1>1, <1>2 DEF IsOldest
<1>4. \E j \in DOMAIN l : IsValueOf(l, j, k)
  BY DEF IsOldest
<1> QED
  BY <1>3, <1>4 DEF RestoredValue

\* A slot without an entry is left as it is.
LEMMA NothingRestored ==
  ASSUME NEW l, NEW m, NEW k \in Slot, ~HasValueEntry(l, k)
  PROVE  RestoredValue(l, m, k) = m[k]
BY DEF RestoredValue, HasValueEntry

-----------------------------------------------------------------------------
(* What a step does to the log *)

\* set leaves the entries there are, and adds one or two.
LEMMA SetLog ==
  ASSUME TmdbTypeOK, NEW a \in Address, NEW c \in Currency, NEW v \in Value, Set(a, c, v)
  PROVE  LET n == Len(log)
             m == Len(log')
         IN  /\ log' \in Seq(Entry)
             /\ n \in Nat /\ m \in Nat
             /\ DOMAIN log = 1 .. n /\ DOMAIN log' = 1 .. m
             /\ \A j \in 1 .. n : log'[j] = log[j]
             /\ log'[m] = SetValue(a, c, map[<<a, c>>])
             /\ a \in outer => m = n + 1
             /\ a \notin outer => m = n + 2 /\ log'[n + 1] = AddPath(a)
<1> DEFINE e == SetValue(a, c, map[<<a, c>>])
<1>1. log \in Seq(Entry)
  BY DEF TmdbTypeOK
<1>2. e \in Entry /\ AddPath(a) \in Entry
  BY DEF TmdbTypeOK, SetValue, AddPath, Entry, Slot
<1>3. CASE a \in outer
  <2>1. log' = log \o <<e>>
    BY <1>3 DEF Set, NewEntries
  <2> HIDE DEF e
  <2> QED
    BY <1>1, <1>2, <1>3, <2>1 DEF e
<1>4. CASE a \notin outer
  <2>1. log' = log \o <<AddPath(a), e>>
    BY <1>4 DEF Set, NewEntries
  <2> DEFINE p == AddPath(a)
  <2>2. log' = log \o <<p, e>> /\ p \in Entry
    BY <2>1, <1>2
  <2> HIDE DEF e, p
  <2>3. /\ log' \in Seq(Entry)
        /\ Len(log') = Len(log) + 2
        /\ \A j \in 1 .. Len(log) : log'[j] = log[j]
        /\ log'[Len(log) + 1] = p
        /\ log'[Len(log) + 2] = e
    BY <1>1, <1>2, <2>2
  <2> QED
    BY <1>1, <1>4, <2>3 DEF e, p
<1> QED
  BY <1>3, <1>4

\* A round of rollback takes the last entry off the log.
LEMMA UndoLog ==
  ASSUME TmdbTypeOK, Undo
  PROVE  LET n == Len(log)
         IN  /\ log' \in Seq(Entry)
             /\ n \in Nat \ {0}
             /\ DOMAIN log = 1 .. n /\ DOMAIN log' = 1 .. n - 1
             /\ \A j \in 1 .. n - 1 : log'[j] = log[j]
             /\ log[n] \in Entry
<1>1. log \in Seq(Entry) /\ log # <<>> /\ log' = SubSeq(log, 1, Len(log) - 1)
  BY DEF TmdbTypeOK, Undo
<1> QED
  BY <1>1

-----------------------------------------------------------------------------
(* The invariant *)

\* The empty store with its empty log.
LEMMA LogInitInv == TmdbInit => LogInv
<1> SUFFICES ASSUME TmdbInit PROVE LogInv
  OBVIOUS
<1>1. TmdbTypeOK
  <2>1. map \in [Slot -> Value \cup {Unset}]
    BY DEF TmdbInit
  <2>2. log \in Seq(Entry)
    BY DEF TmdbInit
  <2> QED
    BY <2>1, <2>2 DEF TmdbInit, TmdbTypeOK
<1>2. DOMAIN log = {}
  <2>1. log = <<>>
    BY DEF TmdbInit
  <2> QED
    BY <2>1
<1>3. OldestExists
  BY <1>2 DEF OldestExists, HasValueEntry
<1>4. LogUndoable
  BY <1>1, <1>2 DEF LogUndoable, TmdbInit
<1> QED
  BY <1>1, <1>3, <1>4 DEF LogInv

\* What set does to the entries of a slot: it adds one to the slot that is set,
\* which is the oldest only if there was none.
LEMMA SetRestores ==
  ASSUME LogInv, NEW a \in Address, NEW c \in Currency, NEW v \in Value, Set(a, c, v)
  PROVE  /\ TmdbTypeOK'
         /\ OldestExists'
         /\ \A k \in Slot : RestoredValue(log', map', k) = RestoredValue(log, map, k)
<1> DEFINE n == Len(log)
           m == Len(log')
<1> USE DEF LogInv
<1>1. /\ log' \in Seq(Entry)
      /\ n \in Nat /\ m \in Nat
      /\ DOMAIN log = 1 .. n /\ DOMAIN log' = 1 .. m
      /\ \A j \in 1 .. n : log'[j] = log[j]
      /\ log'[m] = SetValue(a, c, map[<<a, c>>])
      /\ m \in {n + 1, n + 2}
      /\ \A j \in n + 1 .. m - 1 : log'[j] = AddPath(a)
  BY SetLog
<1> HIDE DEF n, m
<1>2. TmdbTypeOK'
  BY <1>1 DEF TmdbTypeOK, Set, Slot
<1>3. ASSUME NEW k \in Slot, NEW i \in DOMAIN log, IsOldest(log, i, k)
      PROVE  i \in DOMAIN log' /\ IsOldest(log', i, k) /\ log'[i] = log[i]
  BY <1>1, <1>3 DEF IsOldest, IsValueOf
<1>4. ASSUME NEW k \in Slot, ~HasValueEntry(log, k), k # <<a, c>>
      PROVE  ~HasValueEntry(log', k) /\ map'[k] = map[k]
  <2>1. k = <<k[1], k[2]>>
    BY DEF Slot
  <2>2. \A i \in DOMAIN log' : ~IsValueOf(log', i, k)
    BY <1>1, <1>4, <2>1 DEF HasValueEntry, IsValueOf, AddPath, SetValue
  <2> QED
    BY <2>2, <1>4 DEF HasValueEntry, Set, TmdbTypeOK
<1>5. ASSUME NEW k \in Slot, ~HasValueEntry(log, k), k = <<a, c>>
      PROVE  m \in DOMAIN log' /\ IsOldest(log', m, k) /\ log'[m].old = map[k]
  BY <1>1, <1>5 DEF HasValueEntry, IsOldest, IsValueOf, AddPath, SetValue
<1>6. OldestExists'
  <2> SUFFICES ASSUME NEW k \in Slot, HasValueEntry(log', k)
               PROVE  \E i \in DOMAIN log' : IsOldest(log', i, k)
    BY DEF OldestExists
  <2>1. CASE HasValueEntry(log, k)
    BY <2>1, <1>3 DEF OldestExists
  <2>2. CASE ~HasValueEntry(log, k)
    BY <2>2, <1>4, <1>5
  <2> QED
    BY <2>1, <2>2
<1>7. ASSUME NEW k \in Slot
      PROVE  RestoredValue(log', map', k) = RestoredValue(log, map, k)
  <2>1. CASE HasValueEntry(log, k)
    <3>1. PICK i \in DOMAIN log : IsOldest(log, i, k)
      BY <2>1 DEF OldestExists
    <3> QED
      BY <3>1, <1>2, <1>3, OldestRestores DEF TmdbTypeOK
  <2>2. CASE ~HasValueEntry(log, k) /\ k # <<a, c>>
    BY <2>2, <1>4, NothingRestored
  <2>3. CASE ~HasValueEntry(log, k) /\ k = <<a, c>>
    BY <2>3, <1>2, <1>5, NothingRestored, OldestRestores DEF TmdbTypeOK
  <2> QED
    BY <2>1, <2>2, <2>3
<1> QED
  BY <1>2, <1>6, <1>7

\* What set adds to the log can be undone in order.
LEMMA SetUndoable ==
  ASSUME LogInv, NEW a \in Address, NEW c \in Currency, NEW v \in Value, Set(a, c, v)
  PROVE  LogUndoable'
<1> DEFINE n == Len(log)
           m == Len(log')
<1> USE DEF LogInv
<1>1. /\ n \in Nat /\ m \in Nat
      /\ DOMAIN log = 1 .. n /\ DOMAIN log' = 1 .. m
      /\ \A j \in 1 .. n : log'[j] = log[j]
      /\ log'[m] = SetValue(a, c, map[<<a, c>>])
      /\ a \in outer => m = n + 1
      /\ a \notin outer => m = n + 2 /\ log'[n + 1] = AddPath(a)
  BY SetLog
<1>2. \A k \in Slot : RestoredValue(log', map', k) = RestoredValue(log, map, k)
  BY SetRestores
<1> HIDE DEF n, m
<1>3. outer' = outer \cup {a} /\ map' = [map EXCEPT ![<<a, c>>] = v]
  BY DEF Set
<1>4. \A i \in DOMAIN log' : log'[i].addr \in outer'
  BY <1>1, <1>3 DEF LogUndoable, AddPath, SetValue
<1>5. \A k \in Slot : k[1] \notin outer' => map'[k] = Unset
  BY <1>3 DEF LogUndoable, TmdbTypeOK, Slot
<1>6. ASSUME NEW b \in Address, NEW i \in DOMAIN log', IsPathOf(log', i, b)
      PROVE  /\ \A j \in DOMAIN log' : log'[j].addr = b /\ j # i => i < j
             /\ \A d \in Currency : RestoredValue(log', map', <<b, d>>) = Unset
  <2>1. CASE i \in 1 .. n
    <3>1. IsPathOf(log, i, b)
      BY <1>1, <1>6, <2>1 DEF IsPathOf
    <3>2. \A d \in Currency : RestoredValue(log, map, <<b, d>>) = Unset
      BY <3>1, <2>1, <1>1 DEF LogUndoable
    <3>3. \A j \in DOMAIN log' : log'[j].addr = b /\ j # i => i < j
      BY <3>1, <2>1, <1>1 DEF LogUndoable
    <3> QED
      BY <3>2, <3>3, <1>2 DEF Slot
  <2>2. CASE i \notin 1 .. n
    <3>1. a \notin outer /\ i = n + 1 /\ b = a /\ m = n + 2
      BY <1>1, <1>6, <2>2 DEF IsPathOf, AddPath, SetValue
    <3>2. \A j \in 1 .. n : log[j].addr # a
      BY <3>1, <1>1 DEF LogUndoable
    <3>3. ASSUME NEW d \in Currency
          PROVE  RestoredValue(log, map, <<b, d>>) = Unset
      <4>1. <<a, d>> \in Slot /\ ~HasValueEntry(log, <<a, d>>)
        BY <3>2, <1>1 DEF HasValueEntry, IsValueOf, Slot
      <4>2. map[<<a, d>>] = Unset
        BY <3>1, <4>1 DEF LogUndoable
      <4> QED
        BY <3>1, <4>1, <4>2, NothingRestored
    <3>4. \A j \in DOMAIN log' : log'[j].addr = b /\ j # i => i < j
      BY <3>1, <3>2, <1>1
    <3> QED
      BY <3>3, <3>4, <1>2 DEF Slot
  <2> QED
    BY <2>1, <2>2
<1>7. TmdbTypeOK'
  BY SetRestores
<1> QED
  BY <1>4, <1>5, <1>6, <1>7 DEF LogUndoable

\* A round of rollback does not change what the rollback will restore.
LEMMA UndoRestores ==
  ASSUME LogInv, Undo
  PROVE  /\ TmdbTypeOK'
         /\ OldestExists'
         /\ \A k \in Slot : RestoredValue(log', map', k) = RestoredValue(log, map, k)
<1> DEFINE n == Len(log)
           e == log[n]
<1> USE DEF LogInv
<1>1. /\ log' \in Seq(Entry)
      /\ n \in Nat \ {0}
      /\ DOMAIN log = 1 .. n /\ DOMAIN log' = 1 .. n - 1
      /\ \A j \in 1 .. n - 1 : log'[j] = log[j]
      /\ e \in Entry
  BY UndoLog
<1>2. \/ e.type = "path" /\ RemovePath(e.addr)
      \/ e.type = "value" /\ PutBack(e.addr, e.cur, e.old)
  BY DEF Undo
<1> HIDE DEF n
<1>3. TmdbTypeOK'
  <2> HIDE DEF e
  <2>1. CASE e.type = "path" /\ RemovePath(e.addr)
    BY <2>1, <1>1 DEF TmdbTypeOK, Undo, RemovePath
  <2>2. CASE e.type = "value" /\ PutBack(e.addr, e.cur, e.old)
    <3>1. e.addr \in Address /\ e.cur \in Currency /\ e.old \in Value \cup {Unset}
      BY <2>2, <1>1 DEF Entry
    <3> QED
      BY <2>2, <3>1, <1>1 DEF TmdbTypeOK, Undo, PutBack
  <2> QED
    BY <2>1, <2>2, <1>2
<1>4. ASSUME NEW k \in Slot, NEW i \in 1 .. n - 1, IsOldest(log, i, k)
      PROVE  i \in DOMAIN log' /\ IsOldest(log', i, k) /\ log'[i] = log[i]
  BY <1>1, <1>4 DEF IsOldest, IsValueOf
<1>5. OldestExists'
  <2> SUFFICES ASSUME NEW k \in Slot, HasValueEntry(log', k)
               PROVE  \E i \in DOMAIN log' : IsOldest(log', i, k)
    BY DEF OldestExists
  <2>1. PICK j \in DOMAIN log' : IsValueOf(log', j, k)
    BY DEF HasValueEntry
  <2>2. j \in 1 .. n - 1 /\ IsValueOf(log, j, k)
    BY <2>1, <1>1 DEF IsValueOf
  <2>3. PICK i \in DOMAIN log : IsOldest(log, i, k)
    BY <2>2, <1>1 DEF OldestExists, HasValueEntry
  <2>4. i \in 1 .. n - 1
    BY <2>2, <2>3, <1>1 DEF IsOldest
  <2> QED
    BY <2>3, <2>4, <1>4
<1>6. ASSUME NEW k \in Slot
      PROVE  RestoredValue(log', map', k) = RestoredValue(log, map, k)
  <2>0. k = <<k[1], k[2]>> /\ k[1] \in Address /\ k[2] \in Currency
    BY DEF Slot
  <2>1. CASE \E i \in 1 .. n - 1 : IsOldest(log, i, k)
    <3>1. PICK i \in 1 .. n - 1 : IsOldest(log, i, k)
      BY <2>1
    <3>2. i \in DOMAIN log
      BY <1>1
    <3> QED
      BY <3>1, <3>2, <1>3, <1>4, OldestRestores DEF TmdbTypeOK
  <2>2. CASE ~ \E i \in 1 .. n - 1 : IsOldest(log, i, k)
    <3>1. ~HasValueEntry(log', k)
      <4>1. SUFFICES ASSUME HasValueEntry(log', k) PROVE FALSE
        OBVIOUS
      <4>2. PICK i \in DOMAIN log' : IsOldest(log', i, k)
        BY <4>1, <1>5 DEF OldestExists
      <4>3. i \in 1 .. n - 1 /\ IsOldest(log, i, k)
        BY <4>2, <1>1 DEF IsOldest, IsValueOf
      <4> QED
        BY <4>3, <2>2
    <3>2. RestoredValue(log', map', k) = map'[k]
      BY <3>1, NothingRestored
    <3>3. CASE IsValueOf(log, n, k)
      <4>1. n \in DOMAIN log /\ IsOldest(log, n, k)
        <5>1. HasValueEntry(log, k)
          BY <3>3, <1>1 DEF HasValueEntry
        <5>2. PICK i \in DOMAIN log : IsOldest(log, i, k)
          BY <5>1 DEF OldestExists
        <5> QED
          BY <5>2, <2>2, <1>1
      <4>2. RestoredValue(log, map, k) = e.old
        BY <4>1, OldestRestores DEF TmdbTypeOK
      <4>3. e.type = "value" /\ e.addr = k[1] /\ e.cur = k[2]
        BY <3>3 DEF IsValueOf
      <4>4. e.addr \in outer
        BY <1>1 DEF LogUndoable
      <4>5. map' = [map EXCEPT ![k] = e.old]
        BY <1>2, <2>0, <4>3, <4>4 DEF PutBack
      <4> QED
        BY <3>2, <4>2, <4>5 DEF TmdbTypeOK
    <3>4. CASE ~IsValueOf(log, n, k)
      <4>1. ~HasValueEntry(log, k)
        <5>1. SUFFICES ASSUME HasValueEntry(log, k) PROVE FALSE
          OBVIOUS
        <5>2. PICK i \in DOMAIN log : IsOldest(log, i, k)
          BY <5>1 DEF OldestExists
        <5>3. i # n
          BY <5>2, <3>4 DEF IsOldest
        <5> QED
          BY <5>2, <5>3, <2>2, <1>1
      <4>2. RestoredValue(log, map, k) = map[k]
        BY <4>1, NothingRestored
      <4>3. CASE e.type = "path" /\ RemovePath(e.addr)
        <5>1. CASE k[1] = e.addr
          <6>1. IsPathOf(log, n, e.addr)
            BY <4>3, <1>1 DEF IsPathOf
          <6>2. RestoredValue(log, map, <<k[1], k[2]>>) = Unset
            BY <6>1, <5>1, <2>0, <1>1 DEF LogUndoable
          <6>3. map'[k] = Unset
            BY <4>3, <5>1 DEF RemovePath
          <6> QED
            BY <6>2, <6>3, <3>2, <2>0
        <5>2. CASE k[1] # e.addr
          BY <4>2, <4>3, <5>2, <3>2 DEF RemovePath
        <5> QED
          BY <5>1, <5>2
      <4>4. CASE e.type = "value" /\ PutBack(e.addr, e.cur, e.old)
        <5>1. k # <<e.addr, e.cur>>
          BY <4>4, <3>4, <1>1, <2>0 DEF IsValueOf
        <5>2. map'[k] = map[k]
          BY <4>4, <5>1 DEF PutBack, TmdbTypeOK
        <5> QED
          BY <5>2, <4>2, <3>2
      <4> QED
        BY <4>3, <4>4, <1>2
    <3> QED
      BY <3>3, <3>4
  <2> QED
    BY <2>1, <2>2
<1> QED
  BY <1>3, <1>5, <1>6

\* What is left of the log after one undo can be undone in order.
LEMMA UndoUndoable ==
  ASSUME LogInv, Undo
  PROVE  LogUndoable'
<1> DEFINE n == Len(log)
           e == log[n]
<1> USE DEF LogInv
<1>1. /\ n \in Nat \ {0}
      /\ DOMAIN log = 1 .. n /\ DOMAIN log' = 1 .. n - 1
      /\ \A j \in 1 .. n - 1 : log'[j] = log[j]
      /\ e \in Entry
  BY UndoLog
<1>2. \/ e.type = "path" /\ RemovePath(e.addr)
      \/ e.type = "value" /\ PutBack(e.addr, e.cur, e.old)
  BY DEF Undo
<1>3. \A k \in Slot : RestoredValue(log', map', k) = RestoredValue(log, map, k)
  BY UndoRestores
<1> HIDE DEF n
<1>4. /\ \A i \in DOMAIN log' : log'[i].addr \in outer'
      /\ \A k \in Slot : k[1] \notin outer' => map'[k] = Unset
  <2>1. CASE e.type = "path" /\ RemovePath(e.addr)
    <3>1. IsPathOf(log, n, e.addr) /\ e.addr \in Address
      BY <2>1, <1>1 DEF IsPathOf, Entry
    <3>2. \A j \in 1 .. n - 1 : log[j].addr # e.addr
      BY <3>1, <1>1 DEF LogUndoable
    <3>3. \A i \in DOMAIN log' : log'[i].addr \in outer'
      BY <2>1, <3>2, <1>1 DEF LogUndoable, RemovePath
    <3>4. \A k \in Slot : k[1] \notin outer' => map'[k] = Unset
      BY <2>1 DEF LogUndoable, RemovePath
    <3> QED
      BY <3>3, <3>4
  <2>2. CASE e.type = "value" /\ PutBack(e.addr, e.cur, e.old)
    <3>1. outer' = outer /\ e.addr \in outer
      BY <2>2, <1>1 DEF PutBack, LogUndoable
    <3>2. \A k \in Slot : k[1] # e.addr => map'[k] = map[k]
      BY <2>2 DEF PutBack, TmdbTypeOK
    <3> QED
      BY <3>1, <3>2, <1>1 DEF LogUndoable
  <2> QED
    BY <2>1, <2>2, <1>2
<1>5. ASSUME NEW b \in Address, NEW i \in DOMAIN log', IsPathOf(log', i, b)
      PROVE  /\ \A j \in DOMAIN log' : log'[j].addr = b /\ j # i => i < j
             /\ \A d \in Currency : RestoredValue(log', map', <<b, d>>) = Unset
  <2>1. i \in DOMAIN log /\ IsPathOf(log, i, b)
    BY <1>1, <1>5 DEF IsPathOf
  <2>2. \A j \in DOMAIN log : log[j].addr = b /\ j # i => i < j
    BY <2>1 DEF LogUndoable
  <2>3. \A d \in Currency : RestoredValue(log, map, <<b, d>>) = Unset
    BY <2>1 DEF LogUndoable
  <2> QED
    BY <2>2, <2>3, <1>1, <1>3 DEF Slot
<1>6. TmdbTypeOK'
  BY UndoRestores
<1> QED
  BY <1>4, <1>5, <1>6 DEF LogUndoable

\* Without a log there is nothing to undo.
LEMMA NoLog ==
  ASSUME TmdbTypeOK, log = <<>>
  PROVE  Restored = [present |-> outer, value |-> map]
<1>1. DOMAIN log = {}
  OBVIOUS
<1>2. \A k \in Slot : RestoredValue(log, map, k) = map[k]
  BY <1>1 DEF RestoredValue
<1>3. [k \in Slot |-> RestoredValue(log, map, k)] = map
  BY <1>2 DEF TmdbTypeOK
<1>4. {a \in outer : \A i \in DOMAIN log : ~IsPathOf(log, i, a)} = outer
  BY <1>1
<1> QED
  BY <1>3, <1>4 DEF Restored

\* Every step keeps the invariant.
LEMMA LogStep == LogInv /\ [TmdbNext]_tmdbVars => LogInv'
<1> SUFFICES ASSUME LogInv, [TmdbNext]_tmdbVars PROVE LogInv'
  OBVIOUS
<1>1. ASSUME NEW a \in Address, NEW c \in Currency, NEW v \in Value, Set(a, c, v)
      PROVE  LogInv'
  BY <1>1, SetRestores, SetUndoable DEF LogInv
<1>2. CASE Commit
  <2>1. TmdbTypeOK'
    BY <1>2 DEF LogInv, TmdbTypeOK, Commit
  <2>2. DOMAIN log' = {}
    BY <1>2 DEF Commit
  <2>3. OldestExists'
    BY <2>2 DEF OldestExists, HasValueEntry
  <2>4. LogUndoable'
    BY <1>2, <2>1, <2>2 DEF LogInv, LogUndoable, Commit
  <2> QED
    BY <2>1, <2>3, <2>4 DEF LogInv
<1>3. CASE Undo
  BY <1>3, UndoRestores, UndoUndoable DEF LogInv
<1>4. CASE Rollback \/ RollbackDone \/ UNCHANGED tmdbVars
  <2>1. UNCHANGED <<outer, map, log>> /\ rolling' \in BOOLEAN
    BY <1>4 DEF Rollback, RollbackDone, tmdbVars, LogInv, TmdbTypeOK
  <2>2. TmdbTypeOK'
    BY <2>1 DEF LogInv, TmdbTypeOK
  <2>3. OldestExists'
    BY <2>1 DEF LogInv, OldestExists, HasValueEntry, IsOldest, IsValueOf
  <2>4. LogUndoable'
    BY <2>1, <2>2 DEF LogInv, LogUndoable, IsPathOf
  <2> QED
    BY <2>2, <2>3, <2>4 DEF LogInv
<1> QED
  BY <1>1, <1>2, <1>3, <1>4 DEF TmdbNext

\* The invariant holds in every reachable state.
THEOREM LogInvariance == TmdbSpec => []LogInv
<1>1. TmdbInit => LogInv
  BY LogInitInv
<1>2. LogInv /\ [TmdbNext]_tmdbVars => LogInv'
  BY LogStep
<1> QED
  BY <1>1, <1>2, PTL DEF TmdbSpec

\* The entries that rollback (tmdb.js:67-81) takes off the log come in an order in
\* which each of them can be undone: nothing else of an address is logged before
\* the addition of its inner map, and the address was empty then.
THEOREM Undoability == TmdbSpec => []LogUndoable
<1>1. LogInv => LogUndoable
  BY DEF LogInv
<1> QED
  BY <1>1, LogInvariance, PTL

-----------------------------------------------------------------------------
(* The refinement *)

\* The empty store is what is saved at first.
LEMMA InitRefines == TmdbInit => Abstract!Init
<1> SUFFICES ASSUME TmdbInit PROVE Abstract!Init
  OBVIOUS
<1>1. TmdbTypeOK /\ log = <<>>
  BY LogInitInv DEF LogInv, TmdbInit
<1>2. Restored = [present |-> {}, value |-> [k \in Slot |-> Unset]]
  BY <1>1, NoLog DEF TmdbInit
<1> QED
  BY <1>2 DEF Abstract!Init, Abstract!Empty, TmdbInit, Slot

\* set takes nothing away from what was saved, and changes one value.
LEMMA SetRefines ==
  ASSUME LogInv, NEW a \in Address, NEW c \in Currency, NEW v \in Value, Set(a, c, v)
  PROVE  Abstract!Set(a, c, v)
<1>1. \A k \in Slot : RestoredValue(log', map', k) = RestoredValue(log, map, k)
  BY SetRestores
<1>2. [k \in Slot |-> RestoredValue(log, map, k)]' = [k \in Slot |-> RestoredValue(log, map, k)]
  BY <1>1
<1>3. {b \in outer : \A i \in DOMAIN log : ~IsPathOf(log, i, b)}'
        = {b \in outer : \A i \in DOMAIN log : ~IsPathOf(log, i, b)}
  <2> DEFINE n == Len(log)
             m == Len(log')
  <2>1. /\ n \in Nat /\ m \in Nat
        /\ DOMAIN log = 1 .. n /\ DOMAIN log' = 1 .. m
        /\ \A j \in 1 .. n : log'[j] = log[j]
        /\ log'[m] = SetValue(a, c, map[<<a, c>>])
        /\ a \in outer => m = n + 1
        /\ a \notin outer => m = n + 2 /\ log'[n + 1] = AddPath(a)
    BY SetLog DEF LogInv
  <2> HIDE DEF n, m
  <2>2. outer' = outer \cup {a}
    BY DEF Set
  <2>3. \A b \in outer, i \in 1 .. n : IsPathOf(log', i, b) = IsPathOf(log, i, b)
    BY <2>1 DEF IsPathOf
  <2>4. \A b \in outer, i \in n + 1 .. m : ~IsPathOf(log', i, b)
    BY <2>1 DEF IsPathOf, SetValue, AddPath
  <2>5. a \notin outer => \E i \in 1 .. m : IsPathOf(log', i, a)
    BY <2>1 DEF IsPathOf, AddPath
  <2>6. ASSUME NEW b \in outer
        PROVE  (\A i \in DOMAIN log' : ~IsPathOf(log', i, b))
                 <=> (\A i \in DOMAIN log : ~IsPathOf(log, i, b))
    BY <2>1, <2>3, <2>4
  <2> QED
    BY <2>1, <2>2, <2>5, <2>6
<1>4. Restored' = Restored
  BY <1>2, <1>3 DEF Restored
<1>5. /\ rolling = FALSE /\ rolling' = FALSE
      /\ outer' = outer \cup {a} /\ map' = [map EXCEPT ![<<a, c>>] = v]
  BY DEF Set, LogInv, TmdbTypeOK
<1> QED
  BY <1>4, <1>5 DEF Abstract!Set

\* Undoing one entry does not change what the whole log gives back.
LEMMA UndoStutters ==
  ASSUME LogInv, Undo
  PROVE  Restored' = Restored
<1> DEFINE n == Len(log)
           e == log[n]
<1>1. [k \in Slot |-> RestoredValue(log, map, k)]' = [k \in Slot |-> RestoredValue(log, map, k)]
  BY UndoRestores
<1>2. /\ n \in Nat \ {0}
      /\ DOMAIN log = 1 .. n /\ DOMAIN log' = 1 .. n - 1
      /\ \A j \in 1 .. n - 1 : log'[j] = log[j]
      /\ e \in Entry
  BY UndoLog DEF LogInv
<1> HIDE DEF n
<1>3. \A b \in outer, i \in 1 .. n - 1 : IsPathOf(log', i, b) = IsPathOf(log, i, b)
  BY <1>2 DEF IsPathOf
<1>4. CASE e.type = "path" /\ RemovePath(e.addr)
  <2>1. outer' = outer \ {e.addr}
    BY <1>4 DEF RemovePath
  <2>2. \A b \in outer' : ~IsPathOf(log, n, b)
    BY <2>1 DEF IsPathOf
  <2>3. IsPathOf(log, n, e.addr)
    BY <1>4, <1>2 DEF IsPathOf
  <2>4. {b \in outer' : \A i \in DOMAIN log' : ~IsPathOf(log', i, b)}
          = {b \in outer : \A i \in DOMAIN log : ~IsPathOf(log, i, b)}
    BY <1>2, <1>3, <2>1, <2>2, <2>3
  <2> QED
    BY <1>1, <2>4 DEF Restored
<1>5. CASE e.type = "value" /\ PutBack(e.addr, e.cur, e.old)
  <2>1. outer' = outer
    BY <1>5 DEF PutBack
  <2>2. \A b \in outer : ~IsPathOf(log, n, b)
    BY <1>5 DEF IsPathOf
  <2>3. {b \in outer' : \A i \in DOMAIN log' : ~IsPathOf(log', i, b)}
          = {b \in outer : \A i \in DOMAIN log : ~IsPathOf(log, i, b)}
    BY <1>2, <1>3, <2>1, <2>2
  <2> QED
    BY <1>1, <2>3 DEF Restored
<1> QED
  BY <1>4, <1>5 DEF Undo, n

\* Every step is one of the abstract store, or leaves it.
LEMMA StepRefines == LogInv /\ [TmdbNext]_tmdbVars => [Abstract!Next]_(Abstract!vars)
<1> SUFFICES ASSUME LogInv, [TmdbNext]_tmdbVars PROVE [Abstract!Next]_(Abstract!vars)
  OBVIOUS
<1> DEFINE Current == IF rolling THEN Restored ELSE [present |-> outer, value |-> map]
<1>1. ASSUME NEW a \in Address, NEW c \in Currency, NEW v \in Value, Set(a, c, v)
      PROVE  Abstract!Next
  BY <1>1, SetRefines DEF Abstract!Next
<1>2. CASE Commit
  <2>1. TmdbTypeOK' /\ log' = <<>>
    BY <1>2, LogStep DEF LogInv, Commit
  <2>2. Restored' = [present |-> outer', value |-> map']
    <3>1. DOMAIN log' = {}
      BY <2>1
    <3>2. \A k \in Slot : RestoredValue(log', map', k) = map'[k]
      BY <3>1 DEF RestoredValue
    <3>3. [k \in Slot |-> RestoredValue(log, map, k)]' = map'
      BY <2>1, <3>2 DEF TmdbTypeOK
    <3>4. {a \in outer : \A i \in DOMAIN log : ~IsPathOf(log, i, a)}' = outer'
      BY <3>1
    <3> QED
      BY <3>3, <3>4 DEF Restored
  <2>3. rolling = FALSE /\ UNCHANGED <<outer, map, rolling>>
    BY <1>2 DEF Commit, LogInv, TmdbTypeOK
  <2>4. Abstract!Commit
    BY <2>2, <2>3 DEF Abstract!Commit
  <2> QED
    BY <2>4 DEF Abstract!Next
<1>3. ASSUME UNCHANGED <<outer, map, log>>
      PROVE  Restored' = Restored
  <2>1. \A k \in Slot : RestoredValue(log', map', k) = RestoredValue(log, map, k)
    BY <1>3 DEF RestoredValue, IsOldest, IsValueOf
  <2> QED
    BY <1>3, <2>1 DEF Restored, IsPathOf
<1>4. CASE Rollback
  <2>1. rolling' = TRUE /\ Restored' = Restored
    BY <1>4, <1>3 DEF Rollback
  <2>2. Abstract!Rollback
    BY <2>1 DEF Abstract!Rollback
  <2> QED
    BY <2>2 DEF Abstract!Next
<1>5. CASE Undo
  <2>1. rolling = TRUE /\ rolling' = TRUE
    BY <1>5 DEF Undo, LogInv, TmdbTypeOK
  <2>2. Restored' = Restored
    BY <1>5, UndoStutters
  <2> QED
    BY <2>1, <2>2 DEF Abstract!vars
<1>6. CASE RollbackDone
  <2>1. /\ rolling /\ rolling' = FALSE
        /\ Restored' = Restored
        /\ outer' = outer /\ map' = map
    BY <1>6, <1>3 DEF RollbackDone
  <2>2. Restored = [present |-> outer, value |-> map]
    BY <1>6, NoLog DEF RollbackDone, LogInv
  <2> QED
    BY <2>1, <2>2 DEF Abstract!vars
<1>7. CASE UNCHANGED tmdbVars
  <2>1. rolling' = rolling /\ Restored' = Restored /\ outer' = outer /\ map' = map
    BY <1>7, <1>3 DEF tmdbVars
  <2> QED
    BY <2>1 DEF Abstract!vars
<1> QED
  BY <1>1, <1>2, <1>4, <1>5, <1>6, <1>7 DEF TmdbNext

\* The map with its undo log (tmdb.js) implements the store that is saved and
\* restored as a whole: what BalanceManager promises applyBlock.
THEOREM Refinement == TmdbSpec => Refines
<1>1. TmdbInit => Abstract!Init
  BY InitRefines
<1>2. LogInv /\ [TmdbNext]_tmdbVars => [Abstract!Next]_(Abstract!vars)
  BY StepRefines
<1> QED
  BY <1>1, <1>2, LogInvariance, PTL DEF TmdbSpec, Refines, Abstract!Spec

-----------------------------------------------------------------------------
(* The task queues *)


Ids == 1 .. Len(tasks)

\* What a queue runs is a running task of its own, and the only one.
RunningIsOwn ==
  /\ \A q \in Queue : running[q] # 0 =>
       tasks[running[q]].status = "running" /\ QueueOf(tasks[running[q]].kind) = q
  /\ \A i \in Ids : tasks[i].status = "running" => running[QueueOf(tasks[i].kind)] = i

\* A task that is waited for is one its caller's kind adds.
CallersAdd ==
  \A i \in Ids : tasks[i].caller # 0 =>
    tasks[i].caller \in Ids /\ tasks[i].kind \in AddedBy(tasks[tasks[i].caller].kind)

\* Chunks are loaded before the chain is, blocks popped after.
Phases ==
  \A i \in Ids :
    /\ tasks[i].kind \in {"syncBlocks", "popLastBlock"} => loaded
    /\ tasks[i].kind = "loadBlocksOffset" /\ tasks[i].status # "done" => ~loaded

\* A queue holds its queued tasks, in the order of their numbers.
QueueSorted ==
  /\ \A q \in Queue, a, b \in Nat :
       a \in DOMAIN queue[q] /\ b \in DOMAIN queue[q] /\ a < b => queue[q][a] < queue[q][b]
  /\ \A q \in Queue : \A a \in DOMAIN queue[q] :
       tasks[queue[q][a]].status = "queued" /\ QueueOf(tasks[queue[q][a]].kind) = q
  /\ \A i \in Ids : tasks[i].status = "queued" =>
       \E a \in DOMAIN queue[QueueOf(tasks[i].kind)] : queue[QueueOf(tasks[i].kind)][a] = i

QueuesInv == QueuesTypeOK /\ RunningIsOwn /\ CallersAdd /\ Phases /\ QueueSorted /\ TasksInOrder

-----------------------------------------------------------------------------
\* Every kind has a queue, and what it adds are kinds.
LEMMA KindsHaveQueues ==
  \A k \in Kind : QueueOf(k) \in Queue /\ AddedBy(k) \subseteq Kind /\ "syncBlocks" \notin AddedBy(k)
                  /\ "loadBlocksOffset" \notin AddedBy(k)
                  /\ ("popLastBlock" \in AddedBy(k) => k = "syncBlocks")
BY DEF Kind, Queue, QueueOf, AddedBy

\* Every task has one of the three queues.
LEMMA TasksHaveQueues ==
  ASSUME QueuesTypeOK, NEW j \in Ids PROVE tasks[j].kind \in Kind /\ QueueOf(tasks[j].kind) \in Queue
<1>1. tasks[j] \in TaskType
  BY DEF QueuesTypeOK, Ids
<1>2. tasks[j].kind \in Kind
  BY <1>1 DEF TaskType
<1> QED BY <1>2, KindsHaveQueues

\* Only the kinds of blocks popped and chunks loaded wait across in both directions.
LEMMA WhoWaits ==
  ASSUME NEW k \in Kind, NEW l \in Kind, NEW a \in AddedBy(k), NEW b \in AddedBy(l),
         QueueOf(a) = QueueOf(l), QueueOf(b) = QueueOf(k)
  PROVE  \/ k = "popLastBlock" /\ l = "loadBlocksOffset"
         \/ k = "loadBlocksOffset" /\ l = "popLastBlock"
BY DEF Kind, QueueOf, AddedBy

\* The invariant rules the circle out: it would be popLastBlock and loadBlocksOffset
\* running at once.
LEMMA InvNoCircle == QueuesInv => NoCircularWait
<1> SUFFICES ASSUME QueuesInv, NEW q \in Queue, NEW p \in Queue, WaitsFor(q, p), WaitsFor(p, q)
             PROVE  FALSE
  BY DEF NoCircularWait, QueuesInv
<1> USE DEF QueuesInv, Ids
<1>1. PICK j \in Active : /\ running[q] # 0 /\ tasks[j].caller = running[q]
                          /\ QueueOf(tasks[j].kind) = p
  BY DEF WaitsFor
<1>2. PICK h \in Active : /\ running[p] # 0 /\ tasks[h].caller = running[p]
                          /\ QueueOf(tasks[h].kind) = q
  BY DEF WaitsFor
<1>3. /\ j \in Ids /\ h \in Ids /\ running[q] \in Ids /\ running[p] \in Ids
  BY <1>1, <1>2 DEF Active, QueuesTypeOK
<1> DEFINE k == tasks[running[q]].kind
           l == tasks[running[p]].kind
<1>4. k \in Kind /\ l \in Kind
  <2>1. tasks[running[q]] \in TaskType /\ tasks[running[p]] \in TaskType
    BY <1>3 DEF QueuesTypeOK
  <2> QED BY <2>1 DEF TaskType
<1>5. tasks[j].kind \in AddedBy(k) /\ tasks[h].kind \in AddedBy(l)
  BY <1>1, <1>2, <1>3 DEF CallersAdd
<1>6. QueueOf(k) = q /\ QueueOf(l) = p
  BY <1>1, <1>2 DEF RunningIsOwn
<1>7. \/ k = "popLastBlock" /\ l = "loadBlocksOffset"
      \/ k = "loadBlocksOffset" /\ l = "popLastBlock"
  BY <1>1, <1>2, <1>4, <1>5, <1>6, WhoWaits
<1>8. tasks[running[q]].status # "done" /\ tasks[running[p]].status # "done"
  BY <1>1, <1>2 DEF RunningIsOwn
<1> QED BY <1>3, <1>7, <1>8 DEF Phases

-----------------------------------------------------------------------------
\* At the start there are no tasks.
LEMMA QueuesInitInv == QueuesInit => QueuesInv
<1> SUFFICES ASSUME QueuesInit PROVE QueuesInv
  OBVIOUS
<1>1. Ids = {} /\ \A q \in Queue : queue[q] = <<>> /\ running[q] = 0
  BY DEF QueuesInit, Ids
<1>2. QueuesTypeOK
  <2>1. tasks = <<>> /\ tasks \in Seq(TaskType) /\ Len(tasks) = 0
    BY DEF QueuesInit
  <2>2. queue \in [Queue -> Seq(1 .. Len(tasks))]
    BY DEF QueuesInit
  <2>3. running \in [Queue -> 0 .. Len(tasks)]
    BY <2>1 DEF QueuesInit
  <2>4. loaded \in BOOLEAN /\ polling \in {"unset", "set", "busy", "stopped"}
    BY DEF QueuesInit
  <2> QED BY <2>1, <2>2, <2>3, <2>4 DEF QueuesTypeOK
<1>3. RunningIsOwn /\ CallersAdd /\ Phases /\ TasksInOrder
  BY <1>1 DEF RunningIsOwn, CallersAdd, Phases, TasksInOrder, Ids
<1>4. QueueSorted
  BY <1>1 DEF QueueSorted
<1> QED BY <1>2, <1>3, <1>4 DEF QueuesInv

\* ts is tasks but for the numbers of tasks added.
SameTasks(ts) ==
  /\ ts \in Seq(TaskType) /\ Len(ts) = Len(tasks)
  /\ \A i \in Ids : ts[i].kind = tasks[i].kind /\ ts[i].caller = tasks[i].caller
                    /\ ts[i].status = tasks[i].status

\* Sequence.add: a task that its caller may add, in its phase, at the end of its queue.
LEMMA AddInv ==
  ASSUME QueuesInv, NEW ts, SameTasks(ts), NEW k \in Kind, NEW c \in 0 .. Len(tasks), Add(ts, k, c),
         c # 0 => k \in AddedBy(tasks[c].kind),
         k \in {"syncBlocks", "popLastBlock"} => loaded,
         k = "loadBlocksOffset" => ~loaded,
         UNCHANGED <<running, loaded>>, polling' \in {"unset", "set", "busy", "stopped"}
  PROVE  QueuesInv'
<1> DEFINE n == Len(tasks) + 1
           q0 == QueueOf(k)
           new == [kind |-> k, caller |-> c, steps |-> 0, status |-> "queued"]
<1> n \in Nat /\ Len(tasks) \in Nat /\ n > Len(tasks)
  BY DEF QueuesInv, QueuesTypeOK
<1> q0 \in Queue
  BY KindsHaveQueues
<1> new \in TaskType
  BY DEF TaskType
<1>1. /\ tasks' = Append(ts, new) /\ queue' = [queue EXCEPT ![q0] = Append(@, n)]
      /\ tasks' \in Seq(TaskType) /\ Len(tasks') = n /\ tasks'[n] = new
      /\ \A i \in Ids : tasks'[i].kind = tasks[i].kind /\ tasks'[i].caller = tasks[i].caller
                        /\ tasks'[i].status = tasks[i].status
  BY DEF Add, SameTasks, Ids
<1>2. Ids' = Ids \cup {n} /\ n \notin Ids /\ \A i \in Ids : i \in Nat /\ i < n
  BY <1>1 DEF Ids
<1>3. /\ \A q \in Queue : queue[q] \in Seq(Ids)
      /\ \A q \in Queue : q # q0 => queue'[q] = queue[q]
      /\ queue'[q0] = Append(queue[q0], n)
  BY <1>1 DEF QueuesInv, QueuesTypeOK, Ids
<1>4. /\ Len(queue'[q0]) = Len(queue[q0]) + 1 /\ queue'[q0][Len(queue[q0]) + 1] = n
      /\ \A a \in DOMAIN queue[q0] : queue'[q0][a] = queue[q0][a] /\ a \in DOMAIN queue'[q0]
      /\ \A a \in DOMAIN queue'[q0] : a \in DOMAIN queue[q0] \/ a = Len(queue[q0]) + 1
      /\ \A a \in DOMAIN queue[q0] : a \in Nat /\ a < Len(queue[q0]) + 1 /\ queue[q0][a] \in Ids
      /\ Len(queue[q0]) + 1 \in DOMAIN queue'[q0]
  BY <1>3
<1>5. QueuesTypeOK'
  <2>1. queue' \in [Queue -> Seq(1 .. n)]
    <3>1. \A q \in Queue : queue[q] \in Seq(1 .. n)
      BY <1>3 DEF Ids
    <3>2. n \in 1 .. n
      OBVIOUS
    <3>3. Append(queue[q0], n) \in Seq(1 .. n)
      BY <3>1, <3>2
    <3>4. \A q \in Queue : queue'[q] \in Seq(1 .. n)
      BY <3>1, <3>3, <1>3
    <3> QED BY <3>4, <1>1 DEF QueuesInv, QueuesTypeOK
  <2> QED BY <2>1, <1>1 DEF QueuesInv, QueuesTypeOK
<1>6. RunningIsOwn'
  <2>1. ASSUME NEW q \in Queue, running[q] # 0 PROVE running[q] \in Ids
    BY <2>1 DEF QueuesInv, QueuesTypeOK, Ids
  <2>2. \A q \in Queue : running'[q] # 0 =>
          tasks'[running'[q]].status = "running" /\ QueueOf(tasks'[running'[q]].kind) = q
    BY <2>1, <1>1 DEF QueuesInv, RunningIsOwn
  <2>3. ASSUME NEW i \in Ids', tasks'[i].status = "running"
        PROVE  running'[QueueOf(tasks'[i].kind)] = i
    <3>1. i # n
      BY <2>3, <1>1
    <3>2. i \in Ids
      BY <3>1, <1>2
    <3> QED BY <2>3, <3>2, <1>1 DEF QueuesInv, RunningIsOwn
  <2> QED BY <2>2, <2>3 DEF RunningIsOwn
<1>7. CallersAdd'
  BY <1>1, <1>2 DEF QueuesInv, CallersAdd, Ids
<1>8. Phases'
  <2> SUFFICES ASSUME NEW i \in Ids'
               PROVE  /\ tasks'[i].kind \in {"syncBlocks", "popLastBlock"} => loaded'
                      /\ tasks'[i].kind = "loadBlocksOffset" /\ tasks'[i].status # "done" => ~loaded'
    BY DEF Phases
  <2>1. CASE i = n
    BY <2>1, <1>1
  <2>2. CASE i \in Ids
    BY <2>2, <1>1 DEF QueuesInv, Phases
  <2> QED BY <2>1, <2>2, <1>2
<1>9. QueueSorted'
  <2>1. ASSUME NEW q \in Queue, NEW a \in Nat, NEW b \in Nat,
               a \in DOMAIN queue'[q], b \in DOMAIN queue'[q], a < b
        PROVE  queue'[q][a] < queue'[q][b]
    <3>1. CASE q # q0
      BY <2>1, <3>1, <1>3 DEF QueuesInv, QueueSorted
    <3>2. CASE q = q0
      BY <2>1, <3>2, <1>2, <1>4 DEF QueuesInv, QueueSorted
    <3> QED BY <3>1, <3>2
  <2>2. ASSUME NEW q \in Queue, NEW a \in DOMAIN queue'[q]
        PROVE  tasks'[queue'[q][a]].status = "queued" /\ QueueOf(tasks'[queue'[q][a]].kind) = q
    <3>1. CASE q # q0
      <4>1. queue'[q] = queue[q] /\ a \in DOMAIN queue[q] /\ queue[q][a] \in Ids
        BY <3>1, <1>3
      <4>2. tasks[queue[q][a]].status = "queued" /\ QueueOf(tasks[queue[q][a]].kind) = q
        BY <4>1 DEF QueuesInv, QueueSorted
      <4> QED BY <4>1, <4>2, <1>1
    <3>2. CASE q = q0
      <4>1. CASE a = Len(queue[q0]) + 1
        BY <3>2, <4>1, <1>1, <1>4
      <4>2. CASE a \in DOMAIN queue[q0]
        <5>1. queue'[q][a] = queue[q0][a] /\ queue[q0][a] \in Ids
          BY <3>2, <4>2, <1>4
        <5>2. tasks[queue[q0][a]].status = "queued" /\ QueueOf(tasks[queue[q0][a]].kind) = q0
          BY <4>2 DEF QueuesInv, QueueSorted
        <5> QED BY <5>1, <5>2, <3>2, <1>1
      <4> QED BY <4>1, <4>2, <3>2, <1>4
    <3> QED BY <3>1, <3>2
  <2>3. ASSUME NEW i \in Ids', tasks'[i].status = "queued"
        PROVE  \E a \in DOMAIN queue'[QueueOf(tasks'[i].kind)] : queue'[QueueOf(tasks'[i].kind)][a] = i
    <3>1. CASE i = n
      BY <3>1, <1>1, <1>4
    <3>2. CASE i \in Ids
      <4>1. PICK a \in DOMAIN queue[QueueOf(tasks[i].kind)] : queue[QueueOf(tasks[i].kind)][a] = i
        BY <2>3, <3>2, <1>1 DEF QueuesInv, QueueSorted
      <4>2. QueueOf(tasks[i].kind) \in Queue /\ tasks'[i].kind = tasks[i].kind
        <5>1. tasks[i] \in TaskType
          BY <3>2 DEF QueuesInv, QueuesTypeOK, Ids
        <5> QED BY <5>1, <3>2, <1>1, KindsHaveQueues DEF TaskType
      <4>3. CASE QueueOf(tasks[i].kind) # q0
        BY <4>1, <4>2, <4>3, <1>3
      <4>4. CASE QueueOf(tasks[i].kind) = q0
        BY <4>1, <4>2, <4>4, <1>4
      <4> QED BY <4>3, <4>4
    <3> QED BY <3>1, <3>2, <1>2
  <2> QED BY <2>1, <2>2, <2>3 DEF QueueSorted
<1>10. TasksInOrder'
  <2> SUFFICES ASSUME NEW i \in Ids', NEW j \in Ids', i < j,
                      QueueOf(tasks'[i].kind) = QueueOf(tasks'[j].kind), tasks'[j].status # "queued"
               PROVE  tasks'[i].status = "done"
    BY DEF TasksInOrder, Ids
  <2>1. j \in Ids
    BY <1>1, <1>2
  <2>2. i \in Ids
    BY <2>1, <1>2 DEF Ids
  <2> QED BY <2>1, <2>2, <1>1 DEF QueuesInv, TasksInOrder, Ids
<1> QED BY <1>5, <1>6, <1>7, <1>8, <1>9, <1>10 DEF QueuesInv

-----------------------------------------------------------------------------
\* The actions that add a task.
LEMMA AddersInv ==
  ASSUME QueuesInv, LoadBlocks \/ StartSyncBlocks \/ (\E k \in Requests : Receive(k))
               \/ LoadUnconfirmedTransactions
  PROVE  QueuesInv'
<1>1. SameTasks(tasks) /\ 0 \in 0 .. Len(tasks) /\ polling \in {"unset", "set", "busy", "stopped"}
  BY DEF SameTasks, QueuesInv, QueuesTypeOK
<1>2. CASE LoadBlocks
  <2>1. /\ "loadBlocksOffset" \in Kind /\ ~loaded /\ Add(tasks, "loadBlocksOffset", 0)
        /\ UNCHANGED <<running, loaded, polling>>
    BY <1>2 DEF LoadBlocks, Kind
  <2> QED BY <2>1, <1>1, AddInv
<1>3. CASE StartSyncBlocks
  <2>1. /\ "syncBlocks" \in Kind /\ loaded /\ Add(tasks, "syncBlocks", 0)
        /\ UNCHANGED <<running, loaded, polling>>
    BY <1>3 DEF StartSyncBlocks, Kind
  <2> QED BY <2>1, <1>1, AddInv
<1>4. ASSUME NEW k \in Requests, Receive(k)
      PROVE  QueuesInv'
  <2>1. /\ k \in Kind /\ k \notin {"syncBlocks", "popLastBlock", "loadBlocksOffset"}
        /\ Add(tasks, k, 0) /\ UNCHANGED <<running, loaded, polling>>
    BY <1>4, QueuesAssumption DEF Receive, Kind
  <2> QED BY <2>1, <1>1, AddInv
<1>5. CASE LoadUnconfirmedTransactions
  <2>1. CASE Syncing /\ polling' = "stopped" /\ UNCHANGED <<tasks, queue>>
    <3>1. UNCHANGED <<tasks, queue, running, loaded>>
      BY <1>5, <2>1 DEF LoadUnconfirmedTransactions
    <3>2. QueuesTypeOK'
      BY <3>1, <2>1 DEF QueuesInv, QueuesTypeOK
    <3>3. (RunningIsOwn /\ CallersAdd /\ QueueSorted /\ TasksInOrder)'
      BY <3>1 DEF QueuesInv, RunningIsOwn, CallersAdd, QueueSorted, TasksInOrder, Ids
    <3>4. Phases'
      BY <3>1 DEF QueuesInv, Phases, Ids
    <3> QED BY <3>2, <3>3, <3>4 DEF QueuesInv
  <2>2. CASE polling' = "busy" /\ Add(tasks, "receiveTransactions", 0)
    <3>1. /\ "receiveTransactions" \in Kind /\ UNCHANGED <<running, loaded>>
          /\ polling' \in {"unset", "set", "busy", "stopped"}
      BY <1>5, <2>2 DEF LoadUnconfirmedTransactions, Kind
    <3> QED BY <3>1, <2>2, <1>1, AddInv
  <2> QED BY <1>5, <2>1, <2>2 DEF LoadUnconfirmedTransactions
<1> QED BY <1>2, <1>3, <1>4, <1>5

\* A task adds one its kind may add; popLastBlock is added by syncBlocks, so that the
\* chain has been loaded.
LEMMA AddAndWaitInv ==
  ASSUME QueuesInv, NEW q \in Queue, NEW k \in Kind, AddAndWait(q, k)
  PROVE  QueuesInv'
<1> DEFINE c == running[q]
           ts == [tasks EXCEPT ![c].steps = @ + 1]
<1>1. /\ c # 0 /\ k \in AddedBy(tasks[c].kind) /\ Add(ts, k, c)
      /\ UNCHANGED <<running, loaded, polling>>
  BY DEF AddAndWait
<1>2. c \in Ids /\ c \in 0 .. Len(tasks) /\ tasks \in Seq(TaskType)
      /\ polling \in {"unset", "set", "busy", "stopped"}
  BY <1>1 DEF QueuesInv, QueuesTypeOK, Ids
<1>3. tasks[c] \in TaskType /\ [tasks[c] EXCEPT !.steps = @ + 1] \in TaskType
  <2>1. tasks[c] \in TaskType
    BY <1>2 DEF Ids
  <2>2. tasks[c].steps + 1 \in Nat
    BY <2>1 DEF TaskType
  <2> QED BY <2>1, <2>2 DEF TaskType
<1>4. SameTasks(ts)
  <2>1. ts = [tasks EXCEPT ![c] = [tasks[c] EXCEPT !.steps = @ + 1]]
    OBVIOUS
  <2>2. ts \in Seq(TaskType) /\ Len(ts) = Len(tasks)
    BY <2>1, <1>2, <1>3 DEF Ids
  <2>3. ASSUME NEW i \in Ids
        PROVE  ts[i].kind = tasks[i].kind /\ ts[i].caller = tasks[i].caller /\ ts[i].status = tasks[i].status
    <3>1. CASE i = c
      <4>1. ts[c] = [tasks[c] EXCEPT !.steps = @ + 1]
        BY <2>1, <1>2 DEF Ids
      <4> QED BY <3>1, <4>1, <1>3 DEF TaskType
    <3>2. CASE i # c
      BY <3>2, <2>1, <1>2 DEF Ids
    <3> QED BY <3>1, <3>2
  <2> QED BY <2>2, <2>3 DEF SameTasks
<1>5. tasks[c].kind \in Kind
  BY <1>3 DEF TaskType
<1>6. k # "syncBlocks" /\ k # "loadBlocksOffset" /\ (k = "popLastBlock" => tasks[c].kind = "syncBlocks")
  BY <1>1, <1>5, KindsHaveQueues
<1>7. k = "popLastBlock" => loaded
  BY <1>2, <1>6 DEF QueuesInv, Phases
<1> HIDE DEF ts, c
<1>8. k \in {"syncBlocks", "popLastBlock"} => loaded
  BY <1>6, <1>7
<1> QED BY <1>1, <1>2, <1>4, <1>6, <1>8, AddInv

\* Where tasks and queues are as before, so is the invariant but for the phases.
LEMMA SameTasksInv ==
  ASSUME QueuesInv, UNCHANGED <<tasks, queue, running>>, loaded' \in BOOLEAN,
         polling' \in {"unset", "set", "busy", "stopped"}, Phases'
  PROVE  QueuesInv'
<1>1. QueuesTypeOK'
  BY DEF QueuesInv, QueuesTypeOK
<1>2. (RunningIsOwn /\ CallersAdd /\ QueueSorted /\ TasksInOrder)'
  BY DEF QueuesInv, RunningIsOwn, CallersAdd, QueueSorted, TasksInOrder, Ids
<1> QED BY <1>1, <1>2 DEF QueuesInv

\* onBlockchainReady starts the second phase.
LEMMA BlockchainReadyInv ==
  ASSUME QueuesInv, BlockchainReady PROVE QueuesInv'
<1>1. UNCHANGED <<tasks, queue, running, polling>> /\ loaded' = TRUE
      /\ \A i \in Active : tasks[i].kind # "loadBlocksOffset"
  BY DEF BlockchainReady
<1>2. Phases'
  <2> SUFFICES ASSUME NEW i \in Ids, tasks[i].kind = "loadBlocksOffset", tasks[i].status # "done"
               PROVE  FALSE
    BY <1>1 DEF Phases, Ids
  <2> QED BY <1>1 DEF Active, Ids
<1>3. polling \in {"unset", "set", "busy", "stopped"}
  BY DEF QueuesInv, QueuesTypeOK
<1> QED BY <1>1, <1>2, <1>3, SameTasksInv

\* onPeerReady only adds tasks.
LEMMA PeerReadyInv ==
  ASSUME QueuesInv, PeerReady PROVE QueuesInv'
<1>1. UNCHANGED <<tasks, queue, running, loaded>> /\ polling' = "set"
  BY DEF PeerReady
<1>2. Phases'
  BY <1>1 DEF QueuesInv, Phases, Ids
<1>3. loaded \in BOOLEAN
  BY DEF QueuesInv, QueuesTypeOK
<1> QED BY <1>1, <1>2, <1>3, SameTasksInv

-----------------------------------------------------------------------------
\* One task changes status, and the others stay.
LEMMA StatusStep ==
  ASSUME QueuesTypeOK, NEW i \in Ids, NEW st \in {"queued", "running", "done"},
         tasks' = [tasks EXCEPT ![i].status = st]
  PROVE  /\ tasks' \in Seq(TaskType) /\ Len(tasks') = Len(tasks) /\ Ids' = Ids
         /\ \A j \in Ids : tasks'[j].kind = tasks[j].kind /\ tasks'[j].caller = tasks[j].caller
         /\ \A j \in Ids \ {i} : tasks'[j].status = tasks[j].status
         /\ tasks'[i].status = st
<1>1. tasks \in Seq(TaskType) /\ tasks[i] \in TaskType
  BY DEF QueuesTypeOK, Ids
<1> DEFINE t == [tasks[i] EXCEPT !.status = st]
<1>2. t \in TaskType /\ t.kind = tasks[i].kind /\ t.caller = tasks[i].caller /\ t.status = st
  BY <1>1 DEF TaskType
<1>3. tasks' = [tasks EXCEPT ![i] = t]
  OBVIOUS
<1> HIDE DEF t
<1>4. tasks' \in Seq(TaskType) /\ Len(tasks') = Len(tasks)
      /\ tasks'[i] = t /\ \A j \in Ids \ {i} : tasks'[j] = tasks[j]
  BY <1>1, <1>2, <1>3 DEF Ids
<1> QED BY <1>2, <1>4 DEF Ids

\* __tick: the head of the queue has the least number of it, so all before are done.
LEMMA TickInv ==
  ASSUME QueuesInv, NEW q \in Queue, Tick(q) PROVE QueuesInv'
<1> DEFINE i == Head(queue[q])
<1>1. /\ running[q] = 0 /\ queue[q] # <<>>
      /\ running' = [running EXCEPT ![q] = i]
      /\ tasks' = [tasks EXCEPT ![i].status = "running"]
      /\ queue' = [queue EXCEPT ![q] = Tail(@)] /\ UNCHANGED <<loaded, polling>>
  BY DEF Tick
<1>2. /\ \A p \in Queue : queue[p] \in Seq(Ids) /\ running[p] \in 0 .. Len(tasks)
      /\ running \in [Queue -> 0 .. Len(tasks)] /\ tasks \in Seq(TaskType)
      /\ Len(tasks) \in Nat /\ QueuesTypeOK
  BY DEF QueuesInv, QueuesTypeOK, Ids
<1>3. /\ i \in Ids /\ i = queue[q][1] /\ 1 \in DOMAIN queue[q] /\ Tail(queue[q]) \in Seq(Ids)
      /\ Len(queue[q]) \in Nat /\ Len(Tail(queue[q])) = Len(queue[q]) - 1
      /\ \A a \in DOMAIN Tail(queue[q]) : a + 1 \in DOMAIN queue[q] /\ a \in Nat /\ a > 0
                                           /\ Tail(queue[q])[a] = queue[q][a + 1]
      /\ \A a \in DOMAIN queue[q] : a # 1 => a - 1 \in DOMAIN Tail(queue[q]) /\ a \in Nat /\ a > 1
  BY <1>1, <1>2
<1>4. tasks[i].status = "queued" /\ QueueOf(tasks[i].kind) = q
  BY <1>3 DEF QueuesInv, QueueSorted
<1> HIDE DEF i
<1>5. /\ tasks' \in Seq(TaskType) /\ Len(tasks') = Len(tasks) /\ Ids' = Ids
      /\ \A j \in Ids : tasks'[j].kind = tasks[j].kind /\ tasks'[j].caller = tasks[j].caller
      /\ \A j \in Ids \ {i} : tasks'[j].status = tasks[j].status
      /\ tasks'[i].status = "running"
  BY <1>1, <1>2, <1>3, StatusStep
<1>6. /\ queue'[q] = Tail(queue[q]) /\ \A p \in Queue \ {q} : queue'[p] = queue[p]
      /\ running'[q] = i /\ \A p \in Queue \ {q} : running'[p] = running[p]
      /\ \A p \in Queue : queue'[p] \in Seq(Ids)
  BY <1>1, <1>2, <1>3 DEF QueuesInv, QueuesTypeOK
<1>7. QueuesTypeOK'
  <2>1. i \in 0 .. Len(tasks)
    BY <1>3 DEF Ids
  <2>2. running' \in [Queue -> 0 .. Len(tasks')]
    BY <2>1, <1>1, <1>2, <1>5
  <2>3. queue' \in [Queue -> Seq(1 .. Len(tasks'))]
    BY <1>1, <1>5, <1>6 DEF QueuesInv, QueuesTypeOK, Ids
  <2> QED BY <2>2, <2>3, <1>1, <1>5 DEF QueuesInv, QueuesTypeOK
<1>8. RunningIsOwn'
  <2>1. ASSUME NEW p \in Queue, running'[p] # 0
        PROVE  tasks'[running'[p]].status = "running" /\ QueueOf(tasks'[running'[p]].kind) = p
    <3>1. CASE p = q
      BY <3>1, <1>3, <1>4, <1>5, <1>6
    <3>2. CASE p # q
      <4>1. running'[p] = running[p] /\ running[p] \in Ids
        BY <2>1, <3>2, <1>2, <1>6 DEF Ids
      <4>2. tasks[running[p]].status = "running" /\ QueueOf(tasks[running[p]].kind) = p
        BY <2>1, <4>1 DEF QueuesInv, RunningIsOwn
      <4> QED BY <4>1, <4>2, <1>4, <1>5
    <3> QED BY <3>1, <3>2
  <2>2. ASSUME NEW j \in Ids, tasks'[j].status = "running"
        PROVE  running'[QueueOf(tasks'[j].kind)] = j
    <3>1. CASE j = i
      BY <3>1, <1>4, <1>5, <1>6
    <3>2. CASE j # i
      <4>1. running[QueueOf(tasks[j].kind)] = j
        BY <2>2, <3>2, <1>5 DEF QueuesInv, RunningIsOwn
      <4>2. QueueOf(tasks[j].kind) \in Queue
        BY <1>2, TasksHaveQueues
      <4>3. QueueOf(tasks[j].kind) # q
        BY <4>1, <1>1 DEF Ids
      <4> QED BY <4>1, <4>2, <4>3, <1>5, <1>6
    <3> QED BY <3>1, <3>2
  <2> QED BY <2>1, <2>2, <1>5 DEF RunningIsOwn
<1>9. CallersAdd'
  BY <1>5 DEF QueuesInv, CallersAdd
<1>10. Phases'
  <2> SUFFICES ASSUME NEW j \in Ids
               PROVE  /\ tasks'[j].kind \in {"syncBlocks", "popLastBlock"} => loaded'
                      /\ tasks'[j].kind = "loadBlocksOffset" /\ tasks'[j].status # "done" => ~loaded'
    BY <1>5 DEF Phases
  <2>1. tasks'[j].status # "done" => tasks[j].status # "done"
    BY <1>4, <1>5
  <2> QED BY <2>1, <1>1, <1>5 DEF QueuesInv, Phases
<1>11. QueueSorted'
  <2>1. ASSUME NEW p \in Queue, NEW a \in Nat, NEW b \in Nat,
               a \in DOMAIN queue'[p], b \in DOMAIN queue'[p], a < b
        PROVE  queue'[p][a] < queue'[p][b]
    <3>1. CASE p = q
      <4>1. a + 1 \in DOMAIN queue[q] /\ b + 1 \in DOMAIN queue[q] /\ a + 1 < b + 1
            /\ a + 1 \in Nat /\ b + 1 \in Nat
        BY <2>1, <3>1, <1>3, <1>6
      <4>2. queue[q][a + 1] < queue[q][b + 1]
        BY <4>1 DEF QueuesInv, QueueSorted
      <4> QED BY <2>1, <3>1, <4>2, <1>3, <1>6
    <3>2. CASE p # q
      BY <2>1, <3>2, <1>6 DEF QueuesInv, QueueSorted
    <3> QED BY <3>1, <3>2
  <2>2. ASSUME NEW p \in Queue, NEW a \in DOMAIN queue'[p]
        PROVE  tasks'[queue'[p][a]].status = "queued" /\ QueueOf(tasks'[queue'[p][a]].kind) = p
    <3>1. PICK b \in DOMAIN queue[p] : queue'[p][a] = queue[p][b] /\ (p = q => b > 1)
      <4>1. CASE p = q
        <5>1. a + 1 \in DOMAIN queue[q] /\ a + 1 > 1 /\ queue'[q][a] = queue[q][a + 1]
          BY <4>1, <1>3, <1>6
        <5> QED BY <4>1, <5>1
      <4>2. CASE p # q
        BY <4>2, <1>6
      <4> QED BY <4>1, <4>2
    <3>2. queue[p][b] \in Ids /\ tasks[queue[p][b]].status = "queued" /\ QueueOf(tasks[queue[p][b]].kind) = p
      BY <1>2 DEF QueuesInv, QueueSorted
    <3>3. queue[p][b] # i
      <4>1. CASE p = q
        <5>1. b \in Nat /\ 1 \in Nat /\ 1 < b
          BY <3>1, <4>1, <1>2
        <5>2. queue[q][1] < queue[q][b]
          BY <4>1, <5>1, <1>3 DEF QueuesInv, QueueSorted
        <5> QED BY <4>1, <5>2, <3>2, <1>3 DEF Ids
      <4>2. CASE p # q
        BY <4>2, <3>2, <1>4
      <4> QED BY <4>1, <4>2
    <3> QED BY <3>1, <3>2, <3>3, <1>5
  <2>3. ASSUME NEW j \in Ids, tasks'[j].status = "queued"
        PROVE  \E a \in DOMAIN queue'[QueueOf(tasks'[j].kind)] : queue'[QueueOf(tasks'[j].kind)][a] = j
    <3> DEFINE p == QueueOf(tasks[j].kind)
    <3>1. j # i /\ tasks[j].status = "queued" /\ QueueOf(tasks'[j].kind) = p
      BY <2>3, <1>5
    <3>2. PICK a \in DOMAIN queue[p] : queue[p][a] = j
      BY <3>1 DEF QueuesInv, QueueSorted
    <3>3. p \in Queue
      BY <1>2, TasksHaveQueues
    <3> HIDE DEF p
    <3>4. CASE p = q
      <4>1. a # 1
        BY <3>1, <3>2, <3>4, <1>3
      <4>2. a - 1 \in DOMAIN Tail(queue[q]) /\ Tail(queue[q])[a - 1] = queue[q][(a - 1) + 1] /\ a \in Nat
        BY <4>1, <3>2, <3>4, <1>3
      <4>3. (a - 1) + 1 = a
        BY <4>2
      <4>4. queue'[q][a - 1] = j /\ a - 1 \in DOMAIN queue'[q]
        BY <3>2, <3>4, <4>2, <4>3, <1>6
      <4> QED BY <3>1, <3>4, <4>4
    <3>5. CASE p # q
      BY <3>1, <3>2, <3>3, <3>5, <1>6
    <3> QED BY <3>4, <3>5
  <2> QED BY <2>1, <2>2, <2>3, <1>5 DEF QueueSorted
<1>12. TasksInOrder'
  <2> SUFFICES ASSUME NEW h \in Ids, NEW j \in Ids, h < j, tasks'[j].status # "queued",
                      QueueOf(tasks'[h].kind) = QueueOf(tasks'[j].kind)
               PROVE  tasks'[h].status = "done"
    BY <1>5 DEF TasksInOrder, Ids
  <2>1. QueueOf(tasks[h].kind) = QueueOf(tasks[j].kind)
    BY <1>5
  <2>2. CASE j # i
    <3>1. tasks[h].status = "done"
      BY <2>1, <2>2, <1>5 DEF QueuesInv, TasksInOrder, Ids
    <3> QED BY <3>1, <1>4, <1>5
  <2>3. CASE j = i
    <3>1. QueueOf(tasks[h].kind) = q /\ tasks[h] \in TaskType
      BY <2>1, <2>3, <1>2, <1>4 DEF Ids
    <3>2. tasks[h].status # "running"
      BY <3>1, <1>1 DEF QueuesInv, RunningIsOwn, Ids
    <3>3. tasks[h].status # "queued"
      <4> SUFFICES ASSUME tasks[h].status = "queued" PROVE FALSE
        OBVIOUS
      <4>1. PICK a \in DOMAIN queue[q] : queue[q][a] = h
        BY <3>1 DEF QueuesInv, QueueSorted
      <4>2. a # 1
        BY <4>1, <2>3, <1>3 DEF Ids
      <4>3. a \in Nat /\ 1 \in Nat /\ 1 < a
        BY <4>1, <4>2, <1>3
      <4>4. queue[q][1] < queue[q][a]
        BY <4>1, <4>3, <1>3 DEF QueuesInv, QueueSorted
      <4> QED BY <4>1, <4>4, <2>3, <1>3 DEF Ids
    <3>4. tasks[h].status = "done" /\ h # i
      BY <3>1, <3>2, <3>3, <2>3 DEF TaskType, Ids
    <3> QED BY <3>4, <1>5
  <2> QED BY <2>2, <2>3
<1> QED BY <1>7, <1>8, <1>9, <1>10, <1>11, <1>12 DEF QueuesInv

\* A task calls back.
LEMMA FinishInv ==
  ASSUME QueuesInv, NEW q \in Queue, Finish(q) PROVE QueuesInv'
<1> DEFINE i == running[q]
<1>1. /\ i # 0 /\ running' = [running EXCEPT ![q] = 0]
      /\ tasks' = [tasks EXCEPT ![i].status = "done"]
      /\ UNCHANGED <<queue, loaded>> /\ polling' \in {polling, "set"}
  BY DEF Finish
<1>2. /\ running \in [Queue -> 0 .. Len(tasks)] /\ tasks \in Seq(TaskType)
      /\ i \in Ids /\ QueuesTypeOK /\ \A p \in Queue : queue[p] \in Seq(Ids)
  BY <1>1 DEF QueuesInv, QueuesTypeOK, Ids
<1>3. tasks[i].status = "running" /\ QueueOf(tasks[i].kind) = q
  BY <1>1 DEF QueuesInv, RunningIsOwn
<1>4. /\ tasks' \in Seq(TaskType) /\ Len(tasks') = Len(tasks) /\ Ids' = Ids
      /\ \A j \in Ids : tasks'[j].kind = tasks[j].kind /\ tasks'[j].caller = tasks[j].caller
      /\ \A j \in Ids \ {i} : tasks'[j].status = tasks[j].status
      /\ tasks'[i].status = "done"
  BY <1>1, <1>2, StatusStep
<1> HIDE DEF i
<1>5. running'[q] = 0 /\ \A p \in Queue \ {q} : running'[p] = running[p]
  BY <1>1, <1>2
<1>6. QueuesTypeOK'
  <2>1. running' \in [Queue -> 0 .. Len(tasks')]
    BY <1>1, <1>2, <1>4
  <2>2. polling' \in {"unset", "set", "busy", "stopped"}
    BY <1>1 DEF QueuesInv, QueuesTypeOK
  <2> QED BY <2>1, <2>2, <1>1, <1>4 DEF QueuesInv, QueuesTypeOK
<1>7. RunningIsOwn'
  <2>1. ASSUME NEW p \in Queue, running'[p] # 0
        PROVE  tasks'[running'[p]].status = "running" /\ QueueOf(tasks'[running'[p]].kind) = p
    <3>1. p # q /\ running'[p] = running[p]
      BY <2>1, <1>5
    <3>2. running[p] \in Ids
      BY <2>1, <3>1, <1>2 DEF Ids
    <3>3. tasks[running[p]].status = "running" /\ QueueOf(tasks[running[p]].kind) = p
      BY <2>1, <3>1 DEF QueuesInv, RunningIsOwn
    <3>4. running[p] # i
      BY <3>1, <3>3, <1>3
    <3> QED BY <3>1, <3>2, <3>3, <3>4, <1>4
  <2>2. ASSUME NEW j \in Ids, tasks'[j].status = "running"
        PROVE  running'[QueueOf(tasks'[j].kind)] = j
    <3>1. j # i /\ tasks[j].status = "running"
      BY <2>2, <1>4
    <3>2. running[QueueOf(tasks[j].kind)] = j
      BY <3>1 DEF QueuesInv, RunningIsOwn
    <3>3. QueueOf(tasks[j].kind) \in Queue
      BY <1>2, TasksHaveQueues
    <3>4. QueueOf(tasks[j].kind) # q
      BY <3>1, <3>2 DEF i
    <3> QED BY <3>2, <3>3, <3>4, <1>4, <1>5
  <2> QED BY <2>1, <2>2, <1>4 DEF RunningIsOwn
<1>8. CallersAdd'
  BY <1>4 DEF QueuesInv, CallersAdd
<1>9. Phases'
  <2> SUFFICES ASSUME NEW j \in Ids
               PROVE  /\ tasks'[j].kind \in {"syncBlocks", "popLastBlock"} => loaded'
                      /\ tasks'[j].kind = "loadBlocksOffset" /\ tasks'[j].status # "done" => ~loaded'
    BY <1>4 DEF Phases
  <2>1. tasks'[j].status # "done" => tasks[j].status # "done"
    BY <1>4
  <2> QED BY <2>1, <1>1, <1>4 DEF QueuesInv, Phases
<1>10. QueueSorted'
  <2>1. \A p \in Queue, a, b \in Nat :
          a \in DOMAIN queue'[p] /\ b \in DOMAIN queue'[p] /\ a < b => queue'[p][a] < queue'[p][b]
    BY <1>1 DEF QueuesInv, QueueSorted
  <2>2. ASSUME NEW p \in Queue, NEW a \in DOMAIN queue'[p]
        PROVE  tasks'[queue'[p][a]].status = "queued" /\ QueueOf(tasks'[queue'[p][a]].kind) = p
    <3>1. a \in DOMAIN queue[p] /\ queue'[p][a] = queue[p][a] /\ queue[p][a] \in Ids
      BY <1>1, <1>2
    <3>2. tasks[queue[p][a]].status = "queued" /\ QueueOf(tasks[queue[p][a]].kind) = p
      BY <3>1 DEF QueuesInv, QueueSorted
    <3> QED BY <3>1, <3>2, <1>3, <1>4
  <2>3. ASSUME NEW j \in Ids, tasks'[j].status = "queued"
        PROVE  \E a \in DOMAIN queue'[QueueOf(tasks'[j].kind)] : queue'[QueueOf(tasks'[j].kind)][a] = j
    <3>1. j # i /\ tasks[j].status = "queued"
      BY <2>3, <1>4
    <3> QED BY <3>1, <1>1, <1>4 DEF QueuesInv, QueueSorted
  <2> QED BY <2>1, <2>2, <2>3, <1>4 DEF QueueSorted
<1>11. TasksInOrder'
  <2> SUFFICES ASSUME NEW h \in Ids, NEW j \in Ids, h < j, tasks'[j].status # "queued",
                      QueueOf(tasks'[h].kind) = QueueOf(tasks'[j].kind)
               PROVE  tasks'[h].status = "done"
    BY <1>4 DEF TasksInOrder, Ids
  <2>1. tasks[j].status # "queued" /\ QueueOf(tasks[h].kind) = QueueOf(tasks[j].kind)
    BY <1>3, <1>4
  <2>2. tasks[h].status = "done"
    BY <2>1 DEF QueuesInv, TasksInOrder, Ids
  <2> QED BY <2>2, <1>4
<1> QED BY <1>6, <1>7, <1>8, <1>9, <1>10, <1>11 DEF QueuesInv

-----------------------------------------------------------------------------
\* Every step keeps the invariant.
LEMMA QueuesNextInv == QueuesInv /\ [QueuesNext]_queuesVars => QueuesInv'
<1> SUFFICES ASSUME QueuesInv, [QueuesNext]_queuesVars PROVE QueuesInv'
  OBVIOUS
<1>1. CASE UNCHANGED queuesVars
  <2>1. UNCHANGED <<tasks, queue, running, loaded>> /\ polling' = polling
    BY <1>1 DEF queuesVars
  <2>2. Phases'
    BY <2>1 DEF QueuesInv, Phases, Ids
  <2>3. loaded \in BOOLEAN /\ polling \in {"unset", "set", "busy", "stopped"}
    BY DEF QueuesInv, QueuesTypeOK
  <2> QED BY <2>1, <2>2, <2>3, SameTasksInv
<1>2. CASE LoadBlocks
  BY <1>2, AddersInv
<1>3. CASE BlockchainReady
  BY <1>3, BlockchainReadyInv
<1>4. CASE StartSyncBlocks
  BY <1>4, AddersInv
<1>5. CASE \E k \in Requests : Receive(k)
  BY <1>5, AddersInv
<1>6. CASE \E q \in Queue : Tick(q) \/ Finish(q)
  BY <1>6, TickInv, FinishInv
<1>7. CASE \E q \in Queue, k \in Kind : AddAndWait(q, k)
  BY <1>7, AddAndWaitInv
<1>8. CASE PeerReady
  BY <1>8, PeerReadyInv
<1>9. CASE LoadUnconfirmedTransactions
  BY <1>9, AddersInv
<1> QED BY <1>1, <1>2, <1>3, <1>4, <1>5, <1>6, <1>7, <1>8, <1>9 DEF QueuesNext

\* The invariant of the queues holds in every state of the node.
THEOREM QueuesInvariance == QueuesSpec => []QueuesInv
BY QueuesInitInv, QueuesNextInv, PTL DEF QueuesSpec

\* However many tasks blocks.js, loader.js and the routes add, no two queues wait for
\* each other.
THEOREM NeverCircular == QueuesSpec => []NoCircularWait
BY InvNoCircle, QueuesInvariance, PTL

\* Sequence.__tick takes the tasks of a queue in the order Sequence.add was called.
THEOREM Ordered == QueuesSpec => []TasksInOrder
<1>1. QueuesInv => TasksInOrder
  BY DEF QueuesInv
<1> QED BY <1>1, QueuesInvariance, PTL

=============================================================================
