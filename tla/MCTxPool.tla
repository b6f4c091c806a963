------------------------------ MODULE MCTxPool ------------------------------
(* Small instances of TxPool: two accounts, of which the first can pay for one *)
(* of its transactions only.                                                   *)
EXTENDS TxPool, TLC

CONSTANTS a, b, t1, t2, t3

TwoTx == t1 :> a @@ t2 :> a
ThreeTx == t1 :> a @@ t2 :> a @@ t3 :> b

CostTwo == [t \in Tx |-> 2]
MCFunds == a :> 3 @@ b :> 8

=============================================================================
