------------------------------ MODULE MCLedger ------------------------------
(* A small instance of Ledger. *)
EXTENDS Ledger, TLC

CONSTANTS a, b

Transfer(i, s, r, n) ==
  [id |-> i, sender |-> s, recipient |-> r, amount |-> n, asset |-> FALSE]
AssetTransfer(i, s, r, n) == [Transfer(i, s, r, n) EXCEPT !.asset = TRUE]

\* a can pay for one of the transfers 1 and 2, b for 3 and 4 only with what a
\* has sent it.
MCTx == {Transfer(1, a, b, 2), AssetTransfer(2, a, b, 2),
         Transfer(3, b, a, 1), AssetTransfer(4, b, a, 1)}
MCFunds == a :> 3 @@ b :> 1
MCAssetFunds == a :> 2 @@ b :> 0

=============================================================================
