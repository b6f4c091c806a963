----------------------------- MODULE MCConsensus -----------------------------
(* A small instance of Consensus: four delegates, so a block needs three votes. *)
EXTENDS Consensus, TLC

CONSTANTS n1, n2, d1, d2, d3, d4

\* The delegates take turns in this order.
MCDelegateAt == [i \in 0 .. 3 |-> <<d2, d1, d3, d4>>[i + 1]]

\* n1 can decide alone, n2 needs the votes of n1.
ThreeOne == n1 :> {d2, d3, d4} @@ n2 :> {d1}

=============================================================================
