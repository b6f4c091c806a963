-------------------------- MODULE MCTimelyConsensus --------------------------
(* A small instance of TimelyConsensus: four delegates, so a block needs three *)
(* votes.                                                                       *)
EXTENDS TimelyConsensus, TLC

CONSTANTS n1, n2, d1, d2, d3, d4

\* The delegates take turns in this order.
MCDelegateAt == [i \in 0 .. 3 |-> <<d2, d1, d3, d4>>[i + 1]]

\* Two nodes of two delegates: each needs a vote of the other.
TwoTwo == n1 :> {d1, d2} @@ n2 :> {d3, d4}

=============================================================================
