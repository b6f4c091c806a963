------------------------------ MODULE MCRound ------------------------------
(* Small instances of Round: three delegates of a round, one more outside.  d2    *)
(* votes for two delegates, pays the fees, and may vote for the one outside.      *)
EXTENDS Round, TLC

CONSTANTS d0, d1, d2, d3, d4

MCMoves(payer, amount, fee, payee) ==
  [a \in Account |-> IF a = payer THEN -amount - fee ELSE IF a = payee THEN amount ELSE 0]
MCBlock ==
  {[generator |-> d1, fee |-> 1, moves |-> MCMoves(d2, 1, 1, d3), vote |-> NoVote],
   [generator |-> d2, fee |-> 0, moves |-> NoMoves, vote |-> NoVote],
   [generator |-> d1, fee |-> 1, moves |-> MCMoves(d2, 0, 1, d2), vote |-> <<d2, d4>>],
   [generator |-> d4, fee |-> 0, moves |-> NoMoves, vote |-> NoVote]}
MCKey == d1 :> 1 @@ d2 :> 2 @@ d3 :> 3 @@ d4 :> 4
MCFunds == d0 :> 0 @@ d1 :> 0 @@ d2 :> 4 @@ d3 :> 1 @@ d4 :> 0
MCDelegates == {<<d2, d1>>, <<d2, d2>>, <<d3, d3>>}

=============================================================================
