---------------------------- MODULE MCDelegateList ----------------------------
(* Up to six delegates for five slots. *)
EXTENDS DelegateList, TLC

CONSTANTS d1, d2, d3, d4, d5, d6
MCKey == d1 :> 1 @@ d2 :> 2 @@ d3 :> 3 @@ d4 :> 4 @@ d5 :> 5 @@ d6 :> 6

=============================================================================
