----------------------------- MODULE MCTaskQueues -----------------------------
(* Blocks and the questions of peers for blocks; what a client sends is in the  *)
(* same queue as the transactions that the timer asks for, and the signatures   *)
(* of a peer wait as a block does.                                              *)
EXTENDS TaskQueues

MCRequests == {"processBlock", "loadBlocksData"}

=============================================================================
