-------------------------------- MODULE Lists --------------------------------
(***************************************************************************)
(* What the code does to lists of transactions with filter and sort, written *)
(* by positions so that it can be reasoned about, and sums.                 *)
(***************************************************************************)
EXTENDS Integers, Sequences, FiniteSets, FiniteSetsExt

\* l without the elements of X, the others in their order.
Without(l, X) ==
  LET kept == {i \in DOMAIN l : l[i] \notin X}
      PlaceOf(i) == Cardinality({h \in kept : h <= i})
  IN  [p \in 1 .. Cardinality(kept) |-> l[CHOOSE i \in kept : PlaceOf(i) = p]]

\* The elements of S, each after those that are before it.
InOrder(S, before(_, _)) ==
  [p \in 1 .. Cardinality(S) |->
     CHOOSE t \in S : Cardinality({u \in S : before(u, t)}) = p - 1]

\* The sum of f over S.
Total(f, S) == MapThenSumSet(LAMBDA x : f[x], S)

=============================================================================
