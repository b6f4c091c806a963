----------------------------- MODULE DelegateList -----------------------------
(***************************************************************************)
(* How the list of a round is made from the delegates with the most votes,  *)
(* and whose slot it is: every node computes it alone, and a delegate that  *)
(* is in it twice, or not at all, or has no slot, would never be noticed    *)
(* by a unit test of one list.                                              *)
(* Code: src/src/core/delegates.js (getKeysSortByVote, generateDelegateList,*)
(* getBlockSlotData), src/src/utils/slots.js.                               *)
(*                                                                          *)
(* A step is one step of generateDelegateList's loops.  sha256 of the seed  *)
(* is any sequence of four bytes.                                           *)
(***************************************************************************)
EXTENDS Integers, Sequences, FiniteSets

CONSTANTS
  Delegate, \* the public keys that may be registered
  Key,      \* Key[d]: the order of public keys
  Votes,    \* possible votes of a delegate
  Slots,    \* slots.delegates, 101
  Byte      \* values of a byte of the seed, 0 .. 255

ASSUME DelegatesAssumption ==
  /\ IsFiniteSet(Delegate)
  /\ Key \in [Delegate -> Nat] /\ \A d, e \in Delegate : Key[d] = Key[e] => d = e
  /\ Votes \subseteq Int
  /\ Slots \in Nat \ {0}
  /\ Byte \subseteq Nat

VARIABLES
  vote,  \* of each account with isDelegate, when the list is made
  list,  \* truncDelegateList, from 1
  place, \* i of the two loops
  taken, \* x, the bytes of the seed that are taken
  ended  \* the outer loop has ended

listVars == <<vote, list, place, taken, ended>>

\* getKeysSortByVote: most votes first, then by public key, the first Slots of them
Ahead(v, d, e) == v[d] > v[e] \/ (v[d] = v[e] /\ Key[d] < Key[e])
RankOf(v, d) == 1 + Cardinality({e \in DOMAIN v : Ahead(v, e, d)})
Length(v) == IF Cardinality(DOMAIN v) < Slots THEN Cardinality(DOMAIN v) ELSE Slots
KeysSortByVote(v) == [p \in 1 .. Length(v) |-> CHOOSE d \in DOMAIN v : RankOf(v, d) = p]
Elected(v) == {d \in DOMAIN v : RankOf(v, d) <= Slots}

ListInit ==
  /\ vote \in UNION {[R -> Votes] : R \in SUBSET Delegate}
  /\ list = KeysSortByVote(vote)
  /\ place = 0 /\ taken = 0 /\ ended = (Length(vote) = 0)

\* Mutation: the other place is not written.
SwapHalf(s, p, q) == [s EXCEPT ![q] = s[p]]
Swap(s, p, q) == [s EXCEPT ![q] = s[p], ![p] = s[q]]

\* The inner loop, with byte b of the seed.
Exchange(b) ==
  /\ ~ended /\ taken < 4 /\ place < Length(vote)
  /\ list' = Swap(list, place + 1, (b % Length(vote)) + 1)
  /\ place' = place + 1 /\ taken' = taken + 1
  /\ UNCHANGED <<vote, ended>>

\* The next seed; the outer loop counts on too, so every fifth is not exchanged.
NextSeed ==
  /\ ~ended /\ ~(taken < 4 /\ place < Length(vote))
  /\ place' = place + 1 /\ taken' = 0 /\ ended' = (place + 1 >= Length(vote))
  /\ UNCHANGED <<vote, list>>

ListNext == NextSeed \/ \E b \in Byte : Exchange(b)

\* The loops are one synchronous call.
ListSpec == ListInit /\ [][ListNext]_listVars

\* Mutation: slots are divided among the delegates there are.
DelegateOfWrapped(slot) ==
  LET p == (slot % Length(vote)) + 1 IN IF p \in DOMAIN list THEN {list[p]} ELSE {}

\* getBlockSlotData, validateBlockSlot: the delegate of a slot, if there is one
DelegateOf(slot) ==
  LET p == (slot % Slots) + 1 IN IF p \in DOMAIN list THEN {list[p]} ELSE {}

\* getBlockSlotData: the next slot of a node with these keypairs
NextSlot(slot, keypairs) ==
  LET mine == {s \in slot .. slot + Slots - 1 : DelegateOf(s) \cap keypairs # {}}
  IN  IF mine = {} THEN -1 ELSE CHOOSE s \in mine : \A r \in mine : s <= r
-----------------------------------------------------------------------------
(* Properties *)

ListTypeOK ==
  /\ list \in [1 .. Length(vote) -> Delegate] /\ ended \in BOOLEAN
  /\ place \in 0 .. Length(vote) + 1 /\ taken \in 0 .. 4

\* However the seed falls, the list has every elected delegate, once.
ListIsElected ==
  /\ ListTypeOK
  /\ {list[p] : p \in DOMAIN list} = Elected(vote)
  /\ \A p, q \in DOMAIN list : list[p] = list[q] => p = q

\* In any Slots slots, from whichever they are counted, every elected delegate has
\* one, and a node with the key of one finds it.
OneSlotEach ==
  \A slot \in 0 .. 2 * Slots : \A d \in Elected(vote) :
    LET own == {s \in slot .. slot + Slots - 1 : d \in DelegateOf(s)}
    IN  Cardinality(own) = 1 /\ NextSlot(slot, {d}) \in own

=============================================================================
