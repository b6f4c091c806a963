---------------------------- MODULE SnapshotStore ----------------------------
(***************************************************************************)
(* What the balance cache of a node promises to its users (applyBlock,     *)
(* the loader, the user interface): values are set one by one, and then    *)
(* all of them are kept, by a commit, or all of them are taken back, by a  *)
(* rollback.  An address is present once one of its values has been set.   *)
(***************************************************************************)
CONSTANTS Address, Currency, Value, Unset

VARIABLES current, saved
vars == <<current, saved>>

\* The store without an address, where no value is set.
Empty == [present |-> {}, value |-> [k \in Address \X Currency |-> Unset]]

Init == current = Empty /\ saved = Empty

Set(a, c, v) ==
  /\ current' = [present |-> current.present \cup {a},
                 value |-> [current.value EXCEPT ![<<a, c>>] = v]]
  /\ UNCHANGED saved

Commit == saved' = current /\ UNCHANGED current

Rollback == current' = saved /\ UNCHANGED saved

Next ==
  \/ \E a \in Address, c \in Currency, v \in Value : Set(a, c, v)
  \/ Commit
  \/ Rollback

Spec == Init /\ [][Next]_vars

=============================================================================
