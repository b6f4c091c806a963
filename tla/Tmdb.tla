-------------------------------- MODULE Tmdb --------------------------------
(***************************************************************************)
(* The transactional map behind the balance cache: a map of maps, from     *)
(* address and currency to balance, with an undo log.  set logs what it    *)
(* overwrites, and that it had to add the inner map of an address;         *)
(* rollback takes entries off the end of the log and undoes them, until    *)
(* the log is empty; commit forgets the log.                               *)
(* Code: src/src/utils/tmdb.js; BalanceManager (balance-manager.js), its   *)
(* only user, always passes two keys.                                      *)
(*                                                                         *)
(* rollback is a loop, and each of its rounds is a step here; rolling says *)
(* that it runs, and nothing else happens meanwhile, since it never waits. *)
(***************************************************************************)
EXTENDS Integers, Sequences

CONSTANTS
  Address,   \* the keys of the outer map
  Currency,  \* the keys of the inner maps: 1 for the native token, or an asset
  Value,     \* the balances
  Unset,     \* JavaScript's undefined: no entry
  MaxLog     \* bound: the entries of the log

ASSUME UnsetAssumption == Unset \notin Value

VARIABLES
  outer,     \* the addresses that have an inner map
  map,       \* map[<<a, c>>]: the entry of c in the inner map of a
  log,       \* this.log
  rolling    \* rollback is at work

tmdbVars == <<outer, map, log, rolling>>

Slot == Address \X Currency
AddPath(a) == [type |-> "path", addr |-> a]
SetValue(a, c, old) == [type |-> "value", addr |-> a, cur |-> c, old |-> old]
Entry == [type : {"path"}, addr : Address]
           \cup [type : {"value"}, addr : Address, cur : Currency,
                 old : Value \cup {Unset}]

TmdbInit ==
  /\ outer = {}
  /\ map = [k \in Slot |-> Unset]
  /\ log = <<>>
  /\ rolling = FALSE

\* (Mutated: a new inner map is logged after the value that is set in it.)
NewEntriesPathLast(a, c) ==
  <<SetValue(a, c, map[<<a, c>>])>> \o (IF a \in outer THEN <<>> ELSE <<AddPath(a)>>)

\* What set logs before it writes.
NewEntries(a, c) ==
  (IF a \in outer THEN <<>> ELSE <<AddPath(a)>>) \o <<SetValue(a, c, map[<<a, c>>])>>

Set(a, c, v) ==
  /\ ~rolling
  /\ Len(log \o NewEntries(a, c)) <= MaxLog
  /\ log' = log \o NewEntries(a, c)
  /\ outer' = outer \cup {a}
  /\ map' = [map EXCEPT ![<<a, c>>] = v]
  /\ UNCHANGED rolling

Commit ==
  /\ ~rolling
  /\ log' = <<>>
  /\ UNCHANGED <<outer, map, rolling>>

\* rollback is called ...
Rollback ==
  /\ ~rolling
  /\ rolling' = TRUE
  /\ UNCHANGED <<outer, map, log>>

\* remove_: the inner map of a is dropped, with all that is in it.
RemovePath(a) ==
  /\ outer' = outer \ {a}
  /\ map' = [k \in Slot |-> IF k[1] = a THEN Unset ELSE map[k]]

\* set_: the old value is put back, or deleted if there was none; nothing
\* happens if the inner map is gone.
PutBack(a, c, old) ==
  /\ map' = IF a \in outer THEN [map EXCEPT ![<<a, c>>] = old] ELSE map
  /\ UNCHANGED outer

\* (Mutated: the log is undone from its beginning.)
UndoFirst ==
  LET e == log[1]
  IN  /\ rolling /\ log # <<>>
      /\ log' = Tail(log)
      /\ \/ e.type = "path" /\ RemovePath(e.addr)
         \/ e.type = "value" /\ PutBack(e.addr, e.cur, e.old)
      /\ UNCHANGED rolling

\* ... undoes the last entry of the log ...
Undo ==
  LET e == log[Len(log)]
  IN  /\ rolling /\ log # <<>>
      /\ log' = SubSeq(log, 1, Len(log) - 1)
      /\ \/ e.type = "path" /\ RemovePath(e.addr)
         \/ e.type = "value" /\ PutBack(e.addr, e.cur, e.old)
      /\ UNCHANGED rolling

\* ... and returns when there is none left.
RollbackDone ==
  /\ rolling /\ log = <<>>
  /\ rolling' = FALSE
  /\ UNCHANGED <<outer, map, log>>

TmdbNext ==
  \/ \E a \in Address, c \in Currency, v \in Value : Set(a, c, v)
  \/ Commit
  \/ Rollback
  \/ Undo
  \/ RollbackDone

TmdbSpec == TmdbInit /\ [][TmdbNext]_tmdbVars

-----------------------------------------------------------------------------
(* Properties *)

TmdbTypeOK ==
  /\ outer \subseteq Address
  /\ map \in [Slot -> Value \cup {Unset}]
  /\ log \in Seq(Entry)
  /\ rolling \in BOOLEAN

IsValueOf(l, i, k) ==
  i \in DOMAIN l /\ l[i].type = "value" /\ l[i].addr = k[1] /\ l[i].cur = k[2]
IsPathOf(l, i, a) == i \in DOMAIN l /\ l[i].type = "path" /\ l[i].addr = a

\* The oldest entry of slot k in the log l.
IsOldest(l, i, k) == IsValueOf(l, i, k) /\ \A j \in 1 .. i - 1 : ~IsValueOf(l, j, k)

\* What a rollback of the log l makes of slot k of the map m.
RestoredValue(l, m, k) ==
  IF \E i \in DOMAIN l : IsValueOf(l, i, k)
  THEN l[CHOOSE i \in DOMAIN l : IsOldest(l, i, k)].old
  ELSE m[k]
Restored ==
  [present |-> {a \in outer : \A i \in DOMAIN log : ~IsPathOf(log, i, a)},
   value   |-> [k \in Slot |-> RestoredValue(log, map, k)]]

\* The log is in an order that can be undone from its end: an address that was
\* added has one entry for that, before the entries of its values, and was empty
\* before; an address without an inner map has no value and no entry
\* (otherwise remove_ would drop values that were there before, or set_ find no
\* inner map to put a value back into).
LogUndoable ==
  /\ TmdbTypeOK
  /\ \A i \in DOMAIN log : log[i].addr \in outer
  /\ \A k \in Slot : k[1] \notin outer => map[k] = Unset
  /\ \A a \in Address : \A i \in DOMAIN log : IsPathOf(log, i, a) =>
        /\ \A j \in DOMAIN log : log[j].addr = a /\ j # i => i < j
        /\ \A c \in Currency : RestoredValue(log, map, <<a, c>>) = Unset

\* set, commit and rollback of the map with its log are those of a store that is
\* copied as a whole: after any number of sets, on addresses new and old, on the
\* same value again and again, a rollback gives back every value, and every
\* address, as the last commit left it.
Abstract == INSTANCE SnapshotStore WITH
  current <- IF rolling THEN Restored ELSE [present |-> outer, value |-> map],
  saved   <- Restored
Refines == Abstract!Spec

=============================================================================
