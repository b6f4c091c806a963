-------------------------- MODULE Multisignatures --------------------------
(***************************************************************************)
(* One account and the transactions that make it a multisignature account  *)
(* or spend from it: signatures of its members are gathered on a node, the *)
(* transaction is forged when it has enough.                               *)
(* Code: src/src/core/multisignatures.js (processSignature, sign, and the  *)
(* Multisignature type), verify and apply in src/src/base/transaction.js,  *)
(* the pool in src/src/core/transactions.js, blocks in blocks.js.          *)
(*                                                                         *)
(* A step is a task of library.balancesSequence, the part of a handler     *)
(* before it queues one, or a step of findUpdate.  A signature is a        *)
(* string that verifies under one key; others may verify under it, too.    *)
(***************************************************************************)
EXTENDS Integers, Sequences, FiniteSets, SequencesExt, Lists

CONSTANTS
  Key,       \* the members' keys
  Owner,     \* the account's own key
  Signature, \* strings
  KeyOf,     \* KeyOf[x]: the key that x verifies under
  Creation,  \* transactions of type MULTI of the account
  Spend,     \* other transactions of the account
  Group,     \* Group[c]: the keysgroup of creation c
  Minimum,   \* Minimum[c]: its min
  Requester, \* Requester[t]: the member who asks for t in place of the owner, ...
  Nobody,    \* ... if any
  Rank,      \* Rank[t]: where sortTransactions puts t
  Offers,    \* sets of transactions, of which those of one come
  MaxSubmit, \* bound: signatures that come in, for each of them
  MaxHeight, \* bound: blocks above the genesis block
  MaxFault   \* bound: blocks that fail, synchronisations and restarts

Tx == Creation \cup Spend

ASSUME ConstantsAssumption ==
  /\ Creation \cap Spend = {}
  /\ Group \in [Creation -> SUBSET Key] /\ Minimum \in [Creation -> Nat]
  /\ \A c \in Creation : IsFiniteSet(Group[c]) /\ Minimum[c] \in 2 .. Cardinality(Group[c]) + 1
  /\ Owner \notin Key /\ KeyOf \in [Signature -> Key \cup {Owner}]
  /\ Nobody \notin Key \cup {Owner} /\ Requester \in [Spend -> Key \cup {Nobody}]
  /\ Rank \in [Tx -> Nat] /\ \A t, u \in Tx : Rank[t] = Rank[u] => t = u
  /\ Offers \subseteq SUBSET Tx
  /\ IsFiniteSet(Signature) /\ IsFiniteSet(Tx) \* bytes and hashes
  /\ MaxSubmit \in [Offers -> Nat] /\ {MaxHeight, MaxFault} \subseteq Nat

VARIABLES
  chain,      \* blocks above the genesis block: a function of transactions to
              \* the signatures they are forged with
  account,    \* multisignatures, multimin, u_multisignatures, u_multimin
  pending,    \* private.unconfirmedSignatures of the account
  pool,       \* the pool, in the order received
  invalid,    \* private.invalidIds
  signatures, \* those of each transaction object
  asked,      \* processSignature, waiting for the account
  queue,      \* processSignature, waiting for its task
  held,       \* what findUpdate has undone and will give back
  syncing,    \* findUpdate is running
  offered,    \* what clients and other nodes have to send
  submits, faults, \* history: how many there were
  dropped,    \* history: a creation was held, is in no list and was not undone
  restarted   \* history: the node stopped with a creation in the pool

vars == <<chain, account, pending, pool, invalid, signatures, asked, queue, held, syncing, offered,
          submits, faults, dropped, restarted>>
bounds == <<submits, faults>>

Top == Len(chain)
Confirmed(t) == \E h \in 1 .. Top : t \in DOMAIN chain[h]
Keys(s) == {KeyOf[x] : x \in ToSet(s)}
Distinct(s) == Cardinality(ToSet(s)) = Len(s)

\* Whose signatures t may have, with the account's group: a creation that is the
\* first those of its own; what a member asks for the owner's, and not that member's.
Signers(t, group) ==
  IF t \in Creation THEN IF group = {} THEN Group[t] ELSE group
  ELSE IF Requester[t] = Nobody THEN group
  ELSE (group \cup {Owner}) \ {Requester[t]}

\* Mutation: only the number of signatures is compared.
VerifyCountOnly(t, s, acc) == TRUE

\* The strings are counted, not the members.
Ready(t, s, acc) ==
  IF t \in Creation /\ acc.group = {} THEN Len(s) = Cardinality(Group[t])
  ELSE IF acc.group = {} THEN TRUE
  ELSE Len(s) >= acc.min - 1

\* verify: who asks is a member; the strings are distinct and each verifies under a key
\* that may sign; a creation that is ready has those of all members.  (One with a
\* requester is never held: its account has a group.)
Verify(t, s, acc) ==
  /\ t \in Spend => Requester[t] \in acc.group \cup {Nobody}
  /\ Distinct(s) /\ Keys(s) \subseteq Signers(t, acc.group)
  /\ t \in Creation /\ Ready(t, s, acc) => Group[t] \subseteq Keys(s)

\* sortTransactions
Before(t, u) == Rank[t] < Rank[u]
Sorted(S) == InOrder(S, Before)
-----------------------------------------------------------------------------
(* The account; s has it with `pending' *)

NoAccount == [group |-> {}, min |-> 0, uGroup |-> {}, uMin |-> 0]
State == [acc |-> account, pending |-> pending, pool |-> pool]

\* The columns merged with a creation, or with its reverse.
AddUnconfirmed(acc, t) == [acc EXCEPT !.uGroup = @ \cup Group[t], !.uMin = @ + Minimum[t]]
RemoveUnconfirmed(acc, t) == [acc EXCEPT !.uGroup = @ \ Group[t], !.uMin = @ - Minimum[t]]
AddConfirmed(acc, t) == [acc EXCEPT !.group = @ \cup Group[t], !.min = @ + Minimum[t]]
RemoveConfirmed(acc, t) == [acc EXCEPT !.group = @ \ Group[t], !.min = @ - Minimum[t]]

\* applyUnconfirmed
CanHold(s, t) == t \in Creation => ~s.pending /\ s.acc.group = {}
Hold(s, t) ==
  IF t \notin Creation THEN s
  ELSE [s EXCEPT !.pending = TRUE, !.acc = AddUnconfirmed(@, t)]

\* Mutation: what is pending is not forgotten.
ReleaseGroup(s, t) ==
  IF t \notin Creation THEN s
  ELSE [s EXCEPT !.acc = RemoveUnconfirmed(@, t)]

\* undoUnconfirmed
Release(s, t) ==
  IF t \notin Creation THEN s
  ELSE [s EXCEPT !.pending = FALSE, !.acc = RemoveUnconfirmed(@, t)]

\* apply, undo
Apply(s, t) ==
  IF t \notin Creation THEN s
  ELSE [s EXCEPT !.pending = FALSE, !.acc = AddConfirmed(@, t)]

\* Mutation: the minimum stays when the group goes.
UndoGroup(s, t) ==
  IF t \notin Creation THEN s
  ELSE [s EXCEPT !.pending = TRUE, !.acc.group = @ \ Group[t]]
Undo(s, t) ==
  IF t \notin Creation THEN s
  ELSE [s EXCEPT !.pending = TRUE, !.acc = RemoveConfirmed(@, t)]

\* processUnconfirmedTransaction; what is in `made' is in the block just applied
Accepts(s, t, sigs, made) ==
  /\ t \notin ToSet(s.pool) /\ ~Confirmed(t) /\ t \notin made
  /\ Verify(t, sigs, s.acc) /\ CanHold(s, t)
Receive(s, t) == [Hold(s, t) EXCEPT !.pool = Append(@, t)]

\* receiveTransactions: up to the first that is refused
ReceiveOne(r, t, made) ==
  IF r.going /\ Accepts(r.s, t, signatures[t], made) THEN [r EXCEPT !.s = Receive(@, t)]
  ELSE [r EXCEPT !.going = FALSE]
ReceiveEach(r, list, made) == FoldLeft(LAMBDA x, t : ReceiveOne(x, t, made), r, list)
ReceiveAll(s, list, made) == ReceiveEach([going |-> TRUE, s |-> s], list, made).s

\* applyBlock on one transaction after the other, to the first that fails: what is not
\* ready is refused by apply, and was held already.
ApplyBoth(s, t) == Apply(Hold(s, t), t)
ProcessOne(r, t, b) ==
  IF r.failed # {} THEN r
  ELSE IF ~CanHold(r.s, t) THEN [r EXCEPT !.failed = {t}]
  ELSE IF ~Ready(t, b[t], r.s.acc)
  THEN [r EXCEPT !.s = Hold(@, t), !.failed = {t}, !.refused = {t}]
  ELSE [r EXCEPT !.s = ApplyBoth(@, t), !.applied = @ \cup {t}]
ProcessEach(r, list, b) == FoldLeft(LAMBDA x, t : ProcessOne(x, t, b), r, list)
Process(s, b) ==
  ProcessEach([s |-> s, applied |-> {}, failed |-> {}, refused |-> {}], Sorted(DOMAIN b), b)

\* popLastBlock on one transaction
UndoBoth(s, t) == Release(Undo(s, t), t)

\* undoUnconfirmedList
UndoAll(s) == FoldLeft(Release, [s EXCEPT !.pool = <<>>], s.pool)
-----------------------------------------------------------------------------
Init ==
  /\ chain = <<>> /\ account = NoAccount /\ pending = FALSE
  /\ pool = <<>> /\ invalid = {} /\ signatures = [t \in Tx |-> <<>>]
  /\ asked = {} /\ queue = <<>>
  /\ held = <<>> /\ syncing = FALSE
  /\ offered \in Offers /\ submits = 0 /\ faults = 0
  /\ dropped = FALSE /\ restarted = FALSE

Update(s) == account' = s.acc /\ pending' = s.pending /\ pool' = s.pool

\* The objects that are in no list any more are gone.
Forget ==
  signatures' = [t \in Tx |-> IF t \in ToSet(pool') \cup ToSet(held') THEN signatures[t] ELSE <<>>]

\* A transaction comes from a client or a peer, with the signatures it has there.
ReceiveTransaction(t, S) ==
  /\ t \notin invalid /\ Accepts(State, t, SetToSeq(S), {})
  /\ signatures' = [signatures EXCEPT ![t] = SetToSeq(S)]
  /\ Update(Receive(State, t))
  /\ UNCHANGED <<chain, invalid, asked, queue, held, syncing, offered, bounds, dropped, restarted>>

\* processSignature of x, from a client, a peer or loadSignatures, any number of times:
\* that of a creation is checked at once, ...
Submit(t, x) ==
  /\ submits < MaxSubmit[offered] /\ t \in ToSet(pool)
  /\ submits' = submits + 1
  /\ IF t \in Creation
     THEN /\ KeyOf[x] \in Group[t] /\ x \notin ToSet(signatures[t])
          /\ queue' = Append(queue, [tx |-> t, sig |-> x])
          /\ UNCHANGED asked
     ELSE /\ asked' = asked \cup {[tx |-> t, sig |-> x, group |-> account.group]}
          /\ UNCHANGED queue
  /\ UNCHANGED <<chain, account, pending, pool, invalid, signatures, held, syncing, offered,
                 faults, dropped, restarted>>

\* ... that of another transaction when the account is read; here the member who asks
\* for it may sign it, too.
Answer(a) ==
  /\ a \in asked /\ asked' = asked \ {a}
  /\ LET keys == IF Requester[a.tx] = Nobody THEN a.group ELSE a.group \cup {Owner}
     IN  queue' = IF KeyOf[a.sig] \in keys /\ a.sig \notin ToSet(signatures[a.tx])
                  THEN Append(queue, [tx |-> a.tx, sig |-> a.sig]) ELSE queue
  /\ UNCHANGED <<chain, account, pending, pool, invalid, signatures, held, syncing, offered,
                 bounds, dropped, restarted>>

\* The task: the transaction is looked up again, the signature is not.
AddSignature ==
  /\ queue # <<>> /\ queue' = Tail(queue)
  /\ LET q == Head(queue)
     IN  signatures' = IF q.tx \in ToSet(pool)
                       THEN [signatures EXCEPT ![q.tx] = Append(@, q.sig)] ELSE signatures
  /\ UNCHANGED <<chain, account, pending, pool, invalid, asked, held, syncing, offered,
                 bounds, dropped, restarted>>

\* applyBlock: the pool is undone, the block applied, the pool redone from its end,
\* without what was applied or is invalid.  When a transaction fails, or the block after
\* them all, the tables go back, `pending' does not: that of a creation that apply
\* refused stays set.  `gone': a creation left the pool before.
ApplyBlock(b, before, gone) ==
  LET clean == UndoAll(before)
      r == Process(clean, b)
      back == [r.s EXCEPT !.acc = clean.acc]
      rest == Without(Reverse(before.pool), r.applied \cup invalid')
  IN  /\ UNCHANGED <<asked, queue, held, syncing, offered, submits, restarted>>
      /\ invalid' = invalid \cup r.failed
      /\ dropped' = (gone \/ r.refused \cap Creation # {})
      /\ \/ /\ r.failed = {} /\ Top < MaxHeight
            /\ chain' = Append(chain, b) /\ faults' = faults
            /\ Update(ReceiveAll(r.s, rest, DOMAIN b))
         \/ /\ r.failed = {} => faults < MaxFault
            /\ faults' = IF r.failed = {} THEN faults + 1 ELSE faults
            /\ chain' = chain
            /\ Update(ReceiveAll(back, rest, {}))
      /\ Forget

\* generateBlock: what is ready and verifies is in the block, what is ready and
\* does not is removed, and not undone.
Forge ==
  LET ready == {t \in ToSet(pool) : Ready(t, signatures[t], account)}
      good == {t \in ready : Verify(t, signatures[t], account)}
      bad == ready \ good
  IN  /\ ~syncing /\ ready # {}
      /\ ApplyBlock([t \in good |-> signatures[t]], [State EXCEPT !.pool = Without(@, bad)],
                    dropped \/ bad \cap Creation # {})

\* A block of another node, with one transaction of the account, signed by S;
\* processBlock verifies it.
ReceiveBlock(t, S) ==
  LET b == [u \in {t} |-> SetToSeq(S)]
  IN  /\ ~Confirmed(t) /\ Verify(t, b[t], account)
      /\ ApplyBlock(b, State, dropped)

\* findUpdate: the pool is undone outside the queue of tasks, ...
StartSync ==
  /\ ~syncing /\ faults < MaxFault
  /\ syncing' = TRUE /\ faults' = faults + 1
  /\ held' = Reverse(pool) /\ Update(UndoAll(State))
  /\ UNCHANGED <<chain, invalid, signatures, asked, queue, offered, submits, dropped, restarted>>

\* ... blocks are popped (and others applied), ...
PopBlock ==
  LET s == FoldLeft(UndoBoth, State, Reverse(Sorted(DOMAIN chain[Top])))
  IN  /\ syncing /\ chain # <<>>
      /\ chain' = Front(chain) /\ Update(s)
      /\ UNCHANGED <<invalid, signatures, asked, queue, held, syncing, offered, bounds, dropped, restarted>>

\* ... and the pool is given back.
EndSync ==
  /\ syncing /\ syncing' = FALSE /\ held' = <<>>
  /\ Update(ReceiveAll(State, Without(held, invalid), {})) /\ Forget
  /\ UNCHANGED <<chain, invalid, asked, queue, offered, bounds, dropped, restarted>>

\* The node stops and starts: what is in memory is lost; the unconfirmed members
\* and minimum stay in their tables as they were.
Restart ==
  /\ faults < MaxFault /\ faults' = faults + 1
  /\ pending' = FALSE /\ pool' = <<>> /\ held' = <<>> /\ syncing' = FALSE
  /\ asked' = {} /\ queue' = <<>> /\ invalid' = {} /\ dropped' = FALSE
  /\ restarted' = (restarted \/ pending) /\ Forget
  /\ UNCHANGED <<chain, account, offered, submits>>

Next ==
  \/ \E t \in offered, S \in SUBSET Signature : ReceiveTransaction(t, S) \/ ReceiveBlock(t, S)
  \/ \E t \in offered, x \in Signature : Submit(t, x)
  \/ \E a \in asked : Answer(a)
  \/ AddSignature
  \/ Forge
  \/ StartSync \/ PopBlock \/ EndSync
  \/ Restart

Spec == Init /\ [][Next]_vars
-----------------------------------------------------------------------------
(* Properties *)

Account == [group : SUBSET Key, min : Int, uGroup : SUBSET Key, uMin : Int]
TypeOK ==
  /\ \A h \in 1 .. Top : DOMAIN chain[h] \subseteq Tx /\ chain[h] \in [DOMAIN chain[h] -> Seq(Signature)]
  /\ account \in Account /\ pool \in Seq(Tx) /\ IsInjective(pool) /\ held \in Seq(Tx)
  /\ invalid \subseteq Tx /\ signatures \in [Tx -> Seq(Signature)]
  /\ asked \subseteq [tx : Spend, sig : Signature, group : SUBSET Key]
  /\ queue \in Seq([tx : Tx, sig : Signature])
  /\ {pending, syncing, dropped, restarted} \subseteq BOOLEAN

Creations == {c \in Creation : Confirmed(c)}
InPool == Creation \cap ToSet(pool)

\* The account has the group and the minimum of the creation in the chain, and
\* none if there is none, whatever was popped or failed on the way.
GroupReflectsChain ==
  /\ TypeOK
  /\ Cardinality(Creations) <= 1
  /\ account.group = UNION {Group[c] : c \in Creations}
  /\ account.min = IF Creations = {} THEN 0 ELSE Minimum[CHOOSE c \in Creations : TRUE]

\* A creation in the pool is pending, and nothing else is, until generateBlock removes
\* one or a block fails on one: the flag, which is in memory, is then left set.  Its
\* members and minimum are in the unconfirmed columns: tables, which a restart leaves
\* alone.
PendingReflectsPool ==
  /\ InPool # {} => pending
  /\ ~dropped =>
       /\ pending => InPool # {}
       /\ ~restarted =>
            /\ account.uGroup = account.group \cup UNION {Group[c] : c \in InPool}
            /\ account.uMin = account.min
                 + IF InPool = {} THEN 0 ELSE Minimum[CHOOSE c \in InPool : TRUE]

\* However often and late signatures came in, every creation in the chain has one of each
\* member, and every transaction above it min - 1 different ones, of the group (and the
\* owner, but not of the member who asked for it): strings, not members, are counted.
ForgedAreSigned ==
  \A h \in 1 .. Top : \A t \in DOMAIN chain[h] :
    LET s == chain[h][t]
        before == {c \in Creation : \E g \in 1 .. h - 1 : c \in DOMAIN chain[g]}
    IN  /\ t \in Creation => Group[t] \subseteq Keys(s)
        /\ \A c \in before :
             /\ Cardinality(ToSet(s)) >= Minimum[c] - 1
             /\ Keys(s) \subseteq Signers(t, Group[c])
             /\ t \in Spend => Requester[t] \in Group[c] \cup {Nobody}

=============================================================================
