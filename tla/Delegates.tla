------------------------------ MODULE Delegates ------------------------------
(***************************************************************************)
(* Accounts that set a second signature, register as delegates and vote:   *)
(* the tables of the accounts, what library.oneoff keeps of the pool       *)
(* ("Double submit") and the unconfirmed balance the fees are taken from.  *)
(* Code: the Vote type in src/src/core/accounts.js, the Delegate type and  *)
(* checkDelegates in delegates.js, the Signature type in signatures.js,    *)
(* src/src/base/transaction.js, the pool in transactions.js, blocks.js.    *)
(*                                                                         *)
(* A step is a task of library.balancesSequence or a step of findUpdate.   *)
(* Every fee is 1.  The weight of a vote is in module Round.               *)
(***************************************************************************)
EXTENDS Integers, Sequences, FiniteSets, SequencesExt, Lists

CONSTANTS
  Account, Name,
  NoName,   \* null
  Nobody,   \* no account
  Group,    \* Group[a]: sender.multisignatures, from a block before these
  Lower,    \* Lower[n]: the name n in lower case
  Offers,   \* sets of transactions, of which clients send those of one
  Funds,    \* balance of every account at first
  MaxVotes, \* 101: of one account
  MaxHeight, \* bound: blocks above the genesis block
  MaxBlock,  \* bound: transactions of a block of another node
  MaxFault   \* bound: blocks that fail, synchronisations and restarts

Kind == {"signature", "delegate", "vote"}
\* requester: who signs for the sender, requesterPublicKey; signed: whose second key
\* made signSignature; adds, removes: the votes
Transaction == [id : Nat, kind : Kind, sender : Account, requester : Account \cup {Nobody},
                signed : Account \cup {Nobody}, name : Name,
                adds : SUBSET Account, removes : SUBSET Account]

ASSUME ConstantsAssumption ==
  /\ NoName \notin Name /\ Nobody \notin Account /\ Group \in [Account -> SUBSET Account]
  /\ Lower \in [Name -> Name] /\ \A n \in Name : Lower[Lower[n]] = Lower[n]
  /\ \A t \in UNION Offers : t \in Transaction /\ t.adds \cap t.removes = {}
  /\ \A T \in Offers : IsFiniteSet(T) \* hashes of 256 bits
  /\ \A T \in Offers : \A t, u \in T : t.id = u.id => t = u
  /\ {Funds, MaxVotes, MaxHeight, MaxBlock, MaxFault} \subseteq Nat

VARIABLES
  chain,    \* blocks above the genesis block: sequences of transactions
  accounts, \* the tables: see NewAccounts
  u_balance, \* of each account
  oneoff,   \* library.oneoff: keys
  pool,     \* the pool, in the order received
  invalid,  \* private.invalidIds
  held,     \* what findUpdate has undone and will give back
  syncing,  \* findUpdate is running
  offered,  \* what clients and other nodes have to send
  faults,   \* history: how many there were
  kept      \* history: fees of transactions refused or removed, kept from u_balance

vars == <<chain, accounts, u_balance, oneoff, pool, invalid, held, syncing, offered, faults, kept>>

Top == Len(chain)
NewAccounts == [balance |-> [a \in Account |-> Funds], isDelegate |-> {},
                username |-> [a \in Account |-> NoName], secondSignature |-> {},
                delegates |-> [a \in Account |-> {}]]
State == [acc |-> accounts, u_balance |-> u_balance, oneoff |-> oneoff, pool |-> pool,
          kept |-> kept]
Update(s) ==
  /\ accounts' = s.acc /\ u_balance' = s.u_balance /\ oneoff' = s.oneoff
  /\ pool' = s.pool /\ kept' = s.kept

Confirmed(t) == \E h \in 1 .. Top : t \in ToSet(chain[h])

\* sortTransactions: second signatures last
Before(t, u) ==
  IF t.kind = u.kind THEN t.id < u.id
  ELSE u.kind = "signature" \/ (t.kind = "delegate" /\ u.kind = "vote")
Sorted(S) == InOrder(S, Before)
-----------------------------------------------------------------------------
(* A transaction on s *)

\* The amount of a is changed by n.
Changed(f, a, n) == [f EXCEPT ![a] = @ + n]

IdKey(t) == [of |-> t.sender, kind |-> t.kind]
NameKey(t) == [of |-> t.name, kind |-> t.kind]
Keys(t) == {IdKey(t)} \cup IF t.kind = "delegate" THEN {NameKey(t)} ELSE {}

\* Mutation: a vote for an account that is no delegate.
VoteForAnyone(t, acc) ==
  LET votes == acc.delegates[t.sender]
  IN  t.adds \cap votes = {} /\ t.removes \subseteq votes
      /\ Cardinality((votes \ t.removes) \cup t.adds) <= MaxVotes

\* checkDelegates
CheckDelegates(t, acc) ==
  LET votes == acc.delegates[t.sender]
  IN  /\ t.adds \cup t.removes \subseteq acc.isDelegate
      /\ t.adds \cap votes = {} /\ t.removes \subseteq votes
      /\ Cardinality((votes \ t.removes) \cup t.adds) <= MaxVotes

\* verify of a registration: the name is looked up in lower case
CheckName(t, acc) ==
  t.sender \notin acc.isDelegate /\ \A a \in Account : acc.username[a] # Lower[t.name]

\* Who signs t, with the key of the account.
Signer(t) == IF t.requester = Nobody THEN t.sender ELSE t.requester

\* Mutation: the second signature may be of any key.
VerifyAnySecond(t, acc) ==
  /\ t.requester # Nobody => t.requester \in Group[t.sender]
  /\ t.kind = "delegate" => CheckName(t, acc)
  /\ t.kind = "vote" => CheckDelegates(t, acc)

\* process and verify.  A requester is one of the sender's group; the second signature
\* of a transaction that has one is not verified: verify is called without it.
Verify(t, acc) ==
  /\ t.requester # Nobody => t.requester \in Group[t.sender]
  /\ t.requester = Nobody /\ t.sender \in acc.secondSignature => t.signed = t.sender
  /\ t.kind = "delegate" => CheckName(t, acc)
  /\ t.kind = "vote" => CheckDelegates(t, acc)

\* applyUnconfirmed: there is a second signature when the signer has a second key, and
\* only then.  The fee is taken from u_balance first, and is kept when the type refuses
\* then.
Payable(s, t) ==
  /\ Signer(t) \in s.acc.secondSignature <=> t.signed # Nobody
  /\ s.u_balance[t.sender] >= 1

\* Mutation: an account may have two in the pool.
AdmittedTwice(s, t) ==
  /\ t.kind = "delegate" => t.sender \notin s.acc.isDelegate
  /\ t.kind = "signature" => t.sender \notin s.acc.secondSignature
Admitted(s, t) ==
  /\ Keys(t) \cap s.oneoff = {}
  /\ t.kind = "delegate" => t.sender \notin s.acc.isDelegate
  /\ t.kind = "signature" => t.sender \notin s.acc.secondSignature

Pay(s, t) == [s EXCEPT !.u_balance = Changed(@, t.sender, -1)]
Hold(s, t) ==
  IF ~Payable(s, t) THEN s
  ELSE IF Admitted(s, t) THEN [Pay(s, t) EXCEPT !.oneoff = @ \cup Keys(t)]
  ELSE [Pay(s, t) EXCEPT !.kept = Changed(@, t.sender, 1)]
Holds(s, t) == Payable(s, t) /\ Admitted(s, t)

\* undoUnconfirmed: that of a delegate deletes the key of a name it does not have
\* (asset.delegate.name), that of a second signature none.
\* Mutation: the fee is not given back.
ReleaseKeys(s, t) == [s EXCEPT !.oneoff = @ \ {IdKey(t)}]
Released(t) == IF t.kind = "signature" THEN {} ELSE {IdKey(t)}
Release(s, t) == [s EXCEPT !.u_balance = Changed(@, t.sender, 1), !.oneoff = @ \ Released(t)]

\* apply
Apply(acc, t) ==
  LET paid == [acc EXCEPT !.balance = Changed(@, t.sender, -1)]
  IN  CASE t.kind = "signature" -> [paid EXCEPT !.secondSignature = @ \cup {t.sender}]
        [] t.kind = "delegate" -> [paid EXCEPT !.isDelegate = @ \cup {t.sender},
                                               !.username = [@ EXCEPT ![t.sender] = t.name]]
        [] t.kind = "vote" -> [paid EXCEPT !.delegates = [@ EXCEPT ![t.sender] = (acc.delegates[t.sender] \ t.removes) \cup t.adds]]

\* Mutation: the name of a delegate that is undone stays.
UndoNamed(acc, t) ==
  LET paid == [acc EXCEPT !.balance = Changed(@, t.sender, 1)]
  IN  CASE t.kind = "signature" -> [paid EXCEPT !.secondSignature = @ \ {t.sender}]
        [] t.kind = "delegate" -> [paid EXCEPT !.isDelegate = @ \ {t.sender}]
        [] t.kind = "vote" -> [paid EXCEPT !.delegates = [@ EXCEPT ![t.sender] = (acc.delegates[t.sender] \ t.adds) \cup t.removes]]

\* undo: Diff.reverse turns added into removed
Undo(acc, t) ==
  LET paid == [acc EXCEPT !.balance = Changed(@, t.sender, 1)]
  IN  CASE t.kind = "signature" -> [paid EXCEPT !.secondSignature = @ \ {t.sender}]
        [] t.kind = "delegate" -> [paid EXCEPT !.isDelegate = @ \ {t.sender},
                                               !.username = [@ EXCEPT ![t.sender] = NoName]]
        [] t.kind = "vote" -> [paid EXCEPT !.delegates = [@ EXCEPT ![t.sender] = (acc.delegates[t.sender] \ t.adds) \cup t.removes]]
-----------------------------------------------------------------------------
(* The pool *)

\* processUnconfirmedTransaction, when t gets as far as addUnconfirmedTransaction;
\* what is in `made' is in the block just applied
Fresh(s, t, made) ==
  t \notin ToSet(s.pool) /\ ~Confirmed(t) /\ t \notin made /\ Verify(t, s.acc)
Add(s, t) == IF Holds(s, t) THEN [Hold(s, t) EXCEPT !.pool = Append(@, t)] ELSE Hold(s, t)

\* receiveTransactions: up to the first that is refused
ReceiveOne(r, t, made) ==
  IF r.going /\ Fresh(r.s, t, made) THEN [s |-> Add(r.s, t), going |-> Holds(r.s, t)]
  ELSE [r EXCEPT !.going = FALSE]
ReceiveEach(r, list, made) == FoldLeft(LAMBDA x, t : ReceiveOne(x, t, made), r, list)
ReceiveAll(s, list, made) == ReceiveEach([going |-> TRUE, s |-> s], list, made).s

\* undoUnconfirmedList
UndoPool(s) == FoldLeft(Release, [s EXCEPT !.pool = <<>>], s.pool)

\* applyBlock on one transaction after the other, to the first that fails
ApplyBoth(s, t) == [Hold(s, t) EXCEPT !.acc = Apply(@, t)]
ProcessOne(r, t) ==
  IF r.failed # {} THEN r
  ELSE IF Holds(r.s, t) /\ r.s.acc.balance[t.sender] >= 1
  THEN [r EXCEPT !.s = ApplyBoth(@, t), !.applied = @ \cup {t}]
  ELSE [r EXCEPT !.s = Hold(@, t), !.failed = {t}]
Process(s, b) == FoldLeft(ProcessOne, [s |-> s, applied |-> {}, failed |-> {}], b)

\* popLastBlock on one transaction
UndoBoth(s, t) == [Release(s, t) EXCEPT !.acc = Undo(@, t), !.pool = Without(@, {t})]
-----------------------------------------------------------------------------
Init ==
  /\ chain = <<>> /\ accounts = NewAccounts /\ u_balance = [a \in Account |-> Funds]
  /\ oneoff = {} /\ pool = <<>> /\ invalid = {}
  /\ held = <<>> /\ syncing = FALSE
  /\ offered \in Offers /\ faults = 0
  /\ kept = [a \in Account |-> 0]

\* From a client or a peer.
ReceiveTransaction(t) ==
  /\ t \notin invalid /\ Fresh(State, t, {})
  /\ Update(Add(State, t))
  /\ UNCHANGED <<chain, invalid, held, syncing, offered, faults>>

\* applyBlock: the pool is undone and the keys cleared, the transactions applied
\* one after the other, the keys cleared again, the pool redone from its end.  When
\* one fails the tables go back, the keys do not, and those applied before it are not
\* redone; a block may also fail after them all.
ApplyBlock(b, before) ==
  LET clean == [UndoPool(before) EXCEPT !.oneoff = {}]
      r == Process(clean, b)
      back == [clean EXCEPT !.oneoff = r.s.oneoff]
      Rest(gone) == Without(Reverse(before.pool), gone)
  IN  /\ UNCHANGED <<held, syncing, offered>>
      /\ invalid' = invalid \cup r.failed
      /\ \/ /\ r.failed = {} /\ Top < MaxHeight
            /\ chain' = Append(chain, b) /\ faults' = faults
            /\ Update(ReceiveAll([r.s EXCEPT !.oneoff = {}], Rest(r.applied \cup invalid), r.applied))
         \/ /\ r.failed = {} => faults < MaxFault
            /\ faults' = IF r.failed = {} THEN faults + 1 ELSE faults
            /\ chain' = chain
            /\ Update(ReceiveAll(back, Rest(r.applied \cup invalid'), {}))

OfAccount(S, a) == Cardinality({t \in S : t.sender = a})

\* generateBlock: what does not verify any more is removed, and not undone.
Forge ==
  LET good == {t \in ToSet(pool) : Verify(t, accounts)}
      bad == ToSet(pool) \ good
  IN  /\ ~syncing /\ pool # <<>>
      /\ ApplyBlock(Sorted(good),
                    [State EXCEPT !.pool = Without(@, bad),
                                  !.kept = [a \in Account |-> @[a] + OfAccount(bad, a)]])

\* processBlock of a block of another node
ReceiveBlock(T) ==
  /\ \A t \in T : ~Confirmed(t) /\ Verify(t, accounts)
  /\ ApplyBlock(Sorted(T), State)

\* findUpdate: the pool is undone outside the queue of tasks, ...
StartSync ==
  /\ ~syncing /\ faults < MaxFault
  /\ syncing' = TRUE /\ faults' = faults + 1
  /\ held' = Reverse(pool) /\ Update(UndoPool(State))
  /\ UNCHANGED <<chain, invalid, offered>>

\* ... blocks are popped, ...
PopBlock ==
  /\ syncing /\ chain # <<>>
  /\ chain' = Front(chain) /\ Update(FoldLeft(UndoBoth, State, Reverse(chain[Top])))
  /\ UNCHANGED <<invalid, held, syncing, offered, faults>>

\* ... and the pool is given back.
EndSync ==
  /\ syncing /\ syncing' = FALSE /\ held' = <<>>
  /\ Update(ReceiveAll(State, Without(held, invalid), {}))
  /\ UNCHANGED <<chain, invalid, offered, faults>>

\* The node stops and starts: u_balance = balance.
Restart ==
  /\ faults < MaxFault /\ faults' = faults + 1
  /\ Update([State EXCEPT !.u_balance = accounts.balance, !.oneoff = {}, !.pool = <<>>,
                          !.kept = [a \in Account |-> 0]])
  /\ invalid' = {} /\ held' = <<>> /\ syncing' = FALSE
  /\ UNCHANGED <<chain, offered>>

Next ==
  \/ \E t \in offered : ReceiveTransaction(t)
  \/ Forge
  \/ \E T \in SUBSET offered : Cardinality(T) <= MaxBlock /\ ReceiveBlock(T)
  \/ StartSync \/ PopBlock \/ EndSync
  \/ Restart

Spec == Init /\ [][Next]_vars
-----------------------------------------------------------------------------
(* Properties *)

TypeOK ==
  /\ \A h \in 1 .. Top : chain[h] \in Seq(offered)
  /\ pool \in Seq(offered) /\ IsInjective(pool) /\ ToSet(held) \cup invalid \subseteq offered
  /\ accounts.isDelegate \cup accounts.secondSignature \subseteq Account
  /\ \A a \in Account : /\ accounts.balance[a] \in 0 .. Funds
                        /\ u_balance[a] \in 0 .. Funds /\ kept[a] \in 0 .. Funds
                        /\ accounts.username[a] \in Name \cup {NoName}
                        /\ accounts.delegates[a] \subseteq Account
  /\ oneoff \subseteq [of : Account \cup Name, kind : Kind]
  /\ syncing \in BOOLEAN

\* Where the transactions of the chain are, and the one that is there.
Places == UNION {{<<h, p>> : p \in DOMAIN chain[h]} : h \in 1 .. Top}
At(x) == chain[x[1]][x[2]]

ApplyAll(acc, b) == FoldLeft(Apply, acc, b)

\* The tables are what the chain makes of the first ones, whatever was popped,
\* given back or failed on the way, and it has every transaction once.
AccountsReflectChain ==
  /\ TypeOK
  /\ accounts = FoldLeft(ApplyAll, NewAccounts, chain)
  /\ \A x, y \in Places : At(x) = At(y) => x = y

\* An account has one second signature and one registration in the chain, and one
\* transaction of a kind in a block, so its votes are those it was verified with.
OncePerAccount ==
  \A x, y \in Places : x # y =>
    /\ IdKey(At(x)) = IdKey(At(y)) => At(x).kind = "vote"
    /\ x[1] = y[1] => Keys(At(x)) \cap Keys(At(y)) = {}

\* Who is voted for is a delegate, also after the registration was popped, and
\* nobody votes for more than he may.
VotesAreForDelegates ==
  \A a \in Account : /\ accounts.delegates[a] \subseteq accounts.isDelegate
                     /\ Cardinality(accounts.delegates[a]) <= MaxVotes

\* From the block after it on, all that an account signs, for itself or as a requester,
\* has a second signature, and for itself the one of its own second key.
SecondSignatureHonoured ==
  \A x, y \in Places : x[1] > y[1] /\ At(y).kind = "signature" /\ At(y).sender = Signer(At(x)) =>
    /\ At(x).signed # Nobody
    /\ At(x).requester = Nobody => At(x).signed = At(x).sender

\* What is taken from an unconfirmed balance is the fees in the chain, those in the
\* pool, and those of transactions that were refused or removed.
UnconfirmedReflectsPool ==
  \A a \in Account :
    u_balance[a] = accounts.balance[a] - OfAccount(ToSet(pool), a) - kept[a]

=============================================================================
