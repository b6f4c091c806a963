------------------------------- MODULE Assets -------------------------------
(***************************************************************************)
(* The assets of users on one node: registered, approved by the active     *)
(* delegates, issued, approved once more for each issue, and exercised;    *)
(* with blocks that fail and blocks that are popped.                       *)
(* Code: src/src/uia/{approval,asset,issue,exercise}.js, called by         *)
(* applyBlock and popLastBlock of src/src/core/blocks.js; the tables in    *)
(* src/src/utils/model.js, the cache in src/src/utils/balance-manager.js.  *)
(*                                                                         *)
(* A step is one task of library.balancesSequence, a new list of delegates *)
(* or a restart.  The pool of unconfirmed transactions is left to TxPool   *)
(* and Ledger: the cache is here what it is with an empty pool.            *)
(***************************************************************************)
EXTENDS Integers, Sequences, FiniteSets, SequencesExt, Lists

CONSTANTS
  Asset,        \* the currencies, of which ...
  ChainLevel,   \* ... some are known to every node (helper.js: BTC, ...)
  Issue,        \* ids of issue transactions
  Currency,     \* Currency[i]: the asset of issue i
  Amount,       \* Amount[i]: how much of it
  Acc,          \* Acc[i]: its worth in ACC (amount, rate and precision)
  Maximum,      \* Maximum[a]: how much of asset a may exist
  Approved,     \* assets registered and approved in the genesis block
  Delegate,
  Lists,        \* the lists of active delegates there can be
  Threshold,    \* getApprovalThreshold
  TotalAmount,  \* constants.totalAmount, less what the genesis block has
  Block,        \* blocks there can be, each a sequence of transactions
  MaxHeight, MaxPop, MaxList, MaxFail, MaxRestart \* bounds

Value == Asset \cup Issue

\* Exercises are the issuer's; nobody has the key of constants.assetAccount.
Approval == [type : {"approval"}, by : Delegate, value : Value]
Registration == [type : {"asset"}, asset : Asset]
IssueOf == [type : {"issue"}, id : Issue]
Exercise == [type : {"exercise"}, id : Nat, asset : Asset \ ChainLevel, amount : Nat]
Transaction == Approval \cup Registration \cup IssueOf \cup Exercise

ASSUME ConstantsAssumption ==
  /\ ChainLevel \subseteq Asset /\ Approved \subseteq Asset /\ Asset \cap Issue = {}
  /\ IsFiniteSet(Asset) /\ IsFiniteSet(Issue) \* names of 30 characters, hashes of 256 bits
  /\ Currency \in [Issue -> Asset]
  /\ Amount \in [Issue -> Nat] /\ Maximum \in [Asset -> Nat]
  /\ Acc \in [Issue -> Nat] /\ \A i \in Issue : Acc[i] % 4 = 0
  /\ Lists \subseteq SUBSET Delegate /\ Lists # {}
  /\ Block \subseteq Seq(Transaction)
  /\ \A b \in Block : \A i, j \in DOMAIN b : \* no id twice (blocks.js:765)
       b[i] \in Exercise /\ i # j => b[i] # b[j]
  /\ {Threshold, TotalAmount, MaxHeight, MaxPop, MaxList, MaxFail, MaxRestart} \subseteq Nat

VARIABLES
  chain,     \* the blocks table above the genesis block
  rows,      \* assets, issues, exercises and approvals tables: transactions
  approved,  \* assets and issues whose flag is set
  quantity,  \* assets.quantity
  balance,   \* mem_asset_balances: of the issuer, or of constants.assetAccount
  minted,    \* ACC: of the issuers, in the reward pool, TOTAL_ACC_QUANTITY
  cache,     \* library.balanceCache
  saved,     \* ... as it was committed last
  memCount,  \* library.oneoff: approvals counted, by value
  active,    \* private.cacheActiveDelegates
  pops, news, fails, restarts, \* bounds: how many there were
  lists,     \* history: the list each block was applied with
  miscounted,\* history: an approval was taken back with another count, or one of
             \* what the genesis block had approved
  drifted    \* history: the cache kept what was undone, or went back before it

vars == <<chain, rows, approved, quantity, balance, minted, cache, saved, memCount,
          active, pops, news, fails, restarts, lists, miscounted, drifted>>

Top == Len(chain)
Approvals(S, v) == {t \in S : t.type = "approval" /\ t.value = v}
RegisteredIn(S) == {a \in Asset : [type |-> "asset", asset |-> a] \in S}
Registered == RegisteredIn(rows)
NoCount == [v \in Value |-> 0]

\* What a transaction is applied to.
State == [ok |-> TRUE, approved |-> approved, quantity |-> quantity, balance |-> balance,
          minted |-> minted, cache |-> cache, memCount |-> memCount]
Failed(s) == [s EXCEPT !.ok = FALSE]
Plus(f, x, n) == [f EXCEPT ![x] = f[x] + n]
Unlocked(i) == Acc[i]
Locked(i) == Acc[i] \div 4
-----------------------------------------------------------------------------
(* Transactions *)

\* The votes an approval of v makes complete: those of its block so far, and
\* those in the table by delegates who are active now.
ActiveVotes(v, count) ==
  count + Cardinality({t \in Approvals(rows, v) : t.by \in active})

\* merge, updateRewardPoolBalance, updateTotalAccQuantity
Mint(m, i, sign) ==
  [issuer |-> m.issuer + sign * Unlocked(i), pool |-> m.pool + sign * Locked(i),
   total |-> m.total + sign * (Unlocked(i) + Locked(i))]

\* Mutation: the amount is added to the table, not to the cache.
ApproveInTable(s, i) ==
  LET a == Currency[i]
  IN  IF i \in s.approved THEN s
      ELSE [s EXCEPT !.approved = @ \cup {i}, !.quantity = Plus(@, a, Amount[i]),
                     !.balance = Plus(@, a, Amount[i]),
                     !.minted = IF a \in ChainLevel THEN Mint(@, i, 1) ELSE @]

\* An issue is approved: it is looked up, the ACC it would create compared with
\* what may exist (for every asset), then the asset exists.
ApproveIssue(s, i) ==
  LET a == Currency[i]
  IN  IF [type |-> "issue", id |-> i] \notin rows THEN Failed(s)
      ELSE IF i \in s.approved THEN s
      ELSE IF s.minted.total + Unlocked(i) + Locked(i) > TotalAmount THEN Failed(s)
      ELSE [s EXCEPT !.approved = @ \cup {i},
                     !.quantity = Plus(@, a, Amount[i]),
                     !.balance = Plus(@, a, Amount[i]),
                     !.cache = Plus(@, a, Amount[i]),
                     !.minted = IF a \in ChainLevel THEN Mint(@, i, 1) ELSE @]

\* apply of an approval.  The table has the approvals of earlier blocks only.
ApplyApproval(s, v) ==
  LET counted == [s EXCEPT !.memCount = Plus(@, v, 1)]
  IN  IF ActiveVotes(v, counted.memCount[v]) # Threshold THEN counted
      ELSE IF v \in Issue THEN ApproveIssue(counted, v)
      ELSE [counted EXCEPT !.approved = @ \cup ({v} \cap Registered)]

\* Mutation: the ACC of an approval taken back stays.
RevokeAssetOnly(s, i) ==
  LET a == Currency[i]
  IN  IF s.balance[a] < Amount[i] THEN Failed(s)
      ELSE [s EXCEPT !.approved = @ \ {i}, !.quantity = Plus(@, a, -Amount[i]),
                     !.balance = Plus(@, a, -Amount[i]), !.cache = Plus(@, a, -Amount[i])]

\* The approval of an issue is taken back.  Whether it is approved is not asked;
\* the cache of another asset than a chain level one keeps the amount (the minus
\* sign is put before the currency).
RevokeIssue(s, i) ==
  LET a == Currency[i]
      marked == [s EXCEPT !.approved = @ \ {i}, !.quantity = Plus(@, a, -Amount[i]),
                          !.cache = IF a \in ChainLevel THEN Plus(@, a, -Amount[i]) ELSE @]
  IN  IF [type |-> "issue", id |-> i] \notin rows THEN Failed(s)
      ELSE IF s.balance[a] < Amount[i] THEN Failed(marked)
      ELSE [marked EXCEPT !.balance = Plus(@, a, -Amount[i]),
                          !.minted = IF a \in ChainLevel THEN Mint(@, i, -1) ELSE @]

\* Mutation: the approval taken back is not counted.
UndoUncounted(s, v) ==
  LET counted == [s EXCEPT !.memCount = Plus(@, v, -1)]
  IN  IF ActiveVotes(v, counted.memCount[v]) # Threshold THEN counted
      ELSE IF v \in Issue THEN RevokeIssue(counted, v)
      ELSE [counted EXCEPT !.approved = @ \ {v}]

\* undo of an approval.  The table has those of its own block, too.
UndoApproval(s, v) ==
  LET counted == [s EXCEPT !.memCount = Plus(@, v, -1)]
  IN  IF ActiveVotes(v, counted.memCount[v] + 1) # Threshold THEN counted
      ELSE IF v \in Issue THEN RevokeIssue(counted, v)
      ELSE [counted EXCEPT !.approved = @ \ {v}]

\* updateAssetBalance and addAssetQuantity, with n < 0 for an undo
Spend(s, a, n) ==
  IF s.balance[a] < n THEN Failed(s)
  ELSE [s EXCEPT !.balance = Plus(@, a, -n), !.quantity = Plus(@, a, -n)]

\* applyUnconfirmed (which takes from the cache) and apply; undo and
\* undoUnconfirmed.  After an error the rest is not done.
Apply(s, t) ==
  IF ~s.ok THEN s
  ELSE CASE t.type = "approval" -> ApplyApproval(s, t.value)
         [] t.type = "exercise" ->
              IF s.cache[t.asset] < t.amount THEN Failed(s)
              ELSE Spend([s EXCEPT !.cache = Plus(@, t.asset, -t.amount)], t.asset, t.amount)
         [] OTHER -> s
Undo(s, t) ==
  IF ~s.ok THEN s
  ELSE CASE t.type = "approval" -> UndoApproval(s, t.value)
         [] t.type = "exercise" ->
              LET back == Spend(s, t.asset, -t.amount)
              IN  [back EXCEPT !.cache = Plus(@, t.asset, t.amount)]
         [] OTHER -> s

\* verify, against the tables as the last block left them
Verified(t) ==
  /\ t \notin rows
  /\ t.type = "approval" => t.by \in active
  /\ t.type = "issue" =>
       LET a == Currency[t.id]
       IN  /\ a \in approved
           /\ quantity[a] + Amount[t.id] <= Maximum[a]
  /\ t.type = "exercise" => t.asset \in approved

\* applyUnconfirmed: one registration or issue of an asset in a block, and one
\* approval by a delegate
Clash(t, u) ==
  \/ t.type \in {"asset", "approval"} /\ t = u
  \/ t.type = "issue" /\ u.type = "issue" /\ Currency[t.id] = Currency[u.id]
Doubled(b) == \E i, j \in DOMAIN b : i < j /\ Clash(b[i], b[j])
-----------------------------------------------------------------------------
(* Tasks *)

Genesis == {[type |-> "asset", asset |-> a] : a \in Approved}
Init ==
  /\ chain = <<>> /\ rows = Genesis
  /\ approved = Approved
  /\ quantity = [a \in Asset |-> 0] /\ balance = [a \in Asset |-> 0]
  /\ minted = [issuer |-> 0, pool |-> 0, total |-> 0]
  /\ cache = balance /\ saved = cache
  /\ memCount = NoCount
  /\ active \in Lists
  /\ pops = 0 /\ news = 0 /\ fails = 0 /\ restarts = 0
  /\ lists = <<>> /\ miscounted = FALSE /\ drifted = FALSE

\* generateDelegateList, at the end of a round forward or backward
NewList(l) ==
  /\ l # active /\ news < MaxList
  /\ active' = l /\ news' = news + 1
  /\ UNCHANGED <<chain, rows, approved, quantity, balance, minted, cache, saved,
                 memCount, pops, fails, restarts, lists, miscounted, drifted>>

Update(s) ==
  /\ approved' = s.approved /\ quantity' = s.quantity
  /\ balance' = s.balance /\ minted' = s.minted

\* applyBlock: oneoff is cleared, the transactions applied in their order, their
\* rows saved, the cache committed, oneoff cleared again.  If one fails the
\* database and the cache go back, and oneoff keeps what was counted.
ApplyBlock(b) ==
  LET s == FoldLeft(Apply, [State EXCEPT !.memCount = NoCount], b)
      ok == s.ok /\ ~Doubled(b)
  IN  /\ Top < MaxHeight
      /\ \A i \in DOMAIN b : Verified(b[i])
      /\ UNCHANGED <<active, pops, news, restarts, miscounted>>
      /\ \/ /\ ok
            /\ Update(s)
            /\ chain' = Append(chain, b) /\ lists' = Append(lists, active)
            /\ rows' = rows \cup ToSet(b)
            /\ cache' = s.cache /\ saved' = s.cache
            /\ memCount' = NoCount /\ UNCHANGED <<fails, drifted>>
         \/ \* also for a reason of its own, in tick or a transaction left out
            /\ ok => fails < MaxFail
            /\ fails' = IF ok THEN fails + 1 ELSE fails
            /\ cache' = saved /\ memCount' = s.memCount
            /\ drifted' = (drifted \/ saved # cache)
            /\ UNCHANGED <<chain, rows, approved, quantity, balance, minted, saved, lists>>

Undone(b) == FoldLeft(Undo, State, Reverse(b))

\* popLastBlock: the transactions are undone from the last, up to an error, which
\* is passed over; the rows go with the block.
PopBlock ==
  LET b == chain[Top]
      s == Undone(b)
      values == {b[i].value : i \in {j \in DOMAIN b : b[j].type = "approval"}}
      gone == {b[i].asset : i \in {j \in DOMAIN b : b[j].type = "asset"}}
                \cup {b[i].id : i \in {j \in DOMAIN b : b[j].type = "issue"}}
  IN  /\ chain # <<>> /\ pops < MaxPop
      /\ pops' = pops + 1
      /\ chain' = Front(chain) /\ lists' = Front(lists)
      /\ rows' = rows \ ToSet(b)
      /\ approved' = s.approved \ gone
      /\ quantity' = [a \in Asset |-> IF a \in gone THEN 0 ELSE s.quantity[a]]
      /\ balance' = s.balance /\ minted' = s.minted
      /\ cache' = s.cache /\ memCount' = s.memCount
      /\ miscounted' = \/ miscounted
                       \/ \E v \in values :
                            \/ memCount[v] # 0
                            \/ \E h \in 1 .. Top : /\ Approvals(ToSet(chain[h]), v) # {}
                                                   /\ lists[h] # active
                       \/ ~ Approved \subseteq s.approved
      /\ drifted' = (drifted \/ \E i \in Issue : /\ i \in approved \ s.approved
                                           /\ Currency[i] \notin ChainLevel)
      /\ UNCHANGED <<saved, active, news, fails, restarts>>

\* The node restarts with its tables: oneoff is empty, the cache read from them.
Restart ==
  /\ restarts < MaxRestart /\ restarts' = restarts + 1
  /\ memCount' = NoCount /\ cache' = balance /\ saved' = balance /\ drifted' = FALSE
  /\ UNCHANGED <<chain, rows, approved, quantity, balance, minted, active,
                 pops, news, fails, lists, miscounted>>

Next ==
  \/ \E b \in Block : ApplyBlock(b)
  \/ PopBlock
  \/ \E l \in Lists : NewList(l)
  \/ Restart

Spec == Init /\ [][Next]_vars
-----------------------------------------------------------------------------
(* Properties *)

\* The votes an approval of v at place p of block h made complete, by the chain.
VotesAt(v, h, p) ==
  LET before == UNION {Approvals(ToSet(chain[k]), v) : k \in 1 .. h - 1}
  IN  Cardinality(Approvals(ToSet(SubSeq(chain[h], 1, p)), v))
        + Cardinality({t \in before : t.by \in lists[h]})
Exists(v, h) ==
  \/ v \in Issue \cup Approved
  \/ \E k \in 1 .. h - 1 : v \in RegisteredIn(ToSet(chain[k]))
Complete(v) ==
  \E h \in 1 .. Top : \E p \in DOMAIN chain[h] :
    /\ chain[h][p] \in Approvals(ToSet(chain[h]), v)
    /\ Exists(v, h) /\ VotesAt(v, h, p) = Threshold

AmountOf == [t \in rows \cap Exercise |-> t.amount]
Exercised(a) == Total(AmountOf, {t \in rows \cap Exercise : t.asset = a})
ApprovedOf(S) == {i \in Issue : i \in approved /\ Currency[i] \in S}
LockedOf == [i \in Issue |-> Locked(i)]

TypeOK ==
  /\ rows \subseteq Transaction /\ chain \in Seq(Block)
  /\ approved \subseteq Value
  /\ {quantity, balance, cache, saved} \subseteq [Asset -> Int]
  /\ \A a \in Asset : balance[a] >= 0
  /\ minted \in [issuer : Int, pool : Int, total : Int]
  /\ memCount \in [Value -> Int] /\ active \in Lists
  /\ lists \in Seq(Lists) /\ Len(lists) = Top /\ {miscounted, drifted} \subseteq BOOLEAN

\* An asset or issue is approved if at some approval in the chain the votes were
\* exactly enough, and only then: whatever failed and was popped in between.
\* (Not after an approval was taken back with a count that another block has
\* left, or with other delegates active than when it was given, nor once an asset
\* of the genesis block has lost its flag: undo does not ask what set it.)
ApprovalsReflectChain ==
  ~miscounted => \A v \in Value : v \in approved <=> (v \in Approved \/ Complete(v))

\* What exists of an asset is what approved issues have created less what was
\* exercised, it is all in balances, and the ACC of each approved issue of a
\* chain level asset was created once: the approval and its undo, each a
\* sequence of updates that can fail half way, keep the tables together.
SupplyReflectsApprovals == TypeOK /\
  (~miscounted =>
    /\ \A a \in Asset : /\ quantity[a] = Total(Amount, ApprovedOf({a})) - Exercised(a)
                        /\ balance[a] = quantity[a]
    /\ LET chainLevel == ApprovedOf(ChainLevel)
       IN  /\ minted.issuer = Total(Acc, chainLevel)
           /\ minted.pool = Total(LockedOf, chainLevel)
           /\ minted.total = minted.issuer + minted.pool)

\* The cache has the balances of the tables, to which every path writes apart.
\* (Not after an undone issue of an asset that is not chain level, nor once a
\* block has failed between a pop and the next block: see `drifted'.)
CacheReflectsTables == ~drifted /\ ~miscounted => cache = balance

=============================================================================
