--------------------------- MODULE ConsensusProofs ---------------------------
(***************************************************************************)
(* Proofs about Consensus, for every number of nodes and delegates: first   *)
(* what the certificates are worth, then that the blocks table of a node is *)
(* always one path, that votes of one height are spaced, and that a         *)
(* delegate forges once in a slot.                                          *)
(*                                                                          *)
(* The second part rests on one fact: within an epoch (no restart, no block *)
(* popped) the last block of a node only goes up, block by block or over a  *)
(* downloaded part of another node's path.                                  *)
(***************************************************************************)
EXTENDS Consensus, FiniteSetTheorems, TLAPS

-----------------------------------------------------------------------------
(* Lemmas on the operators *)

\* The delegate list is not empty, so every slot has a leader.
LEMMA DelegatesCounted == NumDelegates \in Nat \ {0}
  BY ConstantsAssumption, FS_CardinalityType, FS_EmptySet DEF NumDelegates

\* The delegate of a slot is a delegate.
LEMMA LeaderType ==
  ASSUME NEW slot \in Nat
  PROVE  Leader(slot) \in Delegate
<1>1. NumDelegates \in Nat \ {0}
  BY DelegatesCounted
<1>2. slot % NumDelegates \in 0 .. NumDelegates - 1
  BY <1>1
<1> QED BY <1>2, ConstantsAssumption DEF Leader

\* The current slot is a natural number.
LEMMA SlotType ==
  ASSUME now \in Nat
  PROVE  CurrentSlot \in Nat
<1>1. SlotTicks \in Nat /\ SlotTicks > 0
  BY ConstantsAssumption
<1> QED BY <1>1 DEF CurrentSlot

\* The votes of a node, put in an order, are as many as its keys, all different.
LEMMA SetToSeqProperties ==
  ASSUME NEW S, IsFiniteSet(S)
  PROVE  /\ SetToSeq(S) \in Seq(S)
         /\ Len(SetToSeq(S)) = Cardinality(S)
         /\ \A i, j \in DOMAIN SetToSeq(S) :
               SetToSeq(S)[i] = SetToSeq(S)[j] => i = j
<1>1. PICK f \in Bijection(1 .. Cardinality(S), S) : TRUE
  BY FS_CardinalityType DEF ExistsBijection
<1>2. f \in [1 .. Cardinality(S) -> S] /\ IsInjective(f)
  BY <1>1 DEF Bijection, Injection, IsInjective
<1>3. /\ SetToSeq(S) \in [1 .. Cardinality(S) -> S]
      /\ IsInjective(SetToSeq(S))
  BY <1>2 DEF SetToSeq
<1>4. Cardinality(S) \in Nat
  BY FS_CardinalityType
<1> QED BY <1>3, <1>4 DEF IsInjective

\* A list of different elements of T is no longer than T.
LEMMA DistinctLength ==
  ASSUME NEW T, IsFiniteSet(T), NEW s \in Seq(T),
         \A i, j \in DOMAIN s : s[i] = s[j] => i = j
  PROVE  Len(s) <= Cardinality(T)
<1>1. s \in Injection(1 .. Len(s), T)
  BY DEF Injection, IsInjective
<1>2. Cardinality(1 .. Len(s)) <= Cardinality(T)
  BY <1>1, FS_Injection
<1>3. Len(s) \in Nat
  OBVIOUS
<1>4. Cardinality(1 .. Len(s))
        = IF 1 > Len(s) THEN 0 ELSE Len(s) - 1 + 1
  BY <1>3, FS_Interval
<1> QED BY <1>2, <1>3, <1>4

\* Two sets of more than two thirds of the delegates share more than a third.
LEMMA QuorumsOverlap ==
  ASSUME NEW A \in SUBSET Delegate, NEW B \in SUBSET Delegate,
         3 * Cardinality(A) > 2 * NumDelegates,
         3 * Cardinality(B) > 2 * NumDelegates
  PROVE  3 * Cardinality(A \cap B) > NumDelegates
<1>1. IsFiniteSet(Delegate) /\ IsFiniteSet(A) /\ IsFiniteSet(B)
  BY ConstantsAssumption, FS_Subset
<1>2. /\ Cardinality(A) \in Nat /\ Cardinality(B) \in Nat
      /\ Cardinality(A \cap B) \in Nat /\ Cardinality(A \cup B) \in Nat
  BY <1>1, FS_CardinalityType, FS_Intersection, FS_Union
<1>3. Cardinality(A \cup B) <= NumDelegates
  BY <1>1, FS_Subset DEF NumDelegates
<1>4. Cardinality(A \cup B)
        = Cardinality(A) + Cardinality(B) - Cardinality(A \cap B)
  BY <1>1, FS_Union
<1> QED BY <1>2, <1>3, <1>4, DelegatesCounted

-----------------------------------------------------------------------------
(* The inductive invariant *)

\* Whatever a node or a message refers to is a block that has been forged.
References ==
  /\ Len(blocks) >= 1
  /\ signed \subseteq Delegate \X Ids
  /\ \A n \in Node : /\ chain[n] \subseteq Ids
                     /\ lastBlock[n] \in Ids
                     /\ pendingBlock[n] \in Ids \cup {None}
                     /\ lastPropose[n] \in Ids \cup {None}
  /\ \A m \in msgs : m.id \in Ids

\* Only the genesis block has height 1.
HeightsAboveGenesis ==
  /\ Height(Genesis) = 1
  /\ \A b \in Ids \ {Genesis} : Height(b) >= 2

\* A block is broadcast only after more than 2/3 of the delegates voted for it.
MessagesCertified ==
  \A m \in msgs : m.type = "block" => Certified(m.id)

IInv ==
  /\ TypeOK
  /\ References
  /\ HeightsAboveGenesis
  /\ BallotSound
  /\ MessagesCertified
  /\ ChainsCertified

-----------------------------------------------------------------------------
(* Votes *)

\* A block has finitely many signers.
LEMMA SignersFinite ==
  ASSUME NEW b
  PROVE  /\ IsFiniteSet(Signers(b))
         /\ Cardinality(Signers(b)) \in Nat
  BY ConstantsAssumption, FS_Subset, FS_CardinalityType DEF Signers

\* Signatures are never taken back, so a certified block stays certified.
LEMMA CertifiedStable ==
  ASSUME NEW b, signed \subseteq signed', Certified(b)
  PROVE  Certified(b)'
<1>1. Signers(b) \subseteq Signers(b)'
  BY DEF Signers, Genuine
<1>2. IsFiniteSet(Signers(b)')
  BY ConstantsAssumption, FS_Subset DEF Signers
<1>3. /\ Cardinality(Signers(b)) <= Cardinality(Signers(b)')
      /\ Cardinality(Signers(b)) \in Nat /\ Cardinality(Signers(b)') \in Nat
  BY <1>1, <1>2, FS_Subset, FS_CardinalityType
<1> QED BY <1>3, DelegatesCounted DEF Certified

\* Enough different votes, all of keys in Q, make Q more than 2/3 of the delegates.
LEMMA EnoughVotes ==
  ASSUME NEW Q \in SUBSET Delegate, NEW s \in Seq(Delegate), HasEnoughVotes(s),
         \A i, j \in DOMAIN s : s[i] = s[j] => i = j,
         \A i \in DOMAIN s : s[i] \in Q
  PROVE  3 * Cardinality(Q) > 2 * NumDelegates
<1>1. s \in Seq(Q)
  OBVIOUS
<1>2. IsFiniteSet(Q) /\ Cardinality(Q) \in Nat
  BY ConstantsAssumption, FS_Subset, FS_CardinalityType
<1>3. Len(s) <= Cardinality(Q)
  BY <1>1, <1>2, DistinctLength
<1>4. Len(s) \in Nat /\ 3 * Len(s) > 2 * NumDelegates
  BY DEF HasEnoughVotes
<1> QED BY <1>2, <1>3, <1>4, DelegatesCounted

\* What onNewBlock broadcasts is a message.
LEMMA BlockMessageType ==
  ASSUME NEW b \in Nat, NEW s \in Seq(Delegate)
  PROVE  BlockMessage(b, s) \in Message
<1>1. Least(VotesSent, Len(s)) \in 0 .. Len(s)
  BY ConstantsAssumption DEF Least
<1>2. SubSeq(s, 1, Least(VotesSent, Len(s))) \in Seq(Delegate)
  BY <1>1
<1> QED BY <1>2 DEF BlockMessage, Message

\* The keys of a node are finitely many delegates.
LEMMA KeypairsType ==
  ASSUME NEW n \in Node
  PROVE  /\ Keypairs[n] \subseteq Delegate
         /\ IsFiniteSet(Keypairs[n])
         /\ SetToSeq(Keypairs[n]) \in Seq(Delegate)
<1>1. Keypairs[n] \subseteq Delegate /\ IsFiniteSet(Keypairs[n])
  BY ConstantsAssumption, FS_Subset
<1>2. SetToSeq(Keypairs[n]) \in Seq(Keypairs[n])
  BY <1>1, SetToSeqProperties
<1> QED BY <1>1, <1>2

\* The votes that addPendingVotes adds are keys of delegates, finitely many.
LEMMA FreshVotesType ==
  ASSUME TypeOK, NEW n \in Node, NEW m \in msgs, m.type = "votes"
  PROVE  /\ FreshVotes(n, m.id, m.keys) \subseteq Delegate
         /\ IsFiniteSet(FreshVotes(n, m.id, m.keys))
         /\ VotesAfter(n, m.id, m.keys) \in Seq(Delegate)
<1> DEFINE F == FreshVotes(n, m.id, m.keys)
<1>1. m.keys \subseteq Delegate
  BY DEF TypeOK, Message
<1>2. F \subseteq Delegate
  BY <1>1 DEF FreshVotes
<1>3. IsFiniteSet(F)
  BY <1>2, ConstantsAssumption, FS_Subset
<1>4. SetToSeq(F) \in Seq(Delegate)
  BY <1>2, <1>3, SetToSeqProperties
<1>5. pendingVotes[n] \in Seq(Delegate)
  BY DEF TypeOK
<1> QED BY <1>2, <1>3, <1>4, <1>5 DEF VotesAfter

\* Adding the votes of a message keeps them genuine and different.
LEMMA VotesAfterSound ==
  ASSUME TypeOK, BallotSound, NEW n \in Node, NEW m \in msgs, m.type = "votes"
  PROVE  LET v == VotesAfter(n, m.id, m.keys)
         IN  /\ \A i, j \in DOMAIN v : v[i] = v[j] => i = j
             /\ \A i \in DOMAIN v :
                   /\ Genuine(v[i], pendingBlock[n])
                   /\ v[i] \in votesKeySet[n] \cup FreshVotes(n, m.id, m.keys)
<1> DEFINE F == FreshVotes(n, m.id, m.keys)
           p == pendingVotes[n]
           q == SetToSeq(F)
           v == p \o q
<1>1. IsFiniteSet(F) /\ F \subseteq Delegate
  BY FreshVotesType
<1>2. /\ q \in Seq(F)
      /\ \A i, j \in DOMAIN q : q[i] = q[j] => i = j
  BY <1>1, SetToSeqProperties
<1>3. \A k \in F : k \notin votesKeySet[n] /\ Genuine(k, pendingBlock[n])
  BY DEF FreshVotes
<1>4. p \in Seq(Delegate)
  BY DEF TypeOK
<1>5. /\ \A i, j \in DOMAIN p : p[i] = p[j] => i = j
      /\ \A i \in DOMAIN p : /\ Genuine(p[i], pendingBlock[n])
                             /\ p[i] \in votesKeySet[n]
  BY DEF BallotSound
<1> HIDE DEF F, p, q
<1>6. q \in Seq(Delegate)
  BY <1>1, <1>2
<1>7. /\ DOMAIN v = 1 .. Len(p) + Len(q)
      /\ \A i \in 1 .. Len(p) : i \in DOMAIN p /\ v[i] = p[i]
      /\ \A i \in Len(p) + 1 .. Len(p) + Len(q) :
            /\ i - Len(p) \in DOMAIN q
            /\ v[i] = q[i - Len(p)] /\ v[i] \in F
  BY <1>2, <1>4, <1>6
<1>8. \A i \in DOMAIN v : i \in 1 .. Len(p) \/ i \in Len(p) + 1 .. Len(p) + Len(q)
  BY <1>4, <1>6, <1>7
<1>9. \A i \in DOMAIN v : /\ Genuine(v[i], pendingBlock[n])
                          /\ v[i] \in votesKeySet[n] \cup F
  BY <1>3, <1>5, <1>7, <1>8
<1>10. ASSUME NEW i \in DOMAIN v, NEW j \in DOMAIN v, v[i] = v[j]
       PROVE  i = j
  <2>1. CASE i \in 1 .. Len(p) /\ j \in 1 .. Len(p)
    BY <1>5, <1>7, <1>10, <2>1
  <2>2. CASE i \in Len(p) + 1 .. Len(p) + Len(q) /\ j \in Len(p) + 1 .. Len(p) + Len(q)
    <3>1. i - Len(p) = j - Len(p)
      BY <1>2, <1>7, <1>10, <2>2
    <3> QED BY <1>4, <1>6, <1>7, <3>1
  <2>3. CASE i \in 1 .. Len(p) /\ j \in Len(p) + 1 .. Len(p) + Len(q)
    BY <1>3, <1>5, <1>7, <1>10, <2>3
  <2>4. CASE j \in 1 .. Len(p) /\ i \in Len(p) + 1 .. Len(p) + Len(q)
    BY <1>3, <1>5, <1>7, <1>10, <2>4
  <2> QED BY <1>8, <2>1, <2>2, <2>3, <2>4
<1> QED BY <1>9, <1>10 DEF VotesAfter, F, p, q

-----------------------------------------------------------------------------
(* Types *)

\* What generateBlock makes is a block above the genesis block.
LEMMA NewBlockType ==
  ASSUME TypeOK, References, HeightsAboveGenesis, NEW n \in Node, NEW d \in Delegate
  PROVE  /\ NewBlock(n, d) \in BlockRecord
         /\ NewBlock(n, d).height >= 2
         /\ Append(blocks, NewBlock(n, d)) \in Seq(BlockRecord)
<1>1. lastBlock[n] \in Ids /\ blocks \in Seq(BlockRecord)
  BY DEF References, TypeOK
<1>2. blocks[lastBlock[n]] \in BlockRecord
  BY <1>1 DEF Ids
<1>3. Height(lastBlock[n]) \in Nat /\ Height(lastBlock[n]) >= 1
  <2>1. Height(lastBlock[n]) \in Nat
    BY <1>2 DEF Height, BlockRecord
  <2>2. CASE lastBlock[n] = Genesis
    BY <2>2 DEF HeightsAboveGenesis
  <2>3. CASE lastBlock[n] # Genesis
    BY <1>1, <2>1, <2>3 DEF HeightsAboveGenesis
  <2> QED BY <2>1, <2>2, <2>3
<1>4. lastBlock[n] \in Nat /\ epoch[n] \in Nat /\ CurrentSlot \in Nat
  BY SlotType DEF TypeOK
<1>5. NewBlock(n, d) \in BlockRecord /\ NewBlock(n, d).height >= 2
  BY <1>3, <1>4 DEF NewBlock, BlockRecord
<1> QED BY <1>1, <1>5

\* SetLastBlock with a set of ids and an id of the right type.
LEMMA SetLastBlockType ==
  ASSUME TypeOK, NEW n \in Node, NEW c \in SUBSET Nat, NEW b \in Nat,
         SetLastBlock(n, c, b)
  PROVE  /\ chain' \in [Node -> SUBSET Nat] /\ lastBlock' \in [Node -> Nat]
         /\ pendingBlock' \in [Node -> Nat]
         /\ pendingVotes' \in [Node -> Seq(Delegate)]
         /\ votesKeySet' \in [Node -> SUBSET Delegate]
         /\ lastVoteTime' \in [Node -> Nat \cup {Never}]
         /\ proposeCache' \in [Node -> SUBSET Nat]
         /\ blockCache' \in [Node -> SUBSET Nat]
  BY DEF TypeOK, SetLastBlock, None, Never

\* The variables have their types at first.
LEMMA InitType == Init => TypeOK
<1> SUFFICES ASSUME Init PROVE TypeOK
  OBVIOUS
<1>1. SlotTicks \in Nat
  BY ConstantsAssumption
<1>2. blocks \in Seq(BlockRecord)
  BY LeaderType DEF Init, BlockRecord, None
<1> QED BY <1>1, <1>2 DEF Init, TypeOK, Never, None, Genesis

\* Every step keeps the types of the variables.
LEMMA TypeStep ==
  ASSUME TypeOK, References, HeightsAboveGenesis, [Next]_vars
  PROVE  TypeOK'
<1>1. CASE UNCHANGED vars
  BY <1>1 DEF TypeOK, vars, ballot, caches
<1>2. CASE Tick
  BY <1>2 DEF TypeOK, Tick, ballot, caches
<1>3. ASSUME NEW n \in Node, NEW d \in Delegate, GenerateAndApply(n, d)
      PROVE  TypeOK'
  <2> DEFINE b == Len(blocks) + 1
             v == SetToSeq(Keypairs[n])
  <2>1. b \in Nat /\ chain[n] \cup {b} \in SUBSET Nat
    BY DEF TypeOK
  <2>2. blocks' \in Seq(BlockRecord)
    BY <1>3, NewBlockType DEF GenerateAndApply
  <2>3. signed' \subseteq Delegate \X Nat
    BY <1>3, <2>1, KeypairsType DEF GenerateAndApply, Signatures, TypeOK
  <2>4. msgs' \subseteq Message
    BY <1>3, <2>1, KeypairsType, BlockMessageType DEF GenerateAndApply, TypeOK
  <2>5. SetLastBlock(n, chain[n] \cup {b}, b)
    BY <1>3 DEF GenerateAndApply
  <2> HIDE DEF b
  <2> QED BY <1>3, <2>1, <2>2, <2>3, <2>4, <2>5, SetLastBlockType
          DEF TypeOK, GenerateAndApply
<1>4. ASSUME NEW n \in Node, NEW d \in Delegate, GenerateAndPropose(n, d)
      PROVE  TypeOK'
  <2> DEFINE b == Len(blocks) + 1
  <2>1. b \in Nat
    BY DEF TypeOK
  <2>2. blocks' \in Seq(BlockRecord)
    BY <1>4, NewBlockType DEF GenerateAndPropose
  <2>3. signed' \subseteq Delegate \X Nat
    BY <1>4, <2>1, KeypairsType DEF GenerateAndPropose, Signatures, TypeOK
  <2>4. msgs' \subseteq Message
    BY <1>4, <2>1 DEF GenerateAndPropose, TypeOK, Message
  <2>5. /\ pendingVotes' \in [Node -> Seq(Delegate)]
        /\ votesKeySet' \in [Node -> SUBSET Delegate]
    BY <1>4, KeypairsType DEF GenerateAndPropose, TypeOK
  <2>6. /\ pendingBlock' \in [Node -> Nat]
        /\ proposeCache' \in [Node -> SUBSET Nat]
    BY <1>4, <2>1 DEF GenerateAndPropose, TypeOK
  <2> QED BY <1>4, <2>2, <2>3, <2>4, <2>5, <2>6 DEF TypeOK, GenerateAndPropose
<1>5. ASSUME NEW n \in Node, NEW m \in msgs, ReceivePropose(n, m)
      PROVE  TypeOK'
  <2>1. m.type = "propose" /\ m.id \in Nat /\ m.from \in Node
    BY <1>5 DEF ReceivePropose, TypeOK, Message
  <2>2. CASE VoteOnPropose(n, m)
    <3>1. signed' \subseteq Delegate \X Nat
      BY <2>1, <2>2, KeypairsType DEF VoteOnPropose, Signatures, TypeOK
    <3>2. [type |-> "votes", id |-> m.id, keys |-> Keypairs[n], to |-> m.from] \in Message
      BY <2>1, KeypairsType DEF Message
    <3>3. msgs' \subseteq Message
      BY <2>2, <3>2 DEF VoteOnPropose, TypeOK
    <3> QED BY <2>1, <2>2, <3>1, <3>3 DEF VoteOnPropose, TypeOK, ballot
  <2>3. CASE IgnorePropose(n, m)
    BY <2>1, <2>3 DEF IgnorePropose, TypeOK, ballot
  <2> QED BY <1>5, <2>2, <2>3 DEF ReceivePropose
<1>6. ASSUME NEW n \in Node, NEW m \in msgs, NEW ok \in BOOLEAN, ReceiveVotes(n, m, ok)
      PROVE  TypeOK'
  <2> DEFINE b == pendingBlock[n]
             v == VotesAfter(n, m.id, m.keys)
             F == FreshVotes(n, m.id, m.keys)
  <2>1. /\ b \in Nat /\ chain[n] \cup {b} \in SUBSET Nat
        /\ v \in Seq(Delegate) /\ F \subseteq Delegate
    BY <1>6, FreshVotesType DEF ReceiveVotes, TypeOK
  <2>2. CASE SetLastBlock(n, chain[n] \cup {b}, b) /\ msgs' = msgs \cup {BlockMessage(b, v)}
    <3>1. msgs' \subseteq Message
      BY <2>1, <2>2, BlockMessageType DEF TypeOK
    <3> HIDE DEF b
    <3> QED BY <1>6, <2>1, <2>2, <3>1, SetLastBlockType DEF ReceiveVotes, TypeOK
  <2>3. CASE /\ pendingVotes' = [pendingVotes EXCEPT ![n] = v]
             /\ votesKeySet' = [votesKeySet EXCEPT ![n] = @ \cup F]
             /\ UNCHANGED <<msgs, chain, lastBlock, pendingBlock, lastVoteTime, caches>>
    <3> HIDE DEF v, F
    <3> QED BY <1>6, <2>1, <2>3 DEF ReceiveVotes, TypeOK, caches
  <2> QED BY <1>6, <2>2, <2>3 DEF ReceiveVotes
<1>7. ASSUME NEW n \in Node, NEW m \in msgs, NEW ok \in BOOLEAN, ReceiveBlock(n, m, ok)
      PROVE  TypeOK'
  <2>1. /\ m.id \in Nat /\ chain[n] \cup {m.id} \in SUBSET Nat
        /\ m.sigs \in Seq(Delegate)
    BY <1>7 DEF ReceiveBlock, TypeOK, Message
  <2>2. CASE /\ SetLastBlock(n, chain[n] \cup {m.id}, m.id)
             /\ msgs' = msgs \cup {BlockMessage(m.id, m.sigs)}
    <3>1. msgs' \subseteq Message
      BY <2>1, <2>2, BlockMessageType DEF TypeOK
    <3> QED BY <1>7, <2>1, <2>2, <3>1, SetLastBlockType DEF ReceiveBlock, TypeOK
  <2>3. CASE /\ blockCache' = [blockCache EXCEPT ![n] = @ \cup {m.id}]
             /\ UNCHANGED <<msgs, chain, lastBlock, ballot, lastVoteTime, proposeCache>>
    BY <1>7, <2>1, <2>3 DEF ReceiveBlock, TypeOK, ballot
  <2> QED BY <1>7, <2>2, <2>3 DEF ReceiveBlock
<1>8. ASSUME NEW n \in Node, NEW m \in Node, NEW b \in chain[m], Sync(n, m, b)
      PROVE  TypeOK'
  <2>1. PICK c \in chain[n] :
          /\ IF c = lastBlock[n]
             THEN UNCHANGED <<voteAt, epoch>>
             ELSE /\ voteAt' = [voteAt EXCEPT ![n] = Never]
                  /\ epoch' = [epoch EXCEPT ![n] = @ + 1]
          /\ \/ SetLastBlock(n, UpTo(n, c) \cup Between(m, c, b), b)
             \/ /\ chain' = [chain EXCEPT ![n] = UpTo(n, c)]
                /\ lastBlock' = [lastBlock EXCEPT ![n] = c]
                /\ UNCHANGED <<ballot, lastVoteTime, caches>>
    BY <1>8 DEF Sync
  <2>2. /\ b \in Nat /\ c \in Nat
        /\ UpTo(n, c) \in SUBSET Nat
        /\ UpTo(n, c) \cup Between(m, c, b) \in SUBSET Nat
    BY DEF TypeOK, UpTo, Between
  <2>3. voteAt' \in [Node -> Nat \cup {Never}] /\ epoch' \in [Node -> Nat]
    <3>1. CASE c = lastBlock[n]
      BY <2>1, <3>1 DEF TypeOK
    <3>2. CASE c # lastBlock[n]
      <4>1. /\ voteAt' = [voteAt EXCEPT ![n] = Never]
            /\ epoch' = [epoch EXCEPT ![n] = @ + 1]
        BY <2>1, <3>2
      <4>2. voteAt' \in [Node -> Nat \cup {Never}]
        BY <4>1 DEF TypeOK
      <4>3. epoch' \in [Node -> Nat]
        BY <4>1 DEF TypeOK
      <4> QED BY <4>2, <4>3
    <3> QED BY <3>1, <3>2
  <2>4. /\ chain' \in [Node -> SUBSET Nat] /\ lastBlock' \in [Node -> Nat]
        /\ pendingBlock' \in [Node -> Nat]
        /\ pendingVotes' \in [Node -> Seq(Delegate)]
        /\ votesKeySet' \in [Node -> SUBSET Delegate]
        /\ lastVoteTime' \in [Node -> Nat \cup {Never}]
        /\ proposeCache' \in [Node -> SUBSET Nat]
        /\ blockCache' \in [Node -> SUBSET Nat]
    <3>1. CASE SetLastBlock(n, UpTo(n, c) \cup Between(m, c, b), b)
      BY <2>2, <3>1, SetLastBlockType
    <3>2. CASE /\ chain' = [chain EXCEPT ![n] = UpTo(n, c)]
               /\ lastBlock' = [lastBlock EXCEPT ![n] = c]
               /\ UNCHANGED <<ballot, lastVoteTime, caches>>
      BY <2>2, <3>2 DEF TypeOK, ballot, caches
    <3> QED BY <2>1, <3>1, <3>2
  <2> QED BY <1>8, <2>3, <2>4 DEF Sync, TypeOK
<1>9. ASSUME NEW n \in Node, Crash(n)
      PROVE  TypeOK'
  BY <1>9 DEF Crash, TypeOK, None, Never
<1>10. \A n \in Restarting : n \in Node
  BY ConstantsAssumption
<1>11. ASSUME NEW n \in Node, NEW d \in Delegate, GenerateInVain(n, d)
       PROVE  TypeOK'
  <2>1. Len(blocks) + 1 \in Nat
    BY DEF TypeOK
  <2>2. blocks' \in Seq(BlockRecord)
    BY <1>11, NewBlockType DEF GenerateInVain
  <2>3. signed' \subseteq Delegate \X Nat
    BY <1>11, <2>1, KeypairsType DEF GenerateInVain, Signatures, TypeOK
  <2> QED BY <1>11, <2>2, <2>3 DEF TypeOK, GenerateInVain, ballot, caches
<1> QED BY <1>1, <1>2, <1>3, <1>4, <1>5, <1>6, <1>7, <1>8, <1>9, <1>10, <1>11 DEF Next

-----------------------------------------------------------------------------
(* References *)

\* At first all ids are of the genesis block.
LEMMA InitReferences == Init => References /\ HeightsAboveGenesis
<1> SUFFICES ASSUME Init PROVE References /\ HeightsAboveGenesis
  OBVIOUS
<1>1. Len(blocks) = 1 /\ Ids = {1} /\ Height(Genesis) = 1
  BY DEF Init, Ids, Height, Genesis
<1> QED BY <1>1 DEF Init, References, HeightsAboveGenesis, Genesis, None

\* A block never changes, and one of height 2 or more is added if any.
LEMMA BlocksGrow ==
  ASSUME TypeOK, References, HeightsAboveGenesis, [Next]_vars
  PROVE  /\ Ids \subseteq Ids'
         /\ Len(blocks') >= 1
         /\ \A b \in Ids : blocks'[b] = blocks[b]
         /\ \A b \in Ids' \ Ids : blocks'[b].height >= 2
<1>1. CASE UNCHANGED blocks
  BY <1>1 DEF References, Ids
<1>2. ASSUME NEW n \in Node, NEW d \in Delegate,
             blocks' = Append(blocks, NewBlock(n, d))
      PROVE  /\ Ids \subseteq Ids'
             /\ Len(blocks') >= 1
             /\ \A b \in Ids : blocks'[b] = blocks[b]
             /\ \A b \in Ids' \ Ids : blocks'[b].height >= 2
  <2> DEFINE new == NewBlock(n, d)
  <2>1. new.height >= 2
    BY NewBlockType
  <2>2. blocks \in Seq(BlockRecord)
    BY DEF TypeOK
  <2> HIDE DEF new
  <2>3. /\ Len(blocks') = Len(blocks) + 1
        /\ \A i \in 1 .. Len(blocks) : blocks'[i] = blocks[i]
        /\ blocks'[Len(blocks) + 1] = new
    BY <1>2, <2>2 DEF new
  <2>4. Len(blocks) \in Nat
    BY <2>2
  <2>5. /\ Ids = 1 .. Len(blocks) /\ Ids' = 1 .. Len(blocks) + 1
        /\ Len(blocks) + 1 >= 1
    BY <2>3, <2>4 DEF Ids
  <2>6. Ids \subseteq Ids' /\ \A b \in Ids' \ Ids : b = Len(blocks) + 1
    BY <2>4, <2>5
  <2>7. \A b \in Ids : blocks'[b] = blocks[b]
    BY <2>3, <2>5
  <2>8. \A b \in Ids' \ Ids : blocks'[b].height >= 2
    BY <2>1, <2>3, <2>6
  <2> QED BY <2>3, <2>5, <2>6, <2>7, <2>8
<1>3. CASE \E n \in Node, d \in Delegate :
              GenerateAndApply(n, d) \/ GenerateInVain(n, d) \/ GenerateAndPropose(n, d)
  BY <1>2, <1>3 DEF GenerateAndApply, GenerateInVain, GenerateAndPropose
<1>4. UNCHANGED vars \/ Tick => UNCHANGED blocks
  BY DEF vars, Tick
<1>5. ASSUME NEW n \in Node, NEW m \in msgs, NEW ok \in BOOLEAN,
             ReceivePropose(n, m) \/ ReceiveVotes(n, m, ok) \/ ReceiveBlock(n, m, ok)
      PROVE  UNCHANGED blocks
  BY <1>5 DEF ReceivePropose, VoteOnPropose, IgnorePropose, ReceiveVotes, ReceiveBlock
<1>6. ASSUME NEW n \in Node, NEW m \in Node, NEW b \in chain[m], Sync(n, m, b)
      PROVE  UNCHANGED blocks
  BY <1>6 DEF Sync
<1>7. ASSUME NEW n \in Restarting, Crash(n)
      PROVE  UNCHANGED blocks
  BY <1>7 DEF Crash
<1> QED BY <1>1, <1>3, <1>4, <1>5, <1>6, <1>7 DEF Next

\* Every step keeps the other blocks above the genesis block.
LEMMA HeightsStep ==
  ASSUME TypeOK, References, HeightsAboveGenesis, [Next]_vars
  PROVE  HeightsAboveGenesis'
<1>1. Genesis \in Ids
  BY DEF References, Ids, Genesis, TypeOK
<1>2. ASSUME NEW b \in Ids' \ {Genesis}
      PROVE  blocks'[b].height >= 2
  BY <1>2, BlocksGrow DEF HeightsAboveGenesis, Height
<1> QED BY <1>1, <1>2, BlocksGrow DEF HeightsAboveGenesis, Height, Genesis

\* SetLastBlock with ids in use.
LEMMA SetLastBlockReferences ==
  ASSUME TypeOK, References, Ids \subseteq Ids', NEW n \in Node,
         NEW c \in SUBSET Ids', NEW b \in Ids', SetLastBlock(n, c, b)
  PROVE  \A x \in Node : /\ chain'[x] \subseteq Ids'
                        /\ lastBlock'[x] \in Ids'
                        /\ pendingBlock'[x] \in Ids' \cup {None}
<1>1. /\ chain' = [chain EXCEPT ![n] = c]
      /\ lastBlock' = [lastBlock EXCEPT ![n] = b]
      /\ pendingBlock' = [pendingBlock EXCEPT ![n] = None]
  BY DEF SetLastBlock
<1> QED BY <1>1 DEF TypeOK, References

\* Every step keeps all ids those of blocks there are.
LEMMA ReferencesStep ==
  ASSUME TypeOK, References, HeightsAboveGenesis, BallotSound, [Next]_vars
  PROVE  References'
<1>1. /\ Ids \subseteq Ids' /\ Len(blocks') >= 1
      /\ signed \subseteq Delegate \X Ids'
  BY BlocksGrow DEF References
<1>2. CASE UNCHANGED vars
  BY <1>2 DEF References, Ids, vars, ballot
<1>3. CASE Tick
  BY <1>3 DEF References, Ids, Tick, ballot
<1>4. ASSUME NEW n \in Node, NEW d \in Delegate, GenerateAndApply(n, d)
      PROVE  References'
  <2> DEFINE b == Len(blocks) + 1
  <2>1. b \in Ids'
    BY <1>4 DEF GenerateAndApply, Ids, TypeOK
  <2>2. SetLastBlock(n, chain[n] \cup {b}, b) /\ chain[n] \cup {b} \subseteq Ids'
    BY <1>1, <1>4, <2>1 DEF GenerateAndApply, References
  <2>3. /\ signed' = signed \cup Signatures(n, b)
        /\ msgs' = msgs \cup {BlockMessage(b, SetToSeq(Keypairs[n]))}
        /\ lastPropose' = lastPropose
    BY <1>4 DEF GenerateAndApply
  <2> HIDE DEF b
  <2>4. signed' \subseteq Delegate \X Ids'
    BY <1>1, <2>1, <2>3, KeypairsType DEF Signatures
  <2>5. \A x \in msgs' : x.id \in Ids'
    BY <1>1, <2>1, <2>3 DEF References, BlockMessage
  <2>6. \A x \in Node : /\ chain'[x] \subseteq Ids'
                       /\ lastBlock'[x] \in Ids'
                       /\ pendingBlock'[x] \in Ids' \cup {None}
    BY <1>1, <2>1, <2>2, SetLastBlockReferences
  <2> QED BY <1>1, <2>3, <2>4, <2>5, <2>6 DEF References
<1>5. ASSUME NEW n \in Node, NEW d \in Delegate, GenerateAndPropose(n, d)
      PROVE  References'
  <2> DEFINE b == Len(blocks) + 1
  <2>1. b \in Ids'
    BY <1>5 DEF GenerateAndPropose, Ids, TypeOK
  <2>2. /\ signed' = signed \cup Signatures(n, b)
        /\ msgs' = msgs \cup {[type |-> "propose", id |-> b, from |-> n]}
        /\ pendingBlock' = [pendingBlock EXCEPT ![n] = b]
        /\ UNCHANGED <<lastPropose, chain, lastBlock>>
    BY <1>5 DEF GenerateAndPropose
  <2> HIDE DEF b
  <2>3. signed' \subseteq Delegate \X Ids'
    BY <1>1, <2>1, <2>2, KeypairsType DEF Signatures
  <2>4. \A x \in msgs' : x.id \in Ids'
    BY <1>1, <2>1, <2>2 DEF References
  <2> QED BY <1>1, <2>1, <2>2, <2>3, <2>4 DEF References, TypeOK
<1>6. ASSUME NEW n \in Node, NEW m \in msgs, VoteOnPropose(n, m)
      PROVE  References'
  <2>1. m.id \in Ids /\ Ids' = Ids
    BY <1>6 DEF VoteOnPropose, References, Ids
  <2>2. /\ signed' = signed \cup Signatures(n, m.id)
        /\ msgs' = msgs \cup {[type |-> "votes", id |-> m.id, keys |-> Keypairs[n],
                               to |-> m.from]}
        /\ lastPropose' = [lastPropose EXCEPT ![n] = m.id]
        /\ UNCHANGED <<pendingBlock, chain, lastBlock>>
    BY <1>6 DEF VoteOnPropose, ballot
  <2>3. signed' \subseteq Delegate \X Ids'
    BY <1>1, <2>1, <2>2, KeypairsType DEF Signatures
  <2> QED BY <1>1, <2>1, <2>2, <2>3 DEF References, TypeOK
<1>7. ASSUME NEW n \in Node, NEW m \in msgs, IgnorePropose(n, m)
      PROVE  References'
  BY <1>7 DEF IgnorePropose, References, Ids, ballot
<1>8. ASSUME NEW n \in Node, NEW m \in msgs, NEW ok \in BOOLEAN, ReceiveVotes(n, m, ok)
      PROVE  References'
  <2> DEFINE b == pendingBlock[n]
             v == VotesAfter(n, m.id, m.keys)
  <2>1. UNCHANGED <<blocks, signed, lastPropose>> /\ Ids' = Ids
    BY <1>8 DEF ReceiveVotes, Ids
  <2>2. CASE /\ HasEnoughVotes(v) /\ Extends(n, b)
             /\ SetLastBlock(n, chain[n] \cup {b}, b)
             /\ msgs' = msgs \cup {BlockMessage(b, v)}
    <3>1. b \in Ids
      <4> DEFINE F == FreshVotes(n, m.id, m.keys)
      <4>1. SUFFICES ASSUME b = None PROVE FALSE
        BY DEF References
      <4>2. pendingVotes[n] = <<>> /\ m.id # b
        BY <4>1 DEF BallotSound, References, Ids, None
      <4>3. F = {}
        BY <4>2 DEF FreshVotes
      <4> HIDE DEF F
      <4>4. SetToSeq(F) \in Seq(F) /\ Len(SetToSeq(F)) = 0
        BY <4>3, FS_EmptySet, SetToSeqProperties
      <4>5. Len(v) = 0
        BY <4>2, <4>4 DEF VotesAfter, F
      <4> QED BY <2>2, <4>5, DelegatesCounted DEF HasEnoughVotes
    <3>2. chain[n] \cup {b} \subseteq Ids'
      BY <2>1, <3>1 DEF References
    <3> HIDE DEF b
    <3>3. \A x \in Node : /\ chain'[x] \subseteq Ids'
                         /\ lastBlock'[x] \in Ids'
                         /\ pendingBlock'[x] \in Ids' \cup {None}
      BY <2>1, <2>2, <3>1, <3>2, SetLastBlockReferences
    <3> QED BY <1>1, <2>1, <2>2, <3>1, <3>3 DEF References, BlockMessage
  <2>3. CASE UNCHANGED <<msgs, chain, lastBlock, pendingBlock>>
    BY <2>1, <2>3 DEF References
  <2> QED BY <1>8, <2>2, <2>3 DEF ReceiveVotes
<1>9. ASSUME NEW n \in Node, NEW m \in msgs, NEW ok \in BOOLEAN, ReceiveBlock(n, m, ok)
      PROVE  References'
  <2>1. UNCHANGED <<blocks, signed, lastPropose>> /\ Ids' = Ids /\ m.id \in Ids
    BY <1>9 DEF ReceiveBlock, Ids, References
  <2>2. CASE /\ SetLastBlock(n, chain[n] \cup {m.id}, m.id)
             /\ msgs' = msgs \cup {BlockMessage(m.id, m.sigs)}
    <3>1. chain[n] \cup {m.id} \subseteq Ids'
      BY <2>1 DEF References
    <3>2. \A x \in Node : /\ chain'[x] \subseteq Ids'
                         /\ lastBlock'[x] \in Ids'
                         /\ pendingBlock'[x] \in Ids' \cup {None}
      BY <2>1, <2>2, <3>1, SetLastBlockReferences
    <3> QED BY <1>1, <2>1, <2>2, <3>2 DEF References, BlockMessage
  <2>3. CASE UNCHANGED <<msgs, chain, lastBlock, pendingBlock>>
    BY <2>1, <2>3 DEF References
  <2> QED BY <1>9, <2>2, <2>3 DEF ReceiveBlock, ballot
<1>10. ASSUME NEW n \in Node, NEW m \in Node, NEW b \in chain[m], Sync(n, m, b)
       PROVE  References'
  <2>1. UNCHANGED <<blocks, msgs, signed, lastPropose>> /\ Ids' = Ids
    BY <1>10 DEF Sync, Ids
  <2>2. PICK c \in chain[n] :
          \/ SetLastBlock(n, UpTo(n, c) \cup Between(m, c, b), b)
          \/ /\ chain' = [chain EXCEPT ![n] = UpTo(n, c)]
             /\ lastBlock' = [lastBlock EXCEPT ![n] = c]
             /\ pendingBlock' = pendingBlock
    BY <1>10 DEF Sync, ballot
  <2>3. /\ b \in Ids /\ c \in Ids
        /\ UpTo(n, c) \subseteq Ids
        /\ UpTo(n, c) \cup Between(m, c, b) \subseteq Ids
    BY DEF References, UpTo, Between
  <2>4. \A x \in Node : /\ chain'[x] \subseteq Ids'
                       /\ lastBlock'[x] \in Ids'
                       /\ pendingBlock'[x] \in Ids' \cup {None}
    <3>1. CASE SetLastBlock(n, UpTo(n, c) \cup Between(m, c, b), b)
      BY <2>1, <2>3, <3>1, SetLastBlockReferences
    <3>2. CASE /\ chain' = [chain EXCEPT ![n] = UpTo(n, c)]
               /\ lastBlock' = [lastBlock EXCEPT ![n] = c]
               /\ pendingBlock' = pendingBlock
      BY <2>1, <2>3, <3>2 DEF References, TypeOK
    <3> QED BY <2>2, <3>1, <3>2
  <2> QED BY <1>1, <2>1, <2>4 DEF References
<1>11. ASSUME NEW n \in Node, Crash(n)
       PROVE  References'
  <2>1. Ids' = Ids
    BY <1>11 DEF Crash, Ids
  <2>2. /\ pendingBlock' = [pendingBlock EXCEPT ![n] = None]
        /\ lastPropose' = [lastPropose EXCEPT ![n] = None]
        /\ UNCHANGED <<msgs, signed, chain, lastBlock>>
    BY <1>11 DEF Crash
  <2> QED BY <1>1, <2>1, <2>2 DEF References, TypeOK
<1>12. \A n \in Restarting : n \in Node
  BY ConstantsAssumption
<1>13. ASSUME NEW n \in Node, NEW d \in Delegate, GenerateInVain(n, d)
       PROVE  References'
  <2>1. Len(blocks) + 1 \in Ids'
    BY <1>13 DEF GenerateInVain, Ids, TypeOK
  <2>2. /\ signed' = signed \cup Signatures(n, Len(blocks) + 1)
        /\ UNCHANGED <<msgs, pendingBlock, lastPropose, chain, lastBlock>>
    BY <1>13 DEF GenerateInVain, ballot
  <2>3. signed' \subseteq Delegate \X Ids'
    BY <1>1, <2>1, <2>2, KeypairsType DEF Signatures
  <2> QED BY <1>1, <2>2, <2>3 DEF References
<1> QED BY <1>2, <1>3, <1>4, <1>5, <1>6, <1>7, <1>8, <1>9, <1>10, <1>11, <1>12, <1>13
        DEF Next, ReceivePropose

-----------------------------------------------------------------------------
(* The ballots *)

\* No step takes a signature back.
LEMMA SignedGrows ==
  ASSUME [Next]_vars
  PROVE  signed \subseteq signed'
<1>1. UNCHANGED vars \/ Tick => signed \subseteq signed'
  BY DEF vars, Tick
<1>2. ASSUME NEW n \in Node, NEW d \in Delegate,
             GenerateAndApply(n, d) \/ GenerateInVain(n, d) \/ GenerateAndPropose(n, d)
      PROVE  signed \subseteq signed'
  BY <1>2 DEF GenerateAndApply, GenerateInVain, GenerateAndPropose
<1>3. ASSUME NEW n \in Node, NEW m \in msgs, NEW ok \in BOOLEAN,
             ReceivePropose(n, m) \/ ReceiveVotes(n, m, ok) \/ ReceiveBlock(n, m, ok)
      PROVE  signed \subseteq signed'
  BY <1>3 DEF ReceivePropose, VoteOnPropose, IgnorePropose, ReceiveVotes, ReceiveBlock
<1>4. ASSUME NEW n \in Node, NEW m \in Node, NEW b \in chain[m], Sync(n, m, b)
      PROVE  signed \subseteq signed'
  BY <1>4 DEF Sync
<1>5. ASSUME NEW n \in Restarting, Crash(n)
      PROVE  signed \subseteq signed'
  BY <1>5 DEF Crash
<1> QED BY <1>1, <1>2, <1>3, <1>4, <1>5 DEF Next

\* A step that leaves the ballots keeps them sound.
LEMMA BallotUnchanged ==
  ASSUME BallotSound, signed \subseteq signed', UNCHANGED ballot
  PROVE  BallotSound'
  BY DEF BallotSound, Genuine, ballot

\* A node that clears its ballot leaves the other ballots as they are.
LEMMA BallotCleared ==
  ASSUME TypeOK, BallotSound, signed \subseteq signed', NEW n \in Node,
         pendingBlock' = [pendingBlock EXCEPT ![n] = None],
         pendingVotes' = [pendingVotes EXCEPT ![n] = <<>>],
         votesKeySet' = [votesKeySet EXCEPT ![n] = {}]
  PROVE  BallotSound'
<1>1. /\ pendingVotes'[n] = <<>>
      /\ \A x \in Node \ {n} : /\ pendingVotes'[x] = pendingVotes[x]
                              /\ pendingBlock'[x] = pendingBlock[x]
                              /\ votesKeySet'[x] = votesKeySet[x]
  BY DEF TypeOK
<1>2. ASSUME NEW x \in Node
      PROVE  /\ \A i, j \in DOMAIN pendingVotes'[x] :
                   pendingVotes'[x][i] = pendingVotes'[x][j] => i = j
             /\ \A i \in DOMAIN pendingVotes'[x] :
                   /\ <<pendingVotes'[x][i], pendingBlock'[x]>> \in signed'
                   /\ pendingVotes'[x][i] \in votesKeySet'[x]
             /\ pendingBlock'[x] = None => pendingVotes'[x] = <<>>
  <2>1. CASE x = n
    BY <1>1, <2>1
  <2>2. CASE x # n
    BY <1>1, <2>2 DEF BallotSound, Genuine
  <2> QED BY <2>1, <2>2
<1> QED BY <1>2 DEF BallotSound, Genuine

\* Every step keeps the ballots sound: votes are added once and only genuine ones.
LEMMA BallotStep ==
  ASSUME TypeOK, References, BallotSound, [Next]_vars
  PROVE  BallotSound'
<1>1. signed \subseteq signed'
  BY SignedGrows
<1>2. CASE UNCHANGED vars \/ Tick
  BY <1>1, <1>2, BallotUnchanged DEF vars, Tick
<1>3. ASSUME NEW n \in Node, NEW d \in Delegate, GenerateAndApply(n, d)
      PROVE  BallotSound'
  BY <1>1, <1>3, BallotCleared DEF GenerateAndApply, SetLastBlock
<1>4. ASSUME NEW n \in Node, NEW d \in Delegate, GenerateAndPropose(n, d)
      PROVE  BallotSound'
  <2> DEFINE b == Len(blocks) + 1
             v == SetToSeq(Keypairs[n])
  <2>1. /\ pendingBlock'[n] = b /\ pendingVotes'[n] = v
        /\ votesKeySet'[n] = Keypairs[n]
        /\ \A x \in Node \ {n} : /\ pendingVotes'[x] = pendingVotes[x]
                                /\ pendingBlock'[x] = pendingBlock[x]
                                /\ votesKeySet'[x] = votesKeySet[x]
    BY <1>4 DEF GenerateAndPropose, TypeOK
  <2>2. /\ v \in Seq(Keypairs[n])
        /\ \A i, j \in DOMAIN v : v[i] = v[j] => i = j
    BY KeypairsType, SetToSeqProperties
  <2>3. \A k \in Keypairs[n] : <<k, b>> \in signed'
    BY <1>4 DEF GenerateAndPropose, Signatures
  <2>4. b # None
    BY DEF References, TypeOK, None
  <2> HIDE DEF b, v
  <2>5. ASSUME NEW x \in Node
        PROVE  /\ \A i, j \in DOMAIN pendingVotes'[x] :
                     pendingVotes'[x][i] = pendingVotes'[x][j] => i = j
               /\ \A i \in DOMAIN pendingVotes'[x] :
                     /\ <<pendingVotes'[x][i], pendingBlock'[x]>> \in signed'
                     /\ pendingVotes'[x][i] \in votesKeySet'[x]
               /\ pendingBlock'[x] = None => pendingVotes'[x] = <<>>
    <3>1. CASE x = n
      BY <2>1, <2>2, <2>3, <2>4, <3>1
    <3>2. CASE x # n
      BY <1>1, <2>1, <3>2 DEF BallotSound, Genuine
    <3> QED BY <3>1, <3>2
  <2> QED BY <2>5 DEF BallotSound, Genuine
<1>5. ASSUME NEW n \in Node, NEW m \in msgs, ReceivePropose(n, m)
      PROVE  BallotSound'
  BY <1>1, <1>5, BallotUnchanged DEF ReceivePropose, VoteOnPropose, IgnorePropose
<1>6. ASSUME NEW n \in Node, NEW m \in msgs, NEW ok \in BOOLEAN, ReceiveVotes(n, m, ok)
      PROVE  BallotSound'
  <2> DEFINE b == pendingBlock[n]
             v == VotesAfter(n, m.id, m.keys)
             F == FreshVotes(n, m.id, m.keys)
  <2>1. CASE SetLastBlock(n, chain[n] \cup {b}, b)
    BY <1>1, <2>1, BallotCleared DEF SetLastBlock
  <2>2. CASE /\ pendingVotes' = [pendingVotes EXCEPT ![n] = v]
             /\ votesKeySet' = [votesKeySet EXCEPT ![n] = @ \cup F]
             /\ UNCHANGED pendingBlock
    <3>1. m.type = "votes" /\ UNCHANGED signed
      BY <1>6 DEF ReceiveVotes
    <3>2. /\ \A i, j \in DOMAIN v : v[i] = v[j] => i = j
          /\ \A i \in DOMAIN v : /\ Genuine(v[i], b)
                                 /\ v[i] \in votesKeySet[n] \cup F
      BY <3>1, VotesAfterSound
    <3>3. b = None => v = <<>>
      <4>1. SUFFICES ASSUME b = None PROVE v = <<>>
        OBVIOUS
      <4>2. pendingVotes[n] = <<>> /\ m.id # b
        BY <4>1 DEF BallotSound, References, Ids, None
      <4>3. F = {}
        BY <4>2 DEF FreshVotes
      <4> HIDE DEF F
      <4>4. SetToSeq(F) \in Seq(F) /\ Len(SetToSeq(F)) = 0
        BY <4>3, FS_EmptySet, SetToSeqProperties
      <4> QED BY <4>2, <4>4 DEF VotesAfter, F
    <3> HIDE DEF F, v
    <3>4. /\ pendingVotes'[n] = v /\ votesKeySet'[n] = votesKeySet[n] \cup F
          /\ \A x \in Node \ {n} : /\ pendingVotes'[x] = pendingVotes[x]
                                  /\ votesKeySet'[x] = votesKeySet[x]
      BY <2>2 DEF TypeOK
    <3>5. ASSUME NEW x \in Node
          PROVE  /\ \A i, j \in DOMAIN pendingVotes'[x] :
                       pendingVotes'[x][i] = pendingVotes'[x][j] => i = j
                 /\ \A i \in DOMAIN pendingVotes'[x] :
                       /\ <<pendingVotes'[x][i], pendingBlock[x]>> \in signed
                       /\ pendingVotes'[x][i] \in votesKeySet'[x]
                 /\ pendingBlock[x] = None => pendingVotes'[x] = <<>>
      <4>1. CASE x = n
        BY <3>2, <3>3, <3>4, <4>1 DEF Genuine
      <4>2. CASE x # n
        BY <3>4, <4>2 DEF BallotSound, Genuine
      <4> QED BY <4>1, <4>2
    <3> QED BY <2>2, <3>1, <3>5 DEF BallotSound, Genuine
  <2> QED BY <1>6, <2>1, <2>2 DEF ReceiveVotes
<1>7. ASSUME NEW n \in Node, NEW m \in msgs, NEW ok \in BOOLEAN, ReceiveBlock(n, m, ok)
      PROVE  BallotSound'
  <2>1. CASE SetLastBlock(n, chain[n] \cup {m.id}, m.id)
    BY <1>1, <2>1, BallotCleared DEF SetLastBlock
  <2>2. CASE UNCHANGED ballot
    BY <1>1, <2>2, BallotUnchanged
  <2> QED BY <1>7, <2>1, <2>2 DEF ReceiveBlock
<1>8. ASSUME NEW n \in Node, NEW m \in Node, NEW b \in chain[m], Sync(n, m, b)
      PROVE  BallotSound'
  <2>1. ASSUME NEW c, NEW x, SetLastBlock(n, x, c)
        PROVE  BallotSound'
    BY <1>1, <2>1, BallotCleared DEF SetLastBlock
  <2>2. CASE UNCHANGED ballot
    BY <1>1, <2>2, BallotUnchanged
  <2> QED BY <1>8, <2>1, <2>2 DEF Sync
<1>9. ASSUME NEW n \in Node, Crash(n)
      PROVE  BallotSound'
  BY <1>1, <1>9, BallotCleared DEF Crash
<1>10. \A n \in Restarting : n \in Node
  BY ConstantsAssumption
<1>11. ASSUME NEW n \in Node, NEW d \in Delegate, GenerateInVain(n, d)
       PROVE  BallotSound'
  BY <1>1, <1>11, BallotUnchanged DEF GenerateInVain
<1> QED BY <1>2, <1>3, <1>4, <1>5, <1>6, <1>7, <1>8, <1>9, <1>10, <1>11 DEF Next

-----------------------------------------------------------------------------
(* Certification *)

\* One node's table changes, to blocks that were in some table or are certified.
LEMMA ChainsCertifiedStep ==
  ASSUME TypeOK, ChainsCertified, signed \subseteq signed', NEW n \in Node, NEW c,
         chain' = [chain EXCEPT ![n] = c],
         \A b \in c \ {Genesis} :
            Certified(b)' \/ \E m \in Node : b \in chain[m]
  PROVE  ChainsCertified'
<1>1. ASSUME NEW x \in Node, NEW b \in chain'[x] \ {Genesis}
      PROVE  Certified(b)'
  <2>1. Certified(b)' \/ \E m \in Node : b \in chain[m]
    BY DEF TypeOK
  <2>2. ASSUME NEW m \in Node, b \in chain[m]
        PROVE  Certified(b)'
    <3>1. Certified(b)
      BY <2>2 DEF ChainsCertified
    <3> QED BY <3>1, CertifiedStable
  <2> QED BY <2>1, <2>2
<1> QED BY <1>1 DEF ChainsCertified

\* Every step keeps the blocks in messages and tables certified.
LEMMA CertificationStep ==
  ASSUME TypeOK, References, BallotSound, MessagesCertified, ChainsCertified,
         [Next]_vars
  PROVE  MessagesCertified' /\ ChainsCertified'
<1>1. signed \subseteq signed'
  BY SignedGrows
<1>2. \A m \in msgs : m.type = "block" => Certified(m.id)'
  BY <1>1, CertifiedStable DEF MessagesCertified
<1>3. ASSUME chain' = chain
      PROVE  ChainsCertified'
  BY <1>1, <1>3, CertifiedStable DEF ChainsCertified
<1>4. CASE UNCHANGED vars \/ Tick
  BY <1>2, <1>3, <1>4 DEF MessagesCertified, vars, Tick
<1>5. ASSUME NEW n \in Node, NEW d \in Delegate, GenerateAndApply(n, d)
      PROVE  MessagesCertified' /\ ChainsCertified'
  <2> DEFINE b == Len(blocks) + 1
             v == SetToSeq(Keypairs[n])
             Q == {k \in Delegate : <<k, b>> \in signed'}
  <2>1. /\ HasEnoughVotes(v)
        /\ msgs' = msgs \cup {BlockMessage(b, v)}
        /\ chain' = [chain EXCEPT ![n] = chain[n] \cup {b}]
        /\ \A k \in Keypairs[n] : <<k, b>> \in signed'
    BY <1>5 DEF GenerateAndApply, Signatures, SetLastBlock
  <2>2. /\ v \in Seq(Keypairs[n]) /\ v \in Seq(Delegate)
        /\ \A i, j \in DOMAIN v : v[i] = v[j] => i = j
    BY KeypairsType, SetToSeqProperties
  <2>3. \A i \in DOMAIN v : v[i] \in Q
    BY <2>1, <2>2, KeypairsType
  <2> HIDE DEF v, b
  <2>4. 3 * Cardinality(Q) > 2 * NumDelegates
    BY <2>1, <2>2, <2>3, EnoughVotes
  <2>5. ASSUME NEW x, x = b
        PROVE  Certified(x)'
    BY <2>4, <2>5 DEF Certified, Signers, Genuine
  <2>6. MessagesCertified'
    BY <1>2, <2>1, <2>5 DEF MessagesCertified, BlockMessage
  <2>7. \A x \in (chain[n] \cup {b}) \ {Genesis} :
           Certified(x)' \/ \E m \in Node : x \in chain[m]
    BY <2>5
  <2> QED BY <1>1, <2>1, <2>6, <2>7, ChainsCertifiedStep
<1>6. ASSUME NEW n \in Node, NEW d \in Delegate, GenerateAndPropose(n, d)
      PROVE  MessagesCertified' /\ ChainsCertified'
  BY <1>2, <1>3, <1>6 DEF MessagesCertified, GenerateAndPropose
<1>7. ASSUME NEW n \in Node, NEW m \in msgs, ReceivePropose(n, m)
      PROVE  MessagesCertified' /\ ChainsCertified'
  BY <1>2, <1>3, <1>7
     DEF MessagesCertified, ReceivePropose, VoteOnPropose, IgnorePropose
<1>8. ASSUME NEW n \in Node, NEW m \in msgs, NEW ok \in BOOLEAN, ReceiveVotes(n, m, ok)
      PROVE  MessagesCertified' /\ ChainsCertified'
  <2> DEFINE b == pendingBlock[n]
             v == VotesAfter(n, m.id, m.keys)
  <2>1. m.type = "votes" /\ UNCHANGED signed
    BY <1>8 DEF ReceiveVotes
  <2>2. CASE UNCHANGED <<msgs, chain>>
    BY <1>2, <1>3, <2>2 DEF MessagesCertified
  <2>3. CASE /\ HasEnoughVotes(v)
             /\ SetLastBlock(n, chain[n] \cup {b}, b)
             /\ msgs' = msgs \cup {BlockMessage(b, v)}
    <3>1. v \in Seq(Delegate)
      BY <2>1, FreshVotesType
    <3>2. /\ \A i, j \in DOMAIN v : v[i] = v[j] => i = j
          /\ \A i \in DOMAIN v : Genuine(v[i], b)
      BY <2>1, VotesAfterSound
    <3>3. chain' = [chain EXCEPT ![n] = chain[n] \cup {b}]
      BY <2>3 DEF SetLastBlock
    <3> HIDE DEF v, b
    <3>4. \A i \in DOMAIN v : v[i] \in Signers(b)
      BY <3>1, <3>2 DEF Signers
    <3>5. Certified(b)
      BY <2>3, <3>1, <3>2, <3>4, EnoughVotes DEF Certified, Signers
    <3>6. ASSUME NEW x, x = b
          PROVE  Certified(x)'
      BY <2>1, <3>5, <3>6 DEF Certified, Signers, Genuine
    <3>7. MessagesCertified'
      BY <1>2, <2>3, <3>6 DEF MessagesCertified, BlockMessage
    <3>8. \A x \in (chain[n] \cup {b}) \ {Genesis} :
             Certified(x)' \/ \E y \in Node : x \in chain[y]
      BY <3>6
    <3> QED BY <1>1, <3>3, <3>7, <3>8, ChainsCertifiedStep
  <2> QED BY <1>8, <2>2, <2>3 DEF ReceiveVotes
<1>9. ASSUME NEW n \in Node, NEW m \in msgs, NEW ok \in BOOLEAN, ReceiveBlock(n, m, ok)
      PROVE  MessagesCertified' /\ ChainsCertified'
  <2>1. CASE UNCHANGED <<msgs, chain>>
    BY <1>2, <1>3, <2>1 DEF MessagesCertified
  <2>2. CASE /\ SetLastBlock(n, chain[n] \cup {m.id}, m.id)
             /\ msgs' = msgs \cup {BlockMessage(m.id, m.sigs)}
    <3>1. Certified(m.id)'
      BY <1>2, <1>9 DEF ReceiveBlock
    <3>2. chain' = [chain EXCEPT ![n] = chain[n] \cup {m.id}]
      BY <2>2 DEF SetLastBlock
    <3>3. MessagesCertified'
      BY <1>2, <2>2, <3>1 DEF MessagesCertified, BlockMessage
    <3>4. ASSUME NEW x \in (chain[n] \cup {m.id}) \ {Genesis}
          PROVE  Certified(x)' \/ \E y \in Node : x \in chain[y]
      <4>1. UNCHANGED <<signed, blocks>>
        BY <1>9 DEF ReceiveBlock
      <4>2. Certified(m.id)
        BY <1>9 DEF ReceiveBlock, MessagesCertified
      <4>3. CASE x = m.id
        BY <4>1, <4>2, <4>3 DEF Certified, Signers, Genuine
      <4> QED BY <4>3
    <3> QED BY <1>1, <3>2, <3>3, <3>4, ChainsCertifiedStep
  <2> QED BY <1>9, <2>1, <2>2 DEF ReceiveBlock
<1>10. ASSUME NEW n \in Node, NEW m \in Node, NEW b \in chain[m], Sync(n, m, b)
       PROVE  MessagesCertified' /\ ChainsCertified'
  <2>1. MessagesCertified'
    BY <1>2, <1>10 DEF Sync, MessagesCertified
  <2>2. PICK c \in chain[n] :
          \/ chain' = [chain EXCEPT ![n] = UpTo(n, c) \cup Between(m, c, b)]
          \/ chain' = [chain EXCEPT ![n] = UpTo(n, c)]
    BY <1>10 DEF Sync, SetLastBlock
  <2>3. UpTo(n, c) \subseteq chain[n] /\ Between(m, c, b) \subseteq chain[m]
    BY DEF UpTo, Between
  <2> QED BY <1>1, <2>1, <2>2, <2>3, ChainsCertifiedStep
<1>11. ASSUME NEW n \in Restarting, Crash(n)
       PROVE  MessagesCertified' /\ ChainsCertified'
  BY <1>2, <1>3, <1>11 DEF MessagesCertified, Crash
<1>12. ASSUME NEW n \in Node, NEW d \in Delegate, GenerateInVain(n, d)
       PROVE  MessagesCertified' /\ ChainsCertified'
  BY <1>2, <1>3, <1>12 DEF MessagesCertified, GenerateInVain
<1> QED BY <1>4, <1>5, <1>6, <1>7, <1>8, <1>9, <1>10, <1>11, <1>12 DEF Next

-----------------------------------------------------------------------------
(* The theorems *)

\* The invariant that certification and accountability need, of every handler.
THEOREM Invariance == Spec => []IInv
<1>1. Init => IInv
  <2>1. Init => BallotSound /\ MessagesCertified /\ ChainsCertified
    BY DEF Init, BallotSound, MessagesCertified, ChainsCertified
  <2> QED BY <2>1, InitType, InitReferences DEF IInv
<1>2. IInv /\ [Next]_vars => IInv'
  BY TypeStep, ReferencesStep, HeightsStep, BallotStep, CertificationStep DEF IInv
<1> QED BY <1>1, <1>2, PTL DEF Spec

\* Every variable keeps its type.
THEOREM TypeCorrectness == Spec => []TypeOK
<1>1. IInv => TypeOK
  BY DEF IInv
<1> QED BY <1>1, Invariance, PTL

\* A proposer never counts a vote twice, nor one for another block.
THEOREM BallotSoundness == Spec => []BallotSound
<1>1. IInv => BallotSound
  BY DEF IInv
<1> QED BY <1>1, Invariance, PTL

\* Whatever a node applies, more than 2/3 of the delegates have voted for it,
\* also when it came with RemoteQuorum votes or with none.
THEOREM Certification == Spec => []ChainsCertified
<1>1. IInv => ChainsCertified
  BY DEF IInv
<1> QED BY <1>1, Invariance, PTL

\* A fork, at any two nodes, costs double signatures of more than 1/3 of the
\* delegates.
THEOREM ForkAccountability == Spec => []ForksAreDoubleSigned
<1>1. ASSUME IInv
      PROVE  ForksAreDoubleSigned
  <2>1. ASSUME NEW n \in Node, NEW m \in Node, NEW a \in chain[n], NEW b \in chain[m],
               a # b, Height(a) = Height(b)
        PROVE  3 * Cardinality(Signers(a) \cap Signers(b)) > NumDelegates
    <3>1. a \in Ids /\ b \in Ids
      BY <1>1 DEF IInv, References
    <3>2. a # Genesis /\ b # Genesis
      BY <1>1, <2>1, <3>1 DEF IInv, HeightsAboveGenesis
    <3>3. Certified(a) /\ Certified(b)
      BY <1>1, <3>2 DEF IInv, ChainsCertified
    <3>4. Signers(a) \subseteq Delegate /\ Signers(b) \subseteq Delegate
      BY DEF Signers
    <3> QED BY <3>3, <3>4, QuorumsOverlap DEF Certified
  <2> QED BY <2>1 DEF ForksAreDoubleSigned
<1> QED BY <1>1, Invariance, PTL

-----------------------------------------------------------------------------
(* Paths *)

\* C is a path of the blocks B, from the genesis block up to l.
Path(B, C, l) ==
  /\ Genesis \in C /\ l \in C
  /\ \A a \in C :
       /\ B[a].height <= B[l].height
       /\ a # Genesis => /\ B[a].prev \in C
                         /\ B[a].height = B[B[a].prev].height + 1
                         /\ B[a].slot > B[B[a].prev].slot
       /\ \A b \in C : B[a].height = B[b].height => a = b

\* ChainsLinked in terms of paths.
LEMMA LinkedPaths == ChainsLinked <=> \A n \in Node : Path(blocks, chain[n], lastBlock[n])
  BY DEF ChainsLinked, Path, Height

\* A path is one of any blocks that agree on it.
LEMMA PathKept ==
  ASSUME NEW A, NEW B, NEW C, NEW l, Path(A, C, l), \A a \in C : B[a] = A[a]
  PROVE  Path(B, C, l)
  BY DEF Path

\* A block on top of the last one makes a longer path.
LEMMA PathExtended ==
  ASSUME NEW B, NEW C, NEW l, NEW b, Path(B, C, l), b \notin C,
         \A a \in C \cup {b} : B[a].height \in Nat,
         B[b].prev = l, B[b].height = B[l].height + 1, B[b].slot > B[l].slot
  PROVE  Path(B, C \cup {b}, b)
<1> USE DEF Path
<1>1. \A a \in C : B[a].height < B[b].height
  OBVIOUS
<1>2. Genesis \in C \cup {b} /\ b \in C \cup {b} /\ b # Genesis
  OBVIOUS
<1>3. ASSUME NEW a \in C \cup {b}
      PROVE  /\ B[a].height <= B[b].height
             /\ a # Genesis => /\ B[a].prev \in C \cup {b}
                               /\ B[a].height = B[B[a].prev].height + 1
                               /\ B[a].slot > B[B[a].prev].slot
             /\ \A d \in C \cup {b} : B[a].height = B[d].height => a = d
  <2>1. CASE a \in C
    BY <1>1, <2>1
  <2>2. CASE a = b
    BY <1>1, <2>2
  <2> QED BY <1>3, <2>1, <2>2
<1> QED BY <1>2, <1>3

\* The part of a path up to one of its blocks is a path.
LEMMA PathCut ==
  ASSUME NEW B, NEW C, NEW l, NEW c \in C, Path(B, C, l),
         \A a \in C : B[a].height \in Nat /\ B[a].height >= B[Genesis].height
  PROVE  Path(B, {a \in C : B[a].height <= B[c].height}, c)
<1> DEFINE U == {a \in C : B[a].height <= B[c].height}
<1>1. Genesis \in U /\ c \in U
  BY DEF Path
<1>2. ASSUME NEW a \in U
      PROVE  /\ B[a].height <= B[c].height
             /\ a # Genesis => /\ B[a].prev \in U
                               /\ B[a].height = B[B[a].prev].height + 1
                               /\ B[a].slot > B[B[a].prev].slot
             /\ \A d \in U : B[a].height = B[d].height => a = d
  BY DEF Path
<1> QED BY <1>1, <1>2 DEF Path

\* Two paths that have a block in common: the one up to it and the other from it.
LEMMA PathSpliced ==
  ASSUME NEW B, NEW C, NEW D, NEW l, NEW k, Path(B, C, l), Path(B, D, k),
         \A a \in C \cup D : B[a].height \in Nat /\ B[a].height >= B[Genesis].height,
         NEW c \in C \cap D, NEW b \in D, b # c, B[b].height >= B[c].height
  PROVE  /\ B[b].height > B[c].height
         /\ Path(B, {a \in C : B[a].height <= B[c].height}
                      \cup {a \in D : B[c].height < B[a].height /\ B[a].height <= B[b].height}, b)
<1> DEFINE U == {a \in C : B[a].height <= B[c].height}
           V == {a \in D : B[c].height < B[a].height /\ B[a].height <= B[b].height}
<1>1. B[b].height > B[c].height
  BY DEF Path
<1>2. Genesis \in U /\ c \in U /\ b \in V
  BY <1>1 DEF Path
<1>3. \A a \in U, d \in V : B[a].height < B[d].height
  OBVIOUS
<1>4. \A a \in U \cup V : B[a].height <= B[b].height
  BY <1>1
<1>5. \A a \in U : a # Genesis => B[a].prev \in U
  BY DEF Path
<1>6. ASSUME NEW a \in V
      PROVE  B[a].prev \in U \cup V
  <2>1. a # Genesis /\ B[a].prev \in D /\ B[a].height = B[B[a].prev].height + 1
    BY <1>2, <1>3, <1>6 DEF Path
  <2>2. CASE B[B[a].prev].height = B[c].height
    BY <1>2, <2>1, <2>2 DEF Path
  <2>3. CASE B[B[a].prev].height > B[c].height
    BY <1>6, <2>1, <2>3
  <2>4. B[B[a].prev].height \in Nat /\ B[a].height \in Nat /\ B[c].height \in Nat
        /\ B[a].height > B[c].height
    BY <1>6, <2>1
  <2> QED BY <2>1, <2>2, <2>3, <2>4
<1>7. ASSUME NEW a \in U \cup V, a # Genesis
      PROVE  B[a].height = B[B[a].prev].height + 1 /\ B[a].slot > B[B[a].prev].slot
  BY <1>7 DEF Path
<1>8. ASSUME NEW a \in U \cup V, NEW d \in U \cup V, B[a].height = B[d].height
      PROVE  a = d
  <2>1. CASE a \in U /\ d \in U
    BY <1>8, <2>1 DEF Path
  <2>2. CASE a \in V /\ d \in V
    BY <1>8, <2>2 DEF Path
  <2>3. \A e \in U \cup V : B[e].height \in Nat
    OBVIOUS
  <2> QED BY <1>3, <1>8, <2>1, <2>2, <2>3
<1> HIDE DEF U, V
<1>9. Path(B, U \cup V, b)
  BY <1>2, <1>4, <1>5, <1>6, <1>7, <1>8 DEF Path
<1> QED BY <1>1, <1>9 DEF U, V

-----------------------------------------------------------------------------
(* The blocks table *)

\* A block is one higher than the block it was forged upon.
BlocksLinked ==
  \A b \in Ids \ {Genesis} : /\ blocks[b].prev \in Ids
                             /\ Height(b) = Height(blocks[b].prev) + 1

CInv == IInv /\ BlocksLinked /\ ChainsLinked

\* Heights are natural numbers; only the genesis block has height 1.
LEMMA HeightsType ==
  ASSUME TypeOK, HeightsAboveGenesis, NEW a \in Ids
  PROVE  blocks[a].height \in Nat /\ blocks[a].height >= blocks[Genesis].height
<1>1. blocks[a] \in BlockRecord
  BY DEF TypeOK, Ids
<1>2. blocks[a].height \in Nat
  BY <1>1 DEF BlockRecord
<1>3. blocks[Genesis].height = 1 /\ (a = Genesis \/ blocks[a].height >= 2)
  BY DEF HeightsAboveGenesis, Height
<1> QED BY <1>2, <1>3

\* The heights of the blocks there are after a step are natural numbers.
LEMMA HeightsTypeNext ==
  ASSUME TypeOK', HeightsAboveGenesis', NEW a \in Ids'
  PROVE  blocks'[a].height \in Nat
<1>1. blocks'[a] \in BlockRecord
  BY DEF TypeOK, Ids
<1> QED BY <1>1 DEF BlockRecord

\* A table of which one node's path is replaced by another path.
LEMMA ChainReplaced ==
  ASSUME TypeOK, References, ChainsLinked, \A a \in Ids : blocks'[a] = blocks[a],
         NEW n \in Node, NEW C, NEW l, Path(blocks', C, l),
         chain' = [chain EXCEPT ![n] = C], lastBlock' = [lastBlock EXCEPT ![n] = l]
  PROVE  ChainsLinked'
<1>1. ASSUME NEW x \in Node PROVE Path(blocks', chain'[x], lastBlock'[x])
  <2>1. CASE x = n
    BY <2>1 DEF TypeOK
  <2>2. CASE x # n
    <3>1. chain'[x] = chain[x] /\ lastBlock'[x] = lastBlock[x]
      BY <2>2 DEF TypeOK
    <3>2. Path(blocks, chain[x], lastBlock[x]) /\ chain[x] \subseteq Ids
      BY LinkedPaths DEF References
    <3> QED BY <3>1, <3>2, PathKept
  <2> QED BY <2>1, <2>2
<1> QED BY <1>1 DEF ChainsLinked, Path, Height

\* A step that changes no table and only adds blocks keeps the paths.
LEMMA ChainsKept ==
  ASSUME TypeOK, References, ChainsLinked, \A a \in Ids : blocks'[a] = blocks[a],
         UNCHANGED <<chain, lastBlock>>
  PROVE  ChainsLinked'
<1>1. ASSUME NEW x \in Node PROVE Path(blocks', chain'[x], lastBlock'[x])
  <2>1. Path(blocks, chain[x], lastBlock[x]) /\ chain[x] \subseteq Ids
    BY LinkedPaths DEF References
  <2> QED BY <2>1, PathKept
<1> QED BY <1>1 DEF ChainsLinked, Path, Height

\* What a new block is made of.
LEMMA NewBlockAppended ==
  ASSUME CInv, NEW n \in Node, NEW d \in Delegate, MayForge(n, d),
         blocks' = Append(blocks, NewBlock(n, d))
  PROVE  LET b == Len(blocks) + 1
         IN  /\ b \in Ids' /\ b \notin Ids /\ Ids' = Ids \cup {b}
             /\ blocks'[b] = NewBlock(n, d)
             /\ \A a \in Ids : blocks'[a] = blocks[a]
             /\ lastBlock[n] \in Ids
             /\ blocks'[b].prev = lastBlock[n]
             /\ blocks'[b].height = blocks'[lastBlock[n]].height + 1
             /\ blocks'[b].slot > blocks'[lastBlock[n]].slot
<1> DEFINE b == Len(blocks) + 1
           new == NewBlock(n, d)
<1>1. blocks \in Seq(BlockRecord) /\ lastBlock[n] \in Ids
  BY DEF CInv, IInv, TypeOK, References
<1>2. /\ new.prev = lastBlock[n] /\ new.height = blocks[lastBlock[n]].height + 1
      /\ new.slot = CurrentSlot
  BY DEF NewBlock, Height
<1>3. CurrentSlot > blocks[lastBlock[n]].slot
  <2>1. blocks[lastBlock[n]] \in BlockRecord
    BY <1>1 DEF Ids
  <2>2. blocks[lastBlock[n]].slot \in Nat
    BY <2>1 DEF BlockRecord
  <2>3. CurrentSlot \in Nat
    BY SlotType DEF CInv, IInv, TypeOK
  <2> QED BY <2>2, <2>3 DEF MayForge
<1> HIDE DEF new
<1>4. /\ Len(blocks) \in Nat /\ Len(blocks') = b
      /\ \A i \in 1 .. Len(blocks) : blocks'[i] = blocks[i]
      /\ blocks'[b] = new
  BY <1>1 DEF new
<1>5. /\ b \in Ids' /\ b \notin Ids /\ Ids' = Ids \cup {b}
      /\ \A a \in Ids : blocks'[a] = blocks[a]
  BY <1>4 DEF Ids
<1> QED BY <1>1, <1>2, <1>3, <1>4, <1>5 DEF new

\* Every step keeps the links of all blocks: new ones go on top of a last block.
LEMMA BlocksLinkedStep ==
  ASSUME CInv, [Next]_vars
  PROVE  BlocksLinked'
<1>1. ASSUME NEW n \in Node, NEW d \in Delegate, MayForge(n, d),
             blocks' = Append(blocks, NewBlock(n, d))
      PROVE  BlocksLinked'
  <2> DEFINE b == Len(blocks) + 1
  <2>1. /\ b \notin Ids /\ Ids' = Ids \cup {b}
        /\ \A a \in Ids : blocks'[a] = blocks[a]
        /\ lastBlock[n] \in Ids
        /\ blocks'[b].prev = lastBlock[n]
        /\ blocks'[b].height = blocks'[lastBlock[n]].height + 1
    BY <1>1, NewBlockAppended
  <2> HIDE DEF b
  <2> QED BY <2>1 DEF CInv, BlocksLinked, Height
<1>2. CASE UNCHANGED blocks
  BY <1>2 DEF CInv, BlocksLinked, Height, Ids
<1>3. CASE \E n \in Node, d \in Delegate :
             GenerateAndApply(n, d) \/ GenerateInVain(n, d) \/ GenerateAndPropose(n, d)
  BY <1>1, <1>3 DEF GenerateAndApply, GenerateInVain, GenerateAndPropose
<1>4. UNCHANGED vars \/ Tick => UNCHANGED blocks
  BY DEF vars, Tick
<1>5. ASSUME NEW n \in Node, NEW m \in msgs, NEW ok \in BOOLEAN,
             ReceivePropose(n, m) \/ ReceiveVotes(n, m, ok) \/ ReceiveBlock(n, m, ok)
      PROVE  UNCHANGED blocks
  BY <1>5 DEF ReceivePropose, VoteOnPropose, IgnorePropose, ReceiveVotes, ReceiveBlock
<1>6. ASSUME NEW n \in Node, NEW m \in Node, NEW b \in chain[m], Sync(n, m, b)
      PROVE  UNCHANGED blocks
  BY <1>6 DEF Sync
<1>7. ASSUME NEW n \in Restarting, Crash(n)
      PROVE  UNCHANGED blocks
  BY <1>7 DEF Crash
<1> QED BY <1>2, <1>3, <1>4, <1>5, <1>6, <1>7 DEF Next

\* A block that extends the last one.
LEMMA ExtendedPath ==
  ASSUME CInv, NEW n \in Node, NEW b \in Ids, Extends(n, b)
  PROVE  Path(blocks, chain[n] \cup {b}, b)
<1>1. Path(blocks, chain[n], lastBlock[n])
  BY LinkedPaths DEF CInv
<1>2. chain[n] \subseteq Ids /\ b \notin chain[n] /\ blocks[b].prev = lastBlock[n]
      /\ blocks[b].slot > blocks[lastBlock[n]].slot
  BY DEF CInv, IInv, References, Extends
<1>3. blocks[b].height = blocks[lastBlock[n]].height + 1
  <2>1. b # Genesis
    BY <1>1, <1>2 DEF Path
  <2> QED BY <1>2, <2>1 DEF CInv, BlocksLinked, Height
<1>4. \A a \in chain[n] \cup {b} : blocks[a].height \in Nat
  BY <1>2, HeightsType DEF CInv, IInv
<1> QED BY <1>1, <1>2, <1>3, <1>4, PathExtended

\* Every step keeps each table a path, one action after the other.
LEMMA ChainsStep ==
  ASSUME CInv, [Next]_vars
  PROVE  ChainsLinked'
<1> USE DEF CInv
<1>0. TypeOK /\ References /\ HeightsAboveGenesis /\ BallotSound
  BY DEF IInv
<1>1. \A a \in Ids : blocks'[a] = blocks[a]
  BY <1>0, BlocksGrow
<1>2. CASE UNCHANGED <<chain, lastBlock>>
  BY <1>0, <1>1, <1>2, ChainsKept
<1>3. ASSUME NEW n \in Node, NEW d \in Delegate, GenerateAndApply(n, d)
      PROVE  ChainsLinked'
  <2> DEFINE b == Len(blocks) + 1
  <2>1. MayForge(n, d) /\ blocks' = Append(blocks, NewBlock(n, d))
        /\ SetLastBlock(n, chain[n] \cup {b}, b)
    BY <1>3 DEF GenerateAndApply
  <2>2. /\ b \in Ids' /\ b \notin Ids
        /\ lastBlock[n] \in Ids /\ blocks'[b].prev = lastBlock[n]
        /\ blocks'[b].height = blocks'[lastBlock[n]].height + 1
        /\ blocks'[b].slot > blocks'[lastBlock[n]].slot
    BY <2>1, NewBlockAppended
  <2> HIDE DEF b
  <2>3. chain[n] \subseteq Ids /\ b \notin chain[n]
    BY <1>0, <2>2 DEF References
  <2>4. Path(blocks', chain[n], lastBlock[n])
    <3>1. Path(blocks, chain[n], lastBlock[n])
      BY LinkedPaths
    <3> QED BY <1>1, <2>3, <3>1, PathKept
  <2>5. \A a \in Ids' : blocks'[a].height \in Nat
    BY <1>0, TypeStep, HeightsStep, HeightsTypeNext
  <2>6. \A a \in chain[n] \cup {b} : a \in Ids'
    BY <1>0, <2>2, <2>3, BlocksGrow
  <2>7. Path(blocks', chain[n] \cup {b}, b)
    BY <2>2, <2>3, <2>4, <2>5, <2>6, PathExtended
  <2>8. chain' = [chain EXCEPT ![n] = chain[n] \cup {b}] /\ lastBlock' = [lastBlock EXCEPT ![n] = b]
    BY <2>1 DEF SetLastBlock
  <2> QED BY <1>0, <1>1, <2>7, <2>8, ChainReplaced
<1>4. ASSUME NEW n \in Node, NEW b, Extends(n, b), SetLastBlock(n, chain[n] \cup {b}, b),
             UNCHANGED blocks
      PROVE  ChainsLinked'
  <2>1. chain' = [chain EXCEPT ![n] = chain[n] \cup {b}] /\ lastBlock' = [lastBlock EXCEPT ![n] = b]
    BY <1>4 DEF SetLastBlock
  <2>2. b \in Ids
    <3>1. References' /\ Ids' = Ids /\ lastBlock'[n] = b
      BY <1>0, <1>4, <2>1, ReferencesStep DEF Ids, TypeOK
    <3> QED BY <3>1 DEF References
  <2>3. Path(blocks', chain[n] \cup {b}, b)
    BY <1>4, <2>2, ExtendedPath
  <2> QED BY <1>0, <1>1, <2>1, <2>3, ChainReplaced
<1>5. ASSUME NEW n \in Node, NEW m \in Node, NEW b \in chain[m], Sync(n, m, b)
      PROVE  ChainsLinked'
  <2>1. PICK c \in chain[n] :
          /\ c \in chain[m] /\ Height(b) >= Height(c)
          /\ \/ b # c /\ SetLastBlock(n, UpTo(n, c) \cup Between(m, c, b), b)
             \/ /\ chain' = [chain EXCEPT ![n] = UpTo(n, c)]
                /\ lastBlock' = [lastBlock EXCEPT ![n] = c]
    BY <1>5 DEF Sync, IsCommonBlock
  <2>2. Path(blocks, chain[n], lastBlock[n]) /\ Path(blocks, chain[m], lastBlock[m])
    BY LinkedPaths
  <2>3. \A a \in chain[n] \cup chain[m] :
          blocks[a].height \in Nat /\ blocks[a].height >= blocks[Genesis].height
    BY <1>0, HeightsType DEF References
  <2>4. blocks' = blocks
    BY <1>5 DEF Sync
  <2>5. CASE b # c /\ SetLastBlock(n, UpTo(n, c) \cup Between(m, c, b), b)
    <3>1. Path(blocks, UpTo(n, c) \cup Between(m, c, b), b)
      BY <2>1, <2>2, <2>3, <2>5, PathSpliced DEF UpTo, Between, Height
    <3>2. /\ chain' = [chain EXCEPT ![n] = UpTo(n, c) \cup Between(m, c, b)]
          /\ lastBlock' = [lastBlock EXCEPT ![n] = b]
      BY <2>5 DEF SetLastBlock
    <3> QED BY <1>0, <1>1, <2>4, <3>1, <3>2, ChainReplaced
  <2>6. CASE chain' = [chain EXCEPT ![n] = UpTo(n, c)] /\ lastBlock' = [lastBlock EXCEPT ![n] = c]
    <3>1. Path(blocks, UpTo(n, c), c)
      BY <2>2, <2>3, PathCut DEF UpTo, Height
    <3> QED BY <1>0, <1>1, <2>4, <2>6, <3>1, ChainReplaced
  <2> QED BY <2>1, <2>5, <2>6
<1>6. CASE UNCHANGED vars \/ Tick
  BY <1>2, <1>6 DEF vars, Tick
<1>7. CASE \E n \in Node, d \in Delegate :
             GenerateAndApply(n, d) \/ GenerateInVain(n, d) \/ GenerateAndPropose(n, d)
  BY <1>2, <1>3, <1>7 DEF GenerateAndPropose, GenerateInVain
<1>8. ASSUME NEW n \in Node, NEW m \in msgs, NEW ok \in BOOLEAN,
             ReceivePropose(n, m) \/ ReceiveVotes(n, m, ok) \/ ReceiveBlock(n, m, ok)
      PROVE  ChainsLinked'
  <2>1. CASE ReceivePropose(n, m)
    BY <1>2, <2>1 DEF ReceivePropose, VoteOnPropose, IgnorePropose
  <2>2. CASE ReceiveVotes(n, m, ok)
    BY <1>2, <1>4, <2>2 DEF ReceiveVotes
  <2>3. CASE ReceiveBlock(n, m, ok)
    BY <1>2, <1>4, <2>3 DEF ReceiveBlock
  <2> QED BY <1>8, <2>1, <2>2, <2>3
<1>9. CASE \E n \in Restarting : Crash(n)
  BY <1>2, <1>9 DEF Crash
<1> QED BY <1>5, <1>6, <1>7, <1>8, <1>9 DEF Next

\* At first there is the genesis block alone.
LEMMA InitLinked == Init => BlocksLinked /\ ChainsLinked
<1> SUFFICES ASSUME Init PROVE BlocksLinked /\ ChainsLinked
  OBVIOUS
<1>1. Ids = {1} /\ blocks[1].height = 1
  BY DEF Init, Ids
<1>2. \A n \in Node : chain[n] = {Genesis} /\ lastBlock[n] = Genesis
  BY DEF Init
<1> QED BY <1>1, <1>2 DEF BlocksLinked, ChainsLinked, Height, Genesis

\* The invariant that ChainsLinked needs: every block is linked to one there is, and
\* each table is a path of them, whatever generateBlock, applyBlock and Sync do.
THEOREM LinkInvariance == Spec => []CInv
<1>1. Init => BlocksLinked /\ ChainsLinked
  BY InitLinked
<1>2. CInv /\ [Next]_vars => BlocksLinked' /\ ChainsLinked'
  BY BlocksLinkedStep, ChainsStep
<1>3. CInv <=> IInv /\ BlocksLinked /\ ChainsLinked
  BY DEF CInv
<1> QED BY <1>1, <1>2, <1>3, Invariance, PTL DEF Spec

\* Whatever applyBlock, popLastBlock and loadBlocksFromPeer make of it, also when a
\* download breaks off, a blocks table is one path of blocks that ends at lastBlock.
THEOREM Linkage == Spec => []ChainsLinked
<1>1. CInv => ChainsLinked
  BY DEF CInv
<1> QED BY <1>1, LinkInvariance, PTL

-----------------------------------------------------------------------------
(* An epoch of a node *)

\* What a step is to node x: its epoch ends, its last block is a higher one, or the
\* last block stays and it has proposed or voted at most.
Interrupted(x) ==
  /\ epoch'[x] = epoch[x] + 1 /\ voteAt'[x] = Never
  /\ lastPropose'[x] \in {lastPropose[x], None}
Advances(x) ==
  /\ epoch'[x] = epoch[x] /\ voteAt'[x] = voteAt[x] /\ lastPropose'[x] = lastPropose[x]
  /\ blocks'[lastBlock'[x]].height > blocks[lastBlock[x]].height
Stays(x) ==
  /\ epoch'[x] = epoch[x] /\ lastBlock'[x] = lastBlock[x]
  /\ pendingBlock'[x] = pendingBlock[x] \/ \E d \in Delegate : GenerateAndPropose(x, d)
  /\ \/ /\ voteAt'[x] = voteAt[x] /\ lastPropose'[x] = lastPropose[x]
        /\ lastVoteTime'[x] = lastVoteTime[x]
     \/ \E m \in msgs : VoteOnPropose(x, m)

\* SetLastBlock at one node advances it and leaves the others as they were.
LEMMA AppliedAdvances ==
  ASSUME CInv, NEW n \in Node, NEW x \in Node, NEW C, NEW b,
         SetLastBlock(n, C, b), UNCHANGED <<lastPropose, voteAt, epoch>>,
         blocks'[b].height > blocks[lastBlock[n]].height
  PROVE  Advances(x) \/ Stays(x)
<1>1. TypeOK
  BY DEF CInv, IInv
<1>2. CASE x = n
  <2>1. lastBlock'[x] = b
    BY <1>1, <1>2 DEF SetLastBlock, TypeOK
  <2> QED BY <1>2, <2>1 DEF Advances
<1>3. CASE x # n
  BY <1>1, <1>3 DEF SetLastBlock, TypeOK, Stays
<1> QED BY <1>2, <1>3

\* What extends the last block is higher.
LEMMA ExtendingHeight ==
  ASSUME CInv, [Next]_vars, UNCHANGED blocks, NEW n \in Node, NEW b, Extends(n, b),
         SetLastBlock(n, chain[n] \cup {b}, b)
  PROVE  blocks'[b].height > blocks[lastBlock[n]].height
<1>1. TypeOK /\ References /\ HeightsAboveGenesis /\ BallotSound
  BY DEF CInv, IInv
<1>2. b \in Ids
  <2>1. References' /\ Ids' = Ids /\ lastBlock'[n] = b
    BY <1>1, ReferencesStep DEF Ids, TypeOK, SetLastBlock
  <2> QED BY <2>1 DEF References
<1>3. b # Genesis /\ blocks[b].prev = lastBlock[n]
  BY DEF CInv, ChainsLinked, Extends
<1>4. blocks[b].height = blocks[lastBlock[n]].height + 1
  BY <1>2, <1>3 DEF CInv, BlocksLinked, Height
<1>5. blocks[lastBlock[n]].height \in Nat
  BY <1>1, HeightsType DEF References
<1> QED BY <1>4, <1>5

\* Every step ends the epoch of a node, advances it, or leaves its last block.
LEMMA NodeStep ==
  ASSUME CInv, [Next]_vars, NEW x \in Node
  PROVE  Interrupted(x) \/ Advances(x) \/ Stays(x)
<1>0. TypeOK /\ References /\ HeightsAboveGenesis
  BY DEF CInv, IInv
<1>1. CASE UNCHANGED vars \/ Tick
  BY <1>1 DEF vars, ballot, Tick, Stays
<1>2. ASSUME NEW n \in Node, NEW d \in Delegate, GenerateAndApply(n, d)
      PROVE  Advances(x) \/ Stays(x)
  <2> DEFINE b == Len(blocks) + 1
  <2>1. /\ MayForge(n, d) /\ blocks' = Append(blocks, NewBlock(n, d))
        /\ SetLastBlock(n, chain[n] \cup {b}, b)
        /\ UNCHANGED <<lastPropose, voteAt, epoch>>
    BY <1>2 DEF GenerateAndApply
  <2>2. /\ lastBlock[n] \in Ids /\ blocks'[b].height = blocks'[lastBlock[n]].height + 1
        /\ blocks'[lastBlock[n]] = blocks[lastBlock[n]]
    BY <2>1, NewBlockAppended
  <2>3. blocks[lastBlock[n]].height \in Nat
    BY <1>0, <2>2, HeightsType
  <2> HIDE DEF b
  <2>4. blocks'[b].height > blocks[lastBlock[n]].height
    BY <2>2, <2>3
  <2>5. SetLastBlock(n, chain[n] \cup {b}, b) /\ UNCHANGED <<lastPropose, voteAt, epoch>>
    BY <2>1
  <2> QED BY <2>4, <2>5, AppliedAdvances
<1>3. ASSUME NEW n \in Node, NEW d \in Delegate, GenerateAndPropose(n, d)
      PROVE  Stays(x)
  <2>1. UNCHANGED <<epoch, lastBlock, voteAt, lastPropose, lastVoteTime>>
    BY <1>3 DEF GenerateAndPropose
  <2>2. CASE x = n
    BY <1>3, <2>1, <2>2 DEF Stays
  <2>3. CASE x # n
    <3>1. pendingBlock'[x] = pendingBlock[x]
      BY <1>0, <1>3, <2>3 DEF GenerateAndPropose, TypeOK
    <3> QED BY <2>1, <3>1 DEF Stays
  <2> QED BY <2>2, <2>3
<1>4. ASSUME NEW n \in Node, NEW m \in msgs, ReceivePropose(n, m)
      PROVE  Stays(x)
  <2>1. UNCHANGED <<epoch, lastBlock, pendingBlock>>
    BY <1>4 DEF ReceivePropose, VoteOnPropose, IgnorePropose, ballot
  <2>2. CASE IgnorePropose(n, m)
    BY <2>1, <2>2 DEF IgnorePropose, Stays
  <2>3. CASE VoteOnPropose(n, m) /\ x = n
    BY <2>1, <2>3 DEF Stays
  <2>4. CASE VoteOnPropose(n, m) /\ x # n
    <3>1. /\ voteAt'[x] = voteAt[x] /\ lastPropose'[x] = lastPropose[x]
          /\ lastVoteTime'[x] = lastVoteTime[x]
      BY <1>0, <2>4 DEF VoteOnPropose, TypeOK
    <3> QED BY <2>1, <3>1 DEF Stays
  <2> QED BY <1>4, <2>2, <2>3, <2>4 DEF ReceivePropose
<1>5. ASSUME NEW n \in Node, NEW m \in msgs, NEW ok \in BOOLEAN, ReceiveVotes(n, m, ok) \/ ReceiveBlock(n, m, ok)
      PROVE  Advances(x) \/ Stays(x)
  <2>1. UNCHANGED <<blocks, lastPropose, voteAt, epoch>>
    BY <1>5 DEF ReceiveVotes, ReceiveBlock
  <2>2. ASSUME NEW b, Extends(n, b), SetLastBlock(n, chain[n] \cup {b}, b)
        PROVE  Advances(x) \/ Stays(x)
    BY <2>1, <2>2, ExtendingHeight, AppliedAdvances
  <2>3. CASE UNCHANGED <<lastBlock, pendingBlock, lastVoteTime>>
    BY <2>1, <2>3 DEF Stays
  <2> QED BY <1>5, <2>2, <2>3 DEF ReceiveVotes, ReceiveBlock, ballot
<1>6. ASSUME NEW n \in Node, NEW m \in Node, NEW b \in chain[m], Sync(n, m, b)
      PROVE  Interrupted(x) \/ Advances(x) \/ Stays(x)
  <2>1. PICK c \in chain[n] :
          /\ c \in chain[m] /\ Height(b) >= Height(c)
          /\ IF c = lastBlock[n]
             THEN UNCHANGED <<voteAt, epoch>>
             ELSE /\ voteAt' = [voteAt EXCEPT ![n] = Never]
                  /\ epoch' = [epoch EXCEPT ![n] = @ + 1]
          /\ \/ b # c /\ SetLastBlock(n, UpTo(n, c) \cup Between(m, c, b), b)
             \/ /\ c # lastBlock[n]
                /\ lastBlock' = [lastBlock EXCEPT ![n] = c]
                /\ UNCHANGED <<ballot, lastVoteTime>>
    BY <1>6 DEF Sync, IsCommonBlock
  <2>2. UNCHANGED <<blocks, lastPropose>>
    BY <1>6 DEF Sync
  <2>3. CASE c # lastBlock[n] /\ x = n
    <3>1. /\ voteAt' = [voteAt EXCEPT ![n] = Never]
          /\ epoch' = [epoch EXCEPT ![n] = @ + 1]
      BY <2>1, <2>3
    <3>2. voteAt'[x] = Never /\ epoch'[x] = epoch[x] + 1
      BY <1>0, <2>3, <3>1 DEF TypeOK
    <3> QED BY <2>2, <3>2 DEF Interrupted
  <2>4. CASE x # n
    <3>1. voteAt'[x] = voteAt[x] /\ epoch'[x] = epoch[x]
      BY <1>0, <2>1, <2>4 DEF TypeOK
    <3>2. /\ lastBlock'[x] = lastBlock[x] /\ pendingBlock'[x] = pendingBlock[x]
          /\ lastVoteTime'[x] = lastVoteTime[x]
      BY <1>0, <2>1, <2>4 DEF TypeOK, SetLastBlock, ballot
    <3> QED BY <2>2, <3>1, <3>2 DEF Stays
  <2>5. CASE c = lastBlock[n] /\ x = n
    <3>1. b # c /\ SetLastBlock(n, UpTo(n, c) \cup Between(m, c, b), b)
          /\ UNCHANGED <<voteAt, epoch>>
      BY <2>1, <2>5
    <3>2. blocks[b].height > blocks[c].height
      <4>1. Path(blocks, chain[m], lastBlock[m])
        BY LinkedPaths DEF CInv
      <4>2. blocks[b].height \in Nat /\ blocks[c].height \in Nat
        BY <1>0, <2>1, HeightsType DEF References
      <4> QED BY <2>1, <3>1, <4>1, <4>2 DEF Path, Height
    <3> QED BY <2>2, <2>5, <3>1, <3>2, AppliedAdvances
  <2> QED BY <2>3, <2>4, <2>5
<1>7. ASSUME NEW n \in Node, Crash(n)
      PROVE  Interrupted(x) \/ Stays(x)
  <2>1. CASE x = n
    BY <1>0, <1>7, <2>1 DEF Crash, Interrupted, TypeOK
  <2>2. CASE x # n
    BY <1>0, <1>7, <2>2 DEF Crash, Stays, TypeOK
  <2> QED BY <2>1, <2>2
<1>8. \A n \in Restarting : n \in Node
  BY ConstantsAssumption
<1>9. ASSUME NEW n \in Node, NEW d \in Delegate, GenerateInVain(n, d)
      PROVE  Stays(x)
  BY <1>9 DEF GenerateInVain, ballot, Stays
<1> QED BY <1>1, <1>2, <1>3, <1>4, <1>5, <1>6, <1>7, <1>8, <1>9 DEF Next

-----------------------------------------------------------------------------
(* Votes of one height *)

\* While a node remembers voting, its last proposal is no higher than the block it
\* waits for, and not higher than the last one once the time is forgotten.
VoteInv ==
  \A n \in Node : voteAt[n] # Never =>
    /\ lastPropose[n] \in Ids
    /\ Height(lastPropose[n]) <= Height(lastBlock[n]) + 1
    /\ lastVoteTime[n] = voteAt[n] \/ Height(lastPropose[n]) <= Height(lastBlock[n])

\* At first no node has voted.
LEMMA InitVote == Init => VoteInv
  BY DEF Init, VoteInv

\* Every step keeps VoteInv.
LEMMA VoteStep ==
  ASSUME CInv, VoteInv, [Next]_vars
  PROVE  VoteInv'
<1>0. TypeOK /\ References /\ HeightsAboveGenesis
  BY DEF CInv, IInv
<1>1. Ids \subseteq Ids' /\ \A a \in Ids : blocks'[a] = blocks[a]
  BY <1>0, BlocksGrow
<1> SUFFICES ASSUME NEW n \in Node, voteAt'[n] # Never
             PROVE  /\ lastPropose'[n] \in Ids'
                    /\ blocks'[lastPropose'[n]].height <= blocks'[lastBlock'[n]].height + 1
                    /\ \/ lastVoteTime'[n] = voteAt'[n]
                       \/ blocks'[lastPropose'[n]].height <= blocks'[lastBlock'[n]].height
  BY DEF VoteInv, Height
<1>2. lastBlock[n] \in Ids /\ lastBlock'[n] \in Ids'
  <2>1. References'
    BY <1>0, ReferencesStep DEF CInv, IInv
  <2> QED BY <1>0, <2>1 DEF References
<1>3. blocks[lastBlock[n]].height \in Nat /\ blocks'[lastBlock'[n]].height \in Nat
  <2>1. TypeOK' /\ HeightsAboveGenesis'
    BY <1>0, TypeStep, HeightsStep
  <2> QED BY <1>0, <1>2, <2>1, HeightsType, HeightsTypeNext
<1>4. CASE voteAt'[n] = voteAt[n] /\ lastPropose'[n] = lastPropose[n]
  <2>1. /\ lastPropose[n] \in Ids
        /\ blocks[lastPropose[n]].height <= blocks[lastBlock[n]].height + 1
        /\ \/ lastVoteTime[n] = voteAt[n]
           \/ blocks[lastPropose[n]].height <= blocks[lastBlock[n]].height
    BY <1>4 DEF VoteInv, Height
  <2>2. /\ blocks[lastPropose[n]].height \in Nat
        /\ blocks'[lastPropose[n]] = blocks[lastPropose[n]] /\ lastPropose[n] \in Ids'
        /\ blocks'[lastBlock[n]] = blocks[lastBlock[n]]
    BY <1>0, <1>1, <1>2, <2>1, HeightsType
  <2>3. CASE Advances(n)
    BY <1>3, <1>4, <2>1, <2>2, <2>3 DEF Advances
  <2>4. CASE lastBlock'[n] = lastBlock[n] /\ lastVoteTime'[n] = lastVoteTime[n]
    BY <1>4, <2>1, <2>2, <2>4
  <2>5. ASSUME NEW m \in msgs, VoteOnPropose(n, m)
        PROVE  lastVoteTime'[n] = voteAt'[n] /\ lastBlock'[n] = lastBlock[n]
    BY <1>0, <2>5 DEF VoteOnPropose, TypeOK
  <2>6. CASE Stays(n)
    BY <1>4, <2>1, <2>2, <2>4, <2>5, <2>6 DEF Stays
  <2> QED BY <2>3, <2>6, NodeStep DEF Interrupted
<1>5. ASSUME NEW m \in msgs, VoteOnPropose(n, m)
      PROVE  /\ lastPropose'[n] \in Ids'
             /\ blocks'[lastPropose'[n]].height <= blocks'[lastBlock'[n]].height + 1
             /\ lastVoteTime'[n] = voteAt'[n]
  <2>1. /\ lastVoteTime'[n] = voteAt'[n] /\ lastPropose'[n] = m.id
        /\ lastBlock'[n] = lastBlock[n] /\ m.id \in Ids
        /\ blocks[m.id].height = blocks[lastBlock[n]].height + 1
    BY <1>0, <1>5 DEF VoteOnPropose, AcceptsPropose, TypeOK, Height, References
  <2> QED BY <1>1, <1>2, <1>3, <2>1
<1> QED BY <1>4, <1>5, NodeStep DEF Interrupted, Advances, Stays

\* The action property of a step.
LEMMA SpacedStep ==
  ASSUME CInv, VoteInv, [Next]_vars, NEW n \in Node,
         voteAt[n] # Never, lastPropose[n] # None, lastPropose'[n] # None,
         lastPropose[n] # lastPropose'[n],
         Height(lastPropose[n]) = Height(lastPropose'[n])
  PROVE  now - voteAt[n] >= VoteTicks
<1>0. TypeOK /\ References /\ HeightsAboveGenesis
  BY DEF CInv, IInv
<1>1. ~Advances(n)
  BY DEF Advances
<1>2. ~Interrupted(n)
  BY DEF Interrupted
<1>3. PICK m \in msgs : VoteOnPropose(n, m)
  BY <1>1, <1>2, NodeStep DEF Stays
<1>4. /\ lastPropose'[n] = m.id /\ ~VotedJustNow(n)
      /\ Height(m.id) = Height(lastBlock[n]) + 1
  BY <1>0, <1>3 DEF VoteOnPropose, AcceptsPropose, TypeOK
<1>5. Height(lastBlock[n]) \in Nat
  BY <1>0, HeightsType DEF References, Height
<1>6. lastVoteTime[n] = voteAt[n]
  BY <1>4, <1>5 DEF VoteInv
<1>7. now \in Nat /\ voteAt[n] \in Nat /\ VoteTicks \in Nat
  BY <1>0, ConstantsAssumption DEF TypeOK
<1> QED BY <1>4, <1>6, <1>7 DEF VotedJustNow

\* The invariant that VotesSpaced needs: onReceivePropose forgets the time of the last
\* vote only when the height voted for has been reached.
THEOREM VoteInvariance == Spec => [](CInv /\ VoteInv)
<1>1. Init => VoteInv
  BY InitVote
<1>2. CInv /\ VoteInv /\ [Next]_vars => VoteInv'
  BY VoteStep
<1> QED BY <1>1, <1>2, LinkInvariance, PTL DEF Spec

\* onReceivePropose: within an epoch of its node, a delegate votes for two different
\* blocks of a height only when lastVoteTime is VoteTicks old.
THEOREM Spacing == Spec => VotesSpaced
<1>1. CInv /\ VoteInv /\ [Next]_vars =>
        [\A n \in Node :
           LET a == lastPropose[n]
               b == lastPropose'[n]
           IN  /\ voteAt[n] # Never
               /\ None \notin {a, b} /\ a # b /\ Height(a) = Height(b)
               => now - voteAt[n] >= VoteTicks]_vars
  BY SpacedStep
<1> QED BY <1>1, VoteInvariance, PTL DEF Spec, VotesSpaced

-----------------------------------------------------------------------------
(* One block in a slot *)

\* No delegate's key is at two nodes.
KeysApart == \A n, m \in Node : n # m => Keypairs[n] \cap Keypairs[m] = {}

\* No block is of a slot to come, the pending blocks have been proposed, and a block
\* that a node has made public in this epoch on top of its last block is of the slot
\* of its pending block or of an earlier one.
ForgeInv ==
  /\ \A a \in Ids : blocks[a].slot <= CurrentSlot
  /\ Genesis \notin Published
  /\ \A n \in Node : pendingBlock[n] \in Published \cup {None}
  /\ \A n \in Node, a \in Published : blocks[a].gen \in Keypairs[n] =>
       /\ blocks[a].epoch <= epoch[n]
       /\ blocks[a].epoch = epoch[n] /\ Height(a) > Height(lastBlock[n]) =>
            /\ Height(a) = Height(lastBlock[n]) + 1
            /\ pendingBlock[n] \in Ids /\ blocks[a].slot <= blocks[pendingBlock[n]].slot

SInv == CInv /\ ForgeInv /\ OneBlockPerSlot

\* Multiplication by a natural number keeps the order.
LEMMA TimesGrows ==
  ASSUME NEW p \in Nat, NEW q \in Nat, NEW k \in Nat, p <= q
  PROVE  p * k <= q * k
<1>1. q - p \in Nat
  OBVIOUS
<1>2. (q - p) * k \in Nat
  BY <1>1
<1>3. (q - p) * k = q * k - p * k
  OBVIOUS
<1>4. p * k \in Nat /\ q * k \in Nat
  OBVIOUS
<1> QED BY <1>2, <1>3, <1>4

\* Division by a positive number keeps the order.
LEMMA DivGrows ==
  ASSUME NEW m \in Nat, NEW n \in Nat, NEW k \in Nat \ {0}, m <= n
  PROVE  m \div k \in Nat /\ n \div k \in Nat /\ m \div k <= n \div k
<1> DEFINE q == m \div k
           p == n \div k
<1>1. q \in Nat /\ q * k <= m
  OBVIOUS
<1>2. p \in Nat /\ n < (p + 1) * k
  OBVIOUS
<1> HIDE DEF p, q
<1>3. SUFFICES ASSUME p < q PROVE FALSE
  BY <1>1, <1>2 DEF p, q
<1>4. (p + 1) * k <= q * k
  BY <1>1, <1>2, <1>3, TimesGrows
<1>5. (p + 1) * k \in Nat /\ q * k \in Nat
  BY <1>1, <1>2
<1> QED BY <1>1, <1>2, <1>4, <1>5

\* The clock only goes on.
LEMMA SlotGrows ==
  ASSUME TypeOK, [Next]_vars
  PROVE  CurrentSlot \in Nat /\ CurrentSlot' \in Nat /\ CurrentSlot <= CurrentSlot'
<1>1. now \in Nat /\ SlotTicks \in Nat /\ SlotTicks > 0
  BY ConstantsAssumption DEF TypeOK
<1>2. now' \in Nat /\ now <= now'
  <2>1. now' = now \/ now' = now + 1
    <3>1. \A n \in Node, d \in Delegate :
            GenerateAndApply(n, d) \/ GenerateInVain(n, d) \/ GenerateAndPropose(n, d)
            => now' = now
      BY DEF GenerateAndApply, GenerateInVain, GenerateAndPropose
    <3>2. \A n \in Node, m \in msgs, ok \in BOOLEAN :
            ReceivePropose(n, m) \/ ReceiveVotes(n, m, ok) \/ ReceiveBlock(n, m, ok)
            => now' = now
      BY DEF ReceivePropose, VoteOnPropose, IgnorePropose, ReceiveVotes, ReceiveBlock
    <3>3. \A n, m \in Node : \A b \in chain[m] : Sync(n, m, b) => now' = now
      BY DEF Sync
    <3>4. \A n \in Restarting : Crash(n) => now' = now
      BY DEF Crash
    <3>5. Tick => now' = now + 1
      BY DEF Tick
    <3> QED BY <3>1, <3>2, <3>3, <3>4, <3>5 DEF Next, vars
  <2> QED BY <1>1, <2>1
<1>3. /\ now \div SlotTicks \in Nat /\ now' \div SlotTicks \in Nat
      /\ now \div SlotTicks <= now' \div SlotTicks
  <2>1. SlotTicks \in Nat \ {0}
    BY <1>1
  <2> QED BY <1>1, <1>2, <2>1, DivGrows
<1> QED BY <1>3 DEF CurrentSlot


\* At first no block has been forged.
LEMMA InitForge ==
  ASSUME Init PROVE ForgeInv /\ OneBlockPerSlot
<1>1. Ids = {1} /\ blocks[1].slot = 0
  BY DEF Init, Ids
<1>2. CurrentSlot \in Nat
  <2>1. now \in Nat
    BY ConstantsAssumption DEF Init
  <2> QED BY <2>1, SlotType
<1>3. Published = {} /\ \A n \in Node : pendingBlock[n] = None
  BY DEF Init, Published
<1> QED BY <1>1, <1>2, <1>3 DEF ForgeInv, OneBlockPerSlot

\* The fields of a block are natural numbers.
LEMMA BlockFields ==
  ASSUME TypeOK, NEW a \in Ids
  PROVE  /\ blocks[a].slot \in Nat /\ blocks[a].epoch \in Nat /\ blocks[a].height \in Nat
<1>1. blocks[a] \in BlockRecord
  BY DEF TypeOK, Ids
<1> QED BY <1>1 DEF BlockRecord

\* Only new blocks are made public: a block is broadcast by others, or once its votes
\* are enough, after it has been proposed or broadcast before.
LEMMA PublishedStep ==
  ASSUME SInv, [Next]_vars
  PROVE  /\ Published \subseteq Ids /\ Published \subseteq Published'
         /\ UNCHANGED blocks => Published' = Published
<1>0. TypeOK /\ References /\ BallotSound /\ HeightsAboveGenesis
  BY DEF SInv, CInv, IInv
<1>1. Published \subseteq Ids
  BY <1>0 DEF References, Published
<1>2. msgs \subseteq msgs'
  <2>1. UNCHANGED vars \/ Tick => msgs \subseteq msgs'
    BY DEF vars, Tick
  <2>2. ASSUME NEW n \in Node, NEW d \in Delegate,
               GenerateAndApply(n, d) \/ GenerateInVain(n, d) \/ GenerateAndPropose(n, d)
        PROVE  msgs \subseteq msgs'
    BY <2>2 DEF GenerateAndApply, GenerateInVain, GenerateAndPropose
  <2>3. ASSUME NEW n \in Node, NEW m \in msgs, NEW ok \in BOOLEAN,
               ReceivePropose(n, m) \/ ReceiveVotes(n, m, ok) \/ ReceiveBlock(n, m, ok)
        PROVE  msgs \subseteq msgs'
    BY <2>3 DEF ReceivePropose, VoteOnPropose, IgnorePropose, ReceiveVotes, ReceiveBlock
  <2>4. ASSUME NEW n \in Node, NEW m \in Node, NEW b \in chain[m], Sync(n, m, b)
        PROVE  msgs \subseteq msgs'
    BY <2>4 DEF Sync
  <2>5. ASSUME NEW n \in Restarting, Crash(n)
        PROVE  msgs \subseteq msgs'
    BY <2>5 DEF Crash
  <2> QED BY <2>1, <2>2, <2>3, <2>4, <2>5 DEF Next
<1>3. ASSUME UNCHANGED blocks, NEW e \in msgs'
      PROVE  e.id \in Published
  <2>1. CASE UNCHANGED vars \/ Tick
    BY <2>1 DEF vars, Tick, Published
  <2>2. ASSUME NEW n \in Node, NEW d \in Delegate,
               GenerateAndApply(n, d) \/ GenerateInVain(n, d) \/ GenerateAndPropose(n, d)
        PROVE  FALSE
    <3>1. MayForge(n, d) /\ blocks' = Append(blocks, NewBlock(n, d))
      BY <2>2 DEF GenerateAndApply, GenerateInVain, GenerateAndPropose
    <3>2. Ids' # Ids
      BY <3>1, NewBlockAppended DEF SInv
    <3> QED BY <1>3, <3>2 DEF Ids
  <2>3. ASSUME NEW n \in Node, NEW m \in msgs, ReceivePropose(n, m)
        PROVE  e.id \in Published
    BY <2>3 DEF ReceivePropose, VoteOnPropose, IgnorePropose, Published
  <2>4. ASSUME NEW n \in Node, NEW m \in msgs, NEW ok \in BOOLEAN, ReceiveBlock(n, m, ok)
        PROVE  e.id \in Published
    BY <2>4 DEF ReceiveBlock, BlockMessage, Published
  <2>5. ASSUME NEW n \in Node, NEW m \in msgs, NEW ok \in BOOLEAN, ReceiveVotes(n, m, ok)
        PROVE  e.id \in Published
    <3> DEFINE b == pendingBlock[n]
               v == VotesAfter(n, m.id, m.keys)
    <3>1. CASE UNCHANGED msgs
      BY <3>1 DEF Published
    <3>2. CASE /\ SetLastBlock(n, chain[n] \cup {b}, b)
               /\ msgs' = msgs \cup {BlockMessage(b, v)}
      <4>1. References' /\ lastBlock'[n] = b
        BY <1>0, <3>2, ReferencesStep DEF SetLastBlock, TypeOK
      <4>2. b # None
        BY <4>1 DEF References, Ids, None
      <4>3. b \in Published
        BY <4>2 DEF SInv, ForgeInv
      <4> HIDE DEF b, v
      <4> QED BY <3>2, <4>3 DEF BlockMessage, Published
    <3> QED BY <2>5, <3>1, <3>2 DEF ReceiveVotes
  <2>6. ASSUME NEW n \in Node, NEW m \in Node, NEW b \in chain[m], Sync(n, m, b)
        PROVE  e.id \in Published
    BY <2>6 DEF Sync, Published
  <2>7. ASSUME NEW n \in Restarting, Crash(n)
        PROVE  e.id \in Published
    BY <2>7 DEF Crash, Published
  <2> QED BY <2>1, <2>2, <2>3, <2>4, <2>5, <2>6, <2>7 DEF Next
<1> QED BY <1>1, <1>2, <1>3 DEF Published

\* A pending block has been proposed.
LEMMA PendingStep ==
  ASSUME SInv, [Next]_vars, NEW n \in Node
  PROVE  pendingBlock'[n] \in Published' \cup {None}
<1>0. TypeOK
  BY DEF SInv, CInv, IInv
<1>1. pendingBlock[n] \in Published' \cup {None}
  BY PublishedStep DEF SInv, ForgeInv
<1>2. CASE pendingBlock'[n] \in {pendingBlock[n], None}
  BY <1>1, <1>2
<1>3. ASSUME NEW x \in Node, NEW C, NEW b, SetLastBlock(x, C, b)
      PROVE  pendingBlock'[n] \in {pendingBlock[n], None}
  BY <1>0, <1>3 DEF SetLastBlock, TypeOK
<1>4. ASSUME NEW x \in Node, NEW d \in Delegate, GenerateAndPropose(x, d)
      PROVE  pendingBlock'[n] \in Published' \cup {None}
  <2> DEFINE b == Len(blocks) + 1
             p == [type |-> "propose", id |-> b, from |-> x]
  <2>1. pendingBlock' = [pendingBlock EXCEPT ![x] = b] /\ p \in msgs'
    BY <1>4 DEF GenerateAndPropose
  <2>2. b \in Published'
    BY <2>1 DEF Published
  <2> HIDE DEF b, p
  <2> QED BY <1>0, <1>1, <2>1, <2>2 DEF TypeOK
<1>5. CASE UNCHANGED pendingBlock
  BY <1>2, <1>5
<1>6. ASSUME NEW x \in Node, NEW d \in Delegate, GenerateAndApply(x, d) \/ GenerateInVain(x, d)
      PROVE  pendingBlock'[n] \in Published' \cup {None}
  BY <1>2, <1>3, <1>5, <1>6 DEF GenerateAndApply, GenerateInVain, ballot
<1>7. ASSUME NEW x \in Node, NEW m \in msgs, NEW ok \in BOOLEAN,
             ReceivePropose(x, m) \/ ReceiveVotes(x, m, ok) \/ ReceiveBlock(x, m, ok)
      PROVE  pendingBlock'[n] \in Published' \cup {None}
  <2>1. CASE ReceivePropose(x, m)
    BY <1>5, <2>1 DEF ReceivePropose, VoteOnPropose, IgnorePropose, ballot
  <2>2. CASE ReceiveVotes(x, m, ok)
    BY <1>2, <1>3, <1>5, <2>2 DEF ReceiveVotes
  <2>3. CASE ReceiveBlock(x, m, ok)
    BY <1>2, <1>3, <1>5, <2>3 DEF ReceiveBlock, ballot
  <2> QED BY <1>7, <2>1, <2>2, <2>3
<1>8. ASSUME NEW x \in Node, NEW m \in Node, NEW b \in chain[m], Sync(x, m, b)
      PROVE  pendingBlock'[n] \in Published' \cup {None}
  BY <1>2, <1>3, <1>5, <1>8 DEF Sync, ballot
<1>9. ASSUME NEW x \in Node, Crash(x)
      PROVE  pendingBlock'[n] \in Published' \cup {None}
  BY <1>0, <1>2, <1>9 DEF Crash, TypeOK
<1>10. CASE UNCHANGED vars \/ Tick
  BY <1>5, <1>10 DEF vars, Tick, ballot
<1>11. \A x \in Restarting : x \in Node
  BY ConstantsAssumption
<1> QED BY <1>4, <1>6, <1>7, <1>8, <1>9, <1>10, <1>11 DEF Next

\* What ForgeInv says of node n and the blocks made public before the step.
LEMMA OldBlocksStep ==
  ASSUME SInv, [Next]_vars, NEW n \in Node, NEW a \in Published,
         blocks[a].gen \in Keypairs[n]
  PROVE  /\ blocks'[a] = blocks[a]
         /\ blocks'[a].epoch <= epoch'[n]
         /\ blocks'[a].epoch = epoch'[n] /\ blocks'[a].height > blocks'[lastBlock'[n]].height =>
              /\ blocks'[a].height = blocks'[lastBlock'[n]].height + 1
              /\ pendingBlock'[n] \in Ids'
              /\ blocks'[a].slot <= blocks'[pendingBlock'[n]].slot
<1>0. TypeOK /\ References /\ HeightsAboveGenesis /\ CInv
  BY DEF SInv, CInv, IInv
<1>1. /\ Ids \subseteq Ids' /\ \A e \in Ids : blocks'[e] = blocks[e]
      /\ a \in Ids
  BY <1>0, BlocksGrow, PublishedStep
<1>2. /\ blocks[a].epoch <= epoch[n]
      /\ blocks[a].epoch = epoch[n] /\ blocks[a].height > blocks[lastBlock[n]].height =>
           /\ blocks[a].height = blocks[lastBlock[n]].height + 1
           /\ pendingBlock[n] \in Ids /\ blocks[a].slot <= blocks[pendingBlock[n]].slot
      /\ blocks[a].slot <= CurrentSlot
  BY <1>1 DEF SInv, ForgeInv, Height
<1>3. /\ lastBlock[n] \in Ids /\ lastBlock'[n] \in Ids'
      /\ blocks[a].epoch \in Nat /\ blocks[a].height \in Nat /\ epoch[n] \in Nat
      /\ blocks[lastBlock[n]].height \in Nat /\ blocks'[lastBlock'[n]].height \in Nat
  <2>1. TypeOK' /\ References' /\ HeightsAboveGenesis'
    BY <1>0, TypeStep, ReferencesStep, HeightsStep DEF CInv, IInv
  <2>2. lastBlock[n] \in Ids /\ lastBlock'[n] \in Ids' /\ epoch[n] \in Nat
    BY <1>0, <2>1 DEF References, TypeOK
  <2> QED BY <1>0, <1>1, <2>1, <2>2, BlockFields, HeightsTypeNext
<1>4. CASE Interrupted(n)
  BY <1>1, <1>2, <1>3, <1>4 DEF Interrupted
<1>5. CASE Advances(n)
  BY <1>1, <1>2, <1>3, <1>5 DEF Advances
<1>6. CASE epoch'[n] = epoch[n] /\ lastBlock'[n] = lastBlock[n] /\ pendingBlock'[n] = pendingBlock[n]
  BY <1>1, <1>2, <1>3, <1>6
<1>7. ASSUME NEW d \in Delegate, GenerateAndPropose(n, d)
      PROVE  /\ epoch'[n] = epoch[n] /\ lastBlock'[n] = lastBlock[n]
             /\ pendingBlock'[n] \in Ids' /\ blocks'[pendingBlock'[n]].slot = CurrentSlot
  <2> DEFINE b == Len(blocks) + 1
  <2>1. /\ MayForge(n, d) /\ blocks' = Append(blocks, NewBlock(n, d))
        /\ pendingBlock' = [pendingBlock EXCEPT ![n] = b]
        /\ UNCHANGED <<epoch, lastBlock>>
    BY <1>7 DEF GenerateAndPropose
  <2>2. b \in Ids' /\ blocks'[b] = NewBlock(n, d)
    BY <1>0, <2>1, NewBlockAppended
  <2>3. blocks'[b].slot = CurrentSlot
    BY <2>2 DEF NewBlock
  <2> HIDE DEF b
  <2> QED BY <1>0, <2>1, <2>2, <2>3 DEF TypeOK
<1>8. CASE \E d \in Delegate : GenerateAndPropose(n, d)
  BY <1>1, <1>2, <1>3, <1>7, <1>8
<1> QED BY <1>0, <1>4, <1>5, <1>6, <1>8, NodeStep DEF Stays

\* A new block is not of the slot of another of its height, node and epoch.
LEMMA NewBlockAlone ==
  ASSUME SInv, NEW n \in Node, NEW d \in Delegate, MayForge(n, d), ~HasPendingBlock(n),
         blocks' = Append(blocks, NewBlock(n, d)), NEW a \in Published,
         blocks[a].gen = d, blocks[a].epoch = epoch[n],
         blocks[a].height = Height(lastBlock[n]) + 1, blocks[a].slot = CurrentSlot
  PROVE  FALSE
<1>0. TypeOK /\ References
  BY DEF SInv, CInv, IInv
<1>1. d \in Keypairs[n]
  BY DEF MayForge
<1>2. Height(lastBlock[n]) \in Nat
  BY <1>0, BlockFields DEF References, Height
<1>3. /\ pendingBlock[n] \in Ids /\ blocks[a].slot <= blocks[pendingBlock[n]].slot
      /\ blocks[pendingBlock[n]].slot <= CurrentSlot
  BY <1>1, <1>2 DEF SInv, ForgeInv, Height
<1>4. pendingBlock[n] # None /\ CurrentSlot \in Nat /\ blocks[pendingBlock[n]].slot \in Nat
  BY <1>0, <1>3, BlockFields, SlotType DEF Ids, None, TypeOK
<1>5. blocks[pendingBlock[n]].slot # CurrentSlot
  BY <1>4 DEF HasPendingBlock
<1> QED BY <1>3, <1>4, <1>5


\* Every step keeps ForgeInv, and no second block of a slot is made public.
LEMMA ForgeStep ==
  ASSUME KeysApart, SInv, [Next]_vars
  PROVE  ForgeInv' /\ OneBlockPerSlot'
<1>0. TypeOK /\ References /\ HeightsAboveGenesis /\ CInv /\ Genesis \notin Published
  BY DEF SInv, CInv, IInv, ForgeInv
<1>1. /\ Ids \subseteq Ids' /\ \A a \in Ids : blocks'[a] = blocks[a]
      /\ Published \subseteq Ids
  BY <1>0, BlocksGrow, PublishedStep
<1>2. \A a \in Ids : blocks'[a].slot <= CurrentSlot'
  <2>1. \A a \in Ids : blocks[a].slot <= CurrentSlot /\ blocks[a].slot \in Nat
    BY <1>0, BlockFields DEF SInv, ForgeInv
  <2> QED BY <1>0, <1>1, <2>1, SlotGrows
<1>3. \A n \in Node : pendingBlock'[n] \in Published' \cup {None}
  BY PendingStep
<1>4. \A n \in Node, a \in Published : blocks'[a].gen \in Keypairs[n] =>
        /\ blocks'[a].epoch <= epoch'[n]
        /\ blocks'[a].epoch = epoch'[n] /\ blocks'[a].height > blocks'[lastBlock'[n]].height =>
             /\ blocks'[a].height = blocks'[lastBlock'[n]].height + 1
             /\ pendingBlock'[n] \in Ids'
             /\ blocks'[a].slot <= blocks'[pendingBlock'[n]].slot
  BY <1>1, OldBlocksStep
<1>5. \A a, e \in Published :
        (/\ blocks'[a].gen = blocks'[e].gen /\ blocks'[a].epoch = blocks'[e].epoch
         /\ blocks'[a].height = blocks'[e].height /\ blocks'[a].slot = blocks'[e].slot)
        => a = e
  BY <1>1 DEF SInv, OneBlockPerSlot, Height
<1>6. CASE UNCHANGED blocks
  <2>1. Ids' = Ids /\ Published' = Published
    BY <1>6, PublishedStep DEF Ids
  <2> QED BY <1>0, <1>2, <1>3, <1>4, <1>5, <2>1 DEF ForgeInv, OneBlockPerSlot, Height
<1>7. ASSUME NEW n \in Node, NEW d \in Delegate,
             GenerateAndApply(n, d) \/ GenerateAndPropose(n, d)
      PROVE  ForgeInv' /\ OneBlockPerSlot'
  <2> DEFINE b == Len(blocks) + 1
  <2>1. /\ MayForge(n, d) /\ ~HasPendingBlock(n) /\ blocks' = Append(blocks, NewBlock(n, d))
        /\ epoch' = epoch
    BY <1>7 DEF GenerateAndApply, GenerateAndPropose
  <2>2. /\ b \in Ids' /\ b \notin Ids /\ Ids' = Ids \cup {b}
        /\ blocks'[b] = NewBlock(n, d)
        /\ lastBlock[n] \in Ids /\ b # Genesis
    <3>1. b # Genesis
      BY <1>0 DEF References, TypeOK, Genesis
    <3> QED BY <1>0, <2>1, <3>1, NewBlockAppended
  <2>3. /\ blocks'[b].gen = d /\ blocks'[b].epoch = epoch[n] /\ blocks'[b].slot = CurrentSlot
        /\ blocks'[b].height = Height(lastBlock[n]) + 1 /\ d \in Keypairs[n]
    BY <2>1, <2>2 DEF NewBlock, MayForge
  <2>4. \/ lastBlock'[n] = b
        \/ lastBlock'[n] = lastBlock[n] /\ pendingBlock'[n] = b
    BY <1>0, <1>7 DEF GenerateAndApply, GenerateAndPropose, SetLastBlock, TypeOK
  <2>5. Published' = Published \cup {b}
    <3>1. \E e : e.id = b /\ msgs' = msgs \cup {e}
      BY <1>7 DEF GenerateAndApply, GenerateAndPropose, BlockMessage
    <3> QED BY <3>1 DEF Published
  <2> HIDE DEF b
  <2>6. epoch[n] \in Nat /\ CurrentSlot \in Nat /\ Height(lastBlock[n]) \in Nat
    BY <1>0, <2>2, BlockFields, SlotType DEF TypeOK, Height
  <2>7. \A x \in Node : d \in Keypairs[x] => x = n
    BY <2>3 DEF KeysApart
  <2>8. /\ blocks'[b].epoch <= epoch'[n]
        /\ blocks'[b].height > blocks'[lastBlock'[n]].height =>
             /\ blocks'[b].height = blocks'[lastBlock'[n]].height + 1
             /\ pendingBlock'[n] = b
    <3>1. blocks'[b].epoch <= epoch'[n]
      BY <2>1, <2>3, <2>6
    <3>2. CASE lastBlock'[n] = b
      BY <2>3, <2>6, <3>1, <3>2
    <3>3. CASE lastBlock'[n] = lastBlock[n] /\ pendingBlock'[n] = b
      BY <1>1, <2>2, <2>3, <3>1, <3>3 DEF Height
    <3> QED BY <2>4, <3>2, <3>3
  <2>9. blocks'[b].slot <= CurrentSlot' /\ blocks'[b].slot \in Nat
    BY <1>0, <2>3, SlotGrows
  <2>10. ForgeInv'
    <3>1. \A a \in Ids' : blocks'[a].slot <= CurrentSlot'
      BY <1>2, <2>2, <2>9
    <3>2. ASSUME NEW x \in Node, NEW a \in Published', blocks'[a].gen \in Keypairs[x]
          PROVE  /\ blocks'[a].epoch <= epoch'[x]
                 /\ blocks'[a].epoch = epoch'[x]
                    /\ blocks'[a].height > blocks'[lastBlock'[x]].height =>
                      /\ blocks'[a].height = blocks'[lastBlock'[x]].height + 1
                      /\ pendingBlock'[x] \in Ids'
                      /\ blocks'[a].slot <= blocks'[pendingBlock'[x]].slot
      <4>1. CASE a \in Published
        BY <1>4, <3>2, <4>1
      <4>2. CASE a = b
        <5>1. x = n
          BY <2>3, <2>7, <3>2, <4>2
        <5> QED BY <2>2, <2>8, <2>9, <4>2, <5>1
      <4> QED BY <2>5, <4>1, <4>2
    <3>3. Genesis \notin Published'
      BY <1>0, <2>2, <2>5 DEF Genesis
    <3> QED BY <1>3, <3>1, <3>2, <3>3 DEF ForgeInv, Height, Genesis
  <2>11. \A a \in Published :
           ~(/\ blocks'[a].gen = blocks'[b].gen /\ blocks'[a].epoch = blocks'[b].epoch
             /\ blocks'[a].height = blocks'[b].height /\ blocks'[a].slot = blocks'[b].slot)
    BY <1>1, <2>1, <2>3, NewBlockAlone
  <2>12. OneBlockPerSlot'
    BY <1>5, <2>5, <2>11 DEF OneBlockPerSlot, Height
  <2> QED BY <2>10, <2>12
<1>8. ASSUME NEW n \in Node, NEW d \in Delegate, GenerateInVain(n, d)
      PROVE  ForgeInv' /\ OneBlockPerSlot'
  <2> DEFINE b == Len(blocks) + 1
  <2>1. /\ MayForge(n, d) /\ blocks' = Append(blocks, NewBlock(n, d))
        /\ Published' = Published
    BY <1>8 DEF GenerateInVain, Published
  <2>2. /\ Ids' = Ids \cup {b} /\ blocks'[b].slot = CurrentSlot
    BY <1>0, <2>1, NewBlockAppended DEF NewBlock
  <2> HIDE DEF b
  <2>3. \A a \in Ids' : blocks'[a].slot <= CurrentSlot'
    BY <1>0, <1>2, <2>2, SlotGrows
  <2> QED BY <1>0, <1>3, <1>4, <1>5, <2>1, <2>3 DEF ForgeInv, OneBlockPerSlot, Height, Genesis
<1>9. CASE \E n \in Node, d \in Delegate :
             GenerateAndApply(n, d) \/ GenerateInVain(n, d) \/ GenerateAndPropose(n, d)
  BY <1>7, <1>8, <1>9
<1>10. UNCHANGED vars \/ Tick => UNCHANGED blocks
  BY DEF vars, Tick
<1>11. ASSUME NEW n \in Node, NEW m \in msgs, NEW ok \in BOOLEAN,
              ReceivePropose(n, m) \/ ReceiveVotes(n, m, ok) \/ ReceiveBlock(n, m, ok)
       PROVE  UNCHANGED blocks
  BY <1>11 DEF ReceivePropose, VoteOnPropose, IgnorePropose, ReceiveVotes, ReceiveBlock
<1>12. ASSUME NEW n \in Node, NEW m \in Node, NEW b \in chain[m], Sync(n, m, b)
       PROVE  UNCHANGED blocks
  BY <1>12 DEF Sync
<1>13. ASSUME NEW n \in Restarting, Crash(n)
       PROVE  UNCHANGED blocks
  BY <1>13 DEF Crash
<1> QED BY <1>6, <1>9, <1>10, <1>11, <1>12, <1>13 DEF Next

\* delegates.loop and generateBlock: if no key is at two nodes, a delegate makes
\* public one block at most for a slot and a height in an epoch of its node.
THEOREM SingleBlocks == KeysApart => (Spec => []OneBlockPerSlot)
<1> SUFFICES ASSUME KeysApart PROVE Spec => []OneBlockPerSlot
  OBVIOUS
<1>1. Init => ForgeInv /\ OneBlockPerSlot
  BY InitForge
<1>2. CInv /\ ForgeInv /\ OneBlockPerSlot /\ [Next]_vars => ForgeInv' /\ OneBlockPerSlot'
  BY ForgeStep DEF SInv
<1> QED BY <1>1, <1>2, LinkInvariance, PTL DEF Spec

=============================================================================
