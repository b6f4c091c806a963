------------------------------ MODULE Consensus ------------------------------
(***************************************************************************)
(* The block agreement of an acchain network: in every slot the scheduled  *)
(* delegate forges a block and proposes its header, the nodes that receive *)
(* the proposal send back the votes of the delegates they forge for, the   *)
(* proposer collects them and, with more than 2/3 of the delegates,        *)
(* applies the block and broadcasts it with a few of the votes; a node     *)
(* that is behind downloads blocks from a peer without any vote.           *)
(* Code: src/src/core/blocks.js, src/src/base/consensus.js,                *)
(* src/src/core/delegates.js (loop), src/src/core/loader.js.               *)
(*                                                                         *)
(* A handler runs as one task of library.sequence, which runs one task at  *)
(* a time, so a handler is one action.  A task queued and not yet run is a *)
(* message not yet delivered.  The network is a set of messages that only  *)
(* grows: a message may be delivered late, twice, in any order, or never.  *)
(* Hashes and signatures are perfect: the id of a block is its index in    *)
(* the sequence of all blocks ever forged, and a signature by key k on     *)
(* block b exists iff a node holding k has put it in `signed'.             *)
(***************************************************************************)
EXTENDS Integers, Sequences, FiniteSets, SequencesExt

CONSTANTS
  Node,         \* the nodes, each the process of one app.js
  Delegate,     \* the public keys of the active delegates (101 in the code)
  Keypairs,     \* Keypairs[n]: the delegates n forges for (private.keypairs)
  DelegateAt,   \* DelegateAt[i]: the i-th key of the shuffled delegate list
  PublicIp,     \* the nodes with config.publicIp: the others never propose
  Restarting,   \* the nodes that may be restarted
  RemoteQuorum, \* votes a broadcast block must carry (6 in consensus.js)
  VotesSent,    \* votes a broadcast block is cut to (6 in blocks.js)
  SlotTicks,    \* length of a slot (10 s) in ticks of the clock
  ForgeTicks,   \* no forging later than this in a slot (5 s when the task is
                \* queued; SlotTicks - 1 lets it wait in the queue)
  VoteTicks,    \* no vote on a proposal sooner than this after a vote (5 s)
  MaxFork,      \* a fork of this many blocks is not followed (5)
  MaxTick,      \* bound: the clock stops here
  MaxHeight,    \* bound: no block is forged above this height
  MaxEpoch,     \* bound: how often a node restarts or pops blocks
  MaxFailed     \* bound: how many forged blocks never leave their node

NumDelegates == Cardinality(Delegate)

ASSUME ConstantsAssumption ==
  /\ IsFiniteSet(Delegate) /\ Delegate # {}
  /\ Keypairs \in [Node -> SUBSET Delegate]
  /\ DelegateAt \in [0 .. NumDelegates - 1 -> Delegate]
  /\ PublicIp \subseteq Node /\ Restarting \subseteq Node
  /\ {RemoteQuorum, VotesSent, SlotTicks, VoteTicks} \subseteq Nat \ {0}
  /\ {ForgeTicks, MaxFork, MaxTick, MaxHeight, MaxEpoch, MaxFailed} \subseteq Nat
  /\ 3 * (RemoteQuorum - 1) <= 2 * NumDelegates

VARIABLES
  now,          \* the synchronised clock of all nodes, in ticks
  blocks,       \* every block forged so far; its id is its index, genesis is 1
  msgs,         \* every message sent
  signed,       \* history: every vote signature made, <<key, id>>
  chain,        \* chain[n]: the ids in n's blocks table
  lastBlock,    \* private.lastBlock
  pendingBlock, \* consensus.pendingBlock, None if null
  pendingVotes, \* consensus.pendingVotes.signatures, in arrival order
  votesKeySet,  \* consensus.votesKeySet
  lastPropose,  \* private.lastPropose (its block), None if undefined
  lastVoteTime, \* private.lastVoteTime, Never if null
  proposeCache, \* private.proposeCache: proposals already seen
  blockCache,   \* private.blockCache: blocks already seen
  voteAt,       \* history: when n last voted for a proposal in this epoch
  epoch         \* history: how often n has restarted or popped blocks

ballot == <<pendingBlock, pendingVotes, votesKeySet>>
caches == <<proposeCache, blockCache>>
vars == <<now, blocks, msgs, signed, chain, lastBlock, ballot, lastPropose,
          lastVoteTime, caches, voteAt, epoch>>

Genesis == 1
None == 0
Never == -1
Ids == 1 .. Len(blocks)

\* The blocks that have left the node that forged them.
Published == {m.id : m \in msgs}

\* A block, with the epoch of the forging node as history.
BlockRecord == [height : Nat, prev : Nat, slot : Nat, gen : Delegate,
                epoch : Nat]
Message == [type : {"propose"}, id : Nat, from : Node]
             \cup [type : {"votes"}, id : Nat, keys : SUBSET Delegate, to : Node]
             \cup [type : {"block"}, id : Nat, sigs : Seq(Delegate)]

Height(b) == blocks[b].height
CurrentSlot == now \div SlotTicks
Leader(slot) == DelegateAt[slot % NumDelegates]
Least(a, b) == IF a < b THEN a ELSE b

-----------------------------------------------------------------------------
(* Votes *)

\* consensus.verifyVote: the signature of key k on block b is genuine.
Genuine(k, b) == <<k, b>> \in signed

\* Mutation: a third of the delegates is taken for two thirds.
HasEnoughVotesThird(sigs) == 3 * Len(sigs) > NumDelegates
HasEnoughVotes(sigs) == 3 * Len(sigs) > 2 * NumDelegates
HasEnoughVotesRemote(sigs) == Len(sigs) >= RemoteQuorum

\* createVotes: n signs b with each of its keys.
Signatures(n, b) == Keypairs[n] \X {b}

\* Mutation: votes for another block than the pending one are added.
FreshVotesAnyBlock(n, b, ks) ==
  {k \in ks \ votesKeySet[n] : pendingBlock[n] # None /\ Genuine(k, b)}

\* addPendingVotes, on the votes of the keys ks for b: if b is the pending block,
\* the genuine ones of keys not seen yet are appended.
FreshVotes(n, b, ks) ==
  IF b = pendingBlock[n] THEN {k \in ks \ votesKeySet[n] : Genuine(k, b)} ELSE {}
VotesAfter(n, b, ks) == pendingVotes[n] \o SetToSeq(FreshVotes(n, b, ks))

-----------------------------------------------------------------------------
(* Applying a block *)

\* verifyBlock and validateBlockSlot, without the votes: the block extends the
\* last block, in a later slot that is not beyond the next one, by its leader.
Extends(n, b) ==
  /\ blocks[b].prev = lastBlock[n]
  /\ blocks[b].slot <= CurrentSlot + 1
  /\ blocks[b].slot > blocks[lastBlock[n]].slot
  /\ blocks[b].gen = Leader(blocks[b].slot)
  /\ b \notin chain[n]

\* verifyBlock and verifyBlockVotes on the votes that come with a block.
VerifyVotes(b, sigs) ==
  /\ HasEnoughVotesRemote(sigs)
  /\ \A k \in ToSet(sigs) : Genuine(k, b)

\* The success branch of applyBlock: the table and the last block become c and
\* b, and all that was remembered for the height just decided is cleared.
SetLastBlock(n, c, b) ==
  /\ chain' = [chain EXCEPT ![n] = c]
  /\ lastBlock' = [lastBlock EXCEPT ![n] = b]
  /\ pendingBlock' = [pendingBlock EXCEPT ![n] = None]
  /\ pendingVotes' = [pendingVotes EXCEPT ![n] = <<>>]
  /\ votesKeySet' = [votesKeySet EXCEPT ![n] = {}]
  /\ lastVoteTime' = [lastVoteTime EXCEPT ![n] = Never]
  /\ proposeCache' = [proposeCache EXCEPT ![n] = {}]
  /\ blockCache' = [blockCache EXCEPT ![n] = {}]

\* Mutation: the votes are left out of the message.
BlockMessageBare(b, sigs) == [type |-> "block", id |-> b]

BlockMessage(b, sigs) ==
  [type |-> "block", id |-> b,
   sigs |-> SubSeq(sigs, 1, Least(VotesSent, Len(sigs)))]

-----------------------------------------------------------------------------
Init ==
  /\ now = SlotTicks
  /\ blocks = <<[height |-> 1, prev |-> None, slot |-> 0, gen |-> Leader(0),
                 epoch |-> 0]>>
  /\ msgs = {}
  /\ signed = {}
  /\ chain = [n \in Node |-> {Genesis}]
  /\ lastBlock = [n \in Node |-> Genesis]
  /\ pendingBlock = [n \in Node |-> None]
  /\ pendingVotes = [n \in Node |-> <<>>]
  /\ votesKeySet = [n \in Node |-> {}]
  /\ lastPropose = [n \in Node |-> None]
  /\ lastVoteTime = [n \in Node |-> Never]
  /\ proposeCache = [n \in Node |-> {}]
  /\ blockCache = [n \in Node |-> {}]
  /\ voteAt = [n \in Node |-> Never]
  /\ epoch = [n \in Node |-> 0]

Tick ==
  /\ now < MaxTick
  /\ now' = now + 1
  /\ UNCHANGED <<blocks, msgs, signed, chain, lastBlock, ballot, lastPropose,
                 lastVoteTime, caches, voteAt, epoch>>

\* delegates.loop: n may forge now, in the slot of its delegate d.
MayForge(n, d) ==
  /\ d \in Keypairs[n]
  /\ d = Leader(CurrentSlot)
  /\ now % SlotTicks <= ForgeTicks
  /\ blocks[lastBlock[n]].slot < CurrentSlot
  /\ Height(lastBlock[n]) < MaxHeight

\* Mutation: the slot of a pending block is not looked at.
HasPendingBlockNever(n) == FALSE

\* consensus.hasPendingBlock: a block of this slot is already waiting for votes.
HasPendingBlock(n) ==
  /\ pendingBlock[n] # None
  /\ blocks[pendingBlock[n]].slot = CurrentSlot

NewBlock(n, d) ==
  [height |-> Height(lastBlock[n]) + 1, prev |-> lastBlock[n],
   slot |-> CurrentSlot, gen |-> d, epoch |-> epoch[n]]

\* generateBlock when the delegates of n alone are enough: the block is applied
\* and broadcast at once.
GenerateAndApply(n, d) ==
  LET b == Len(blocks) + 1
      votes == SetToSeq(Keypairs[n])
  IN  /\ MayForge(n, d)
      /\ ~HasPendingBlock(n)
      /\ HasEnoughVotes(votes) /\ HasEnoughVotesRemote(votes)
      /\ blocks' = Append(blocks, NewBlock(n, d))
      /\ signed' = signed \cup Signatures(n, b)
      /\ msgs' = msgs \cup {BlockMessage(b, votes)}
      /\ SetLastBlock(n, chain[n] \cup {b}, b)
      /\ UNCHANGED <<now, lastPropose, voteAt, epoch>>

\* generateBlock when the block never leaves n: processBlock refuses it, or
\* applyBlock fails and says so to nobody, or there is no public address to
\* propose it from.  The last block stays, no block waits for votes, and loop may
\* forge again in the same slot.
GenerateInVain(n, d) ==
  /\ MayForge(n, d)
  /\ ~HasPendingBlock(n)
  /\ HasEnoughVotes(SetToSeq(Keypairs[n])) \/ n \notin PublicIp
  /\ Cardinality(Ids \ (Published \cup {Genesis})) < MaxFailed
  /\ blocks' = Append(blocks, NewBlock(n, d))
  /\ signed' = signed \cup Signatures(n, Len(blocks) + 1)
  /\ UNCHANGED <<now, msgs, chain, lastBlock, ballot, lastPropose, lastVoteTime,
                 caches, voteAt, epoch>>

\* generateBlock otherwise: the block waits for votes, beginning with those of
\* n's own delegates, and its header is proposed.
GenerateAndPropose(n, d) ==
  LET b == Len(blocks) + 1
      votes == SetToSeq(Keypairs[n])
      p == [type |-> "propose", id |-> b, from |-> n]
  IN  /\ MayForge(n, d)
      /\ ~HasPendingBlock(n)
      /\ ~HasEnoughVotes(votes)
      /\ n \in PublicIp
      /\ blocks' = Append(blocks, NewBlock(n, d))
      /\ signed' = signed \cup Signatures(n, b)
      /\ pendingBlock' = [pendingBlock EXCEPT ![n] = b]
      /\ pendingVotes' = [pendingVotes EXCEPT ![n] = votes]
      /\ votesKeySet' = [votesKeySet EXCEPT ![n] = Keypairs[n]]
      /\ proposeCache' = [proposeCache EXCEPT ![n] = @ \cup {b}]
      /\ msgs' = msgs \cup {p}
      /\ UNCHANGED <<now, chain, lastBlock, lastPropose, lastVoteTime,
                     blockCache, voteAt, epoch>>

-----------------------------------------------------------------------------
(* Receiving a proposal *)

\* Mutation: any other proposal of the height is a conflict.
ConflictsWithAnyPropose(n, b) ==
  /\ lastPropose[n] # None
  /\ Height(lastPropose[n]) = Height(b)
  /\ lastPropose[n] # b

\* A different block of the same height by the generator voted for last.
ConflictsWithLastPropose(n, b) ==
  /\ lastPropose[n] # None
  /\ Height(lastPropose[n]) = Height(b)
  /\ blocks[lastPropose[n]].gen = blocks[b].gen
  /\ lastPropose[n] # b

\* Mutation: the interval is a tick too short.
VotedThisTick(n) ==
  lastVoteTime[n] # Never /\ now - lastVoteTime[n] < VoteTicks - 1

VotedJustNow(n) ==
  lastVoteTime[n] # Never /\ now - lastVoteTime[n] < VoteTicks

AcceptsPropose(n, b) ==
  /\ ~ConflictsWithLastPropose(n, b)
  /\ Height(b) = Height(lastBlock[n]) + 1
  /\ ~VotedJustNow(n)
  /\ blocks[b].gen = Leader(blocks[b].slot)
  /\ Keypairs[n] # {}

\* onReceivePropose with a vote: the header is relayed (it is in msgs already),
\* and the votes go to the proposer.
VoteOnPropose(n, p) ==
  /\ p.id \notin proposeCache[n]
  /\ AcceptsPropose(n, p.id)
  /\ proposeCache' = [proposeCache EXCEPT ![n] = @ \cup {p.id}]
  /\ signed' = signed \cup Signatures(n, p.id)
  /\ msgs' = msgs \cup {[type |-> "votes", id |-> p.id, keys |-> Keypairs[n],
                         to |-> p.from]}
  /\ lastVoteTime' = [lastVoteTime EXCEPT ![n] = now]
  /\ lastPropose' = [lastPropose EXCEPT ![n] = p.id]
  /\ voteAt' = [voteAt EXCEPT ![n] = now]
  /\ UNCHANGED <<now, blocks, chain, lastBlock, ballot, blockCache, epoch>>

\* onReceivePropose without a vote: the proposal is remembered as seen all the
\* same, so it is not looked at again before the next block is applied.
IgnorePropose(n, p) ==
  /\ p.id \notin proposeCache[n]
  /\ ~AcceptsPropose(n, p.id)
  /\ proposeCache' = [proposeCache EXCEPT ![n] = @ \cup {p.id}]
  /\ UNCHANGED <<now, blocks, msgs, signed, chain, lastBlock, ballot,
                 lastPropose, lastVoteTime, blockCache, voteAt, epoch>>

ReceivePropose(n, p) ==
  p.type = "propose" /\ (VoteOnPropose(n, p) \/ IgnorePropose(n, p))

-----------------------------------------------------------------------------
(* Receiving votes and blocks *)

\* onReceiveVotes: the votes are added, and when they are enough (also when the
\* message brought none of them) the pending block is processed and, when applyBlock
\* succeeds (ok), broadcast.  When it fails the block goes on waiting for votes.
ReceiveVotes(n, m, ok) ==
  LET b == pendingBlock[n]
      votes == VotesAfter(n, m.id, m.keys)
      applies == /\ ok /\ HasEnoughVotes(votes)
                 /\ Extends(n, b) /\ VerifyVotes(b, votes)
  IN  /\ m.type = "votes" /\ m.to = n
      /\ \/ /\ applies
            /\ SetLastBlock(n, chain[n] \cup {b}, b)
            /\ msgs' = msgs \cup {BlockMessage(b, votes)}
         \/ /\ ~applies
            /\ pendingVotes' = [pendingVotes EXCEPT ![n] = votes]
            /\ votesKeySet' = [votesKeySet EXCEPT ![n] =
                                 @ \cup FreshVotes(n, m.id, m.keys)]
            /\ UNCHANGED <<msgs, chain, lastBlock, pendingBlock, lastVoteTime,
                           caches>>
      /\ UNCHANGED <<now, blocks, signed, lastPropose, voteAt, epoch>>

\* onReceiveBlock: a block on top of the last one, with its votes, is applied
\* and relayed if applyBlock succeeds (ok); any other is only remembered as seen (a fork is recorded in a
\* statistics table, a gap starts a synchronisation, which is Sync).
ReceiveBlock(n, m, ok) ==
  LET applies == ok /\ Extends(n, m.id) /\ VerifyVotes(m.id, m.sigs)
  IN  /\ m.type = "block"
      /\ m.id \notin blockCache[n]
      /\ \/ /\ applies
            /\ SetLastBlock(n, chain[n] \cup {m.id}, m.id)
            /\ msgs' = msgs \cup {BlockMessage(m.id, m.sigs)}
         \/ /\ ~applies
            /\ blockCache' = [blockCache EXCEPT ![n] = @ \cup {m.id}]
            /\ UNCHANGED <<msgs, chain, lastBlock, ballot, lastVoteTime,
                           proposeCache>>
      /\ UNCHANGED <<now, blocks, signed, lastPropose, voteAt, epoch>>

-----------------------------------------------------------------------------
(* Synchronisation and restart *)

\* getCommonBlock: the last block both nodes have.
IsCommonBlock(n, m, c) ==
  /\ c \in chain[n] \cap chain[m]
  /\ \A b \in chain[n] \cap chain[m] : Height(b) <= Height(c)

\* Mutation: the rollback stops a block too early.
UpToNext(n, c) == {a \in chain[n] : Height(a) <= Height(c) + 1}

UpTo(n, c) == {a \in chain[n] : Height(a) <= Height(c)}
Between(m, c, b) == {a \in chain[m] : Height(c) < Height(a) /\ Height(a) <= Height(b)}

\* loadBlocks, findUpdate and loadBlocksFromPeer: n finds a peer m with a higher
\* last block, pops its own blocks down to the common one, which leaves the
\* ballot and the caches as they are, and applies m's blocks, without votes, up
\* to b: the last one or, when a download or a check fails, an earlier one.
Sync(n, m, b) ==
  /\ Height(lastBlock[m]) > Height(lastBlock[n])
  /\ \E c \in chain[n] :
        /\ IsCommonBlock(n, m, c)
        /\ Height(lastBlock[n]) - Height(c) < MaxFork
        /\ b \in chain[m] /\ Height(b) >= Height(c)
        /\ \A a \in Between(m, c, b) : blocks[a].slot <= CurrentSlot + 1
        /\ c # lastBlock[n] => epoch[n] < MaxEpoch
        /\ IF c = lastBlock[n]
           THEN UNCHANGED <<voteAt, epoch>>
           ELSE /\ voteAt' = [voteAt EXCEPT ![n] = Never]
                /\ epoch' = [epoch EXCEPT ![n] = @ + 1]
        /\ \/ /\ b # c
              /\ SetLastBlock(n, UpTo(n, c) \cup Between(m, c, b), b)
           \/ /\ b = c /\ c # lastBlock[n]
              /\ chain' = [chain EXCEPT ![n] = UpTo(n, c)]
              /\ lastBlock' = [lastBlock EXCEPT ![n] = c]
              /\ UNCHANGED <<ballot, lastVoteTime, caches>>
  /\ UNCHANGED <<now, blocks, msgs, signed, lastPropose>>

\* A restart keeps the database only.
Crash(n) ==
  /\ epoch[n] < MaxEpoch
  /\ voteAt' = [voteAt EXCEPT ![n] = Never]
  /\ epoch' = [epoch EXCEPT ![n] = @ + 1]
  /\ pendingBlock' = [pendingBlock EXCEPT ![n] = None]
  /\ pendingVotes' = [pendingVotes EXCEPT ![n] = <<>>]
  /\ votesKeySet' = [votesKeySet EXCEPT ![n] = {}]
  /\ lastPropose' = [lastPropose EXCEPT ![n] = None]
  /\ lastVoteTime' = [lastVoteTime EXCEPT ![n] = Never]
  /\ proposeCache' = [proposeCache EXCEPT ![n] = {}]
  /\ blockCache' = [blockCache EXCEPT ![n] = {}]
  /\ UNCHANGED <<now, blocks, msgs, signed, chain, lastBlock>>

-----------------------------------------------------------------------------
Next ==
  \/ Tick
  \/ \E n \in Node, d \in Delegate :
        GenerateAndApply(n, d) \/ GenerateInVain(n, d) \/ GenerateAndPropose(n, d)
  \/ \E n \in Node, m \in msgs, ok \in BOOLEAN :
        ReceivePropose(n, m) \/ ReceiveVotes(n, m, ok) \/ ReceiveBlock(n, m, ok)
  \/ \E n, m \in Node : \E b \in chain[m] : Sync(n, m, b)
  \/ \E n \in Restarting : Crash(n)

Spec == Init /\ [][Next]_vars

-----------------------------------------------------------------------------
(* Properties *)

TypeOK ==
  /\ now \in Nat
  /\ blocks \in Seq(BlockRecord)
  /\ msgs \subseteq Message
  /\ signed \subseteq Delegate \X Nat
  /\ chain \in [Node -> SUBSET Nat]
  /\ lastBlock \in [Node -> Nat]
  /\ pendingBlock \in [Node -> Nat]
  /\ pendingVotes \in [Node -> Seq(Delegate)]
  /\ votesKeySet \in [Node -> SUBSET Delegate]
  /\ lastPropose \in [Node -> Nat]
  /\ lastVoteTime \in [Node -> Nat \cup {Never}]
  /\ proposeCache \in [Node -> SUBSET Nat]
  /\ blockCache \in [Node -> SUBSET Nat]
  /\ voteAt \in [Node -> Nat \cup {Never}]
  /\ epoch \in [Node -> Nat]

Signers(b) == {k \in Delegate : Genuine(k, b)}

\* The votes a proposer has collected are genuine votes for the block it waits
\* for now, never votes left over from an earlier one, and no delegate is
\* counted twice, however often and in whatever order the votes arrive
\* (setPendingBlock, clearState and addPendingVotes in base/consensus.js).
BallotSound ==
  \A n \in Node :
    /\ \A i, j \in DOMAIN pendingVotes[n] :
          pendingVotes[n][i] = pendingVotes[n][j] => i = j
    /\ \A i \in DOMAIN pendingVotes[n] :
          /\ Genuine(pendingVotes[n][i], pendingBlock[n])
          /\ pendingVotes[n][i] \in votesKeySet[n]
    /\ pendingBlock[n] = None => pendingVotes[n] = <<>>

\* Every block in any node's table, also one that came in a broadcast with only
\* VotesSent votes or in a download with none, has been voted for by more than
\* two thirds of the delegates: no check of it but the proposer's count says so
\* (hasEnoughVotes against hasEnoughVotesRemote, and loadBlocksFromPeer's null).
Certified(b) == 3 * Cardinality(Signers(b)) > 2 * NumDelegates
ChainsCertified == \A n \in Node : \A b \in chain[n] \ {Genesis} : Certified(b)

\* Two nodes can hold different blocks of one height, since a delegate's node
\* votes again at the same height; but then more than a third of the delegates
\* signed both blocks.
ForksAreDoubleSigned ==
  \A n, m \in Node : \A a \in chain[n], b \in chain[m] :
    (a # b /\ Height(a) = Height(b)) =>
       3 * Cardinality(Signers(a) \cap Signers(b)) > NumDelegates

\* A node's blocks table is always one path from the genesis block up to
\* private.lastBlock, whatever is applied, popped or downloaded.
ChainsLinked ==
  \A n \in Node :
    /\ Genesis \in chain[n] /\ lastBlock[n] \in chain[n]
    /\ \A a \in chain[n] :
         /\ Height(a) <= Height(lastBlock[n])
         /\ a # Genesis => /\ blocks[a].prev \in chain[n]
                           /\ Height(a) = Height(blocks[a].prev) + 1
                           /\ blocks[a].slot > blocks[blocks[a].prev].slot
         /\ \A b \in chain[n] : Height(a) = Height(b) => a = b

\* Between two restarts or rollbacks, a node never votes for the proposals of
\* two different blocks of one height within the five seconds of lastVoteTime,
\* although applying a block forgets that time (onReceivePropose, applyBlock).
VotesSpaced ==
  [][\A n \in Node :
       LET a == lastPropose[n]
           b == lastPropose'[n]
       IN  /\ voteAt[n] # Never
           /\ None \notin {a, b} /\ a # b /\ Height(a) = Height(b)
           => now - voteAt[n] >= VoteTicks]_vars

\* Between two restarts or rollbacks of its node, a delegate makes public (proposes
\* or broadcasts) at most one block for a slot and a height, though loop wakes up
\* many times in the slot, blocks it forged before may have failed to apply, and
\* the pending block may lack votes (hasPendingBlock).
OneBlockPerSlot ==
  \A a, b \in Published :
    (/\ blocks[a].gen = blocks[b].gen /\ blocks[a].epoch = blocks[b].epoch
     /\ Height(a) = Height(b) /\ blocks[a].slot = blocks[b].slot)
    => a = b

=============================================================================
