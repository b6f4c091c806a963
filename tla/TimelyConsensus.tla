--------------------------- MODULE TimelyConsensus ---------------------------
(***************************************************************************)
(* Consensus on a network that is timely from the tick GST on: before the   *)
(* clock moves, every message has been handled, every queued                *)
(* synchronisation has run and the leader of the slot has forged.  Before   *)
(* GST messages may be late, those still on their way at GST may be lost,   *)
(* and a node may restart, once.  A node synchronises only when the code    *)
(* says so.  Code: src/src/core/blocks.js (onReceiveBlock,                  *)
(* onReceivePropose), src/src/core/loader.js (startSyncBlocks, onPeerReady).*)
(***************************************************************************)
EXTENDS Consensus

CONSTANT GST  \* the tick from which on the network is timely

ASSUME GSTAssumption == GST \in Nat

VARIABLES
  handled,  \* handled[n]: the messages n has received, lost or sent itself
  active    \* the nodes with a synchronisation in the queue (isActive in loader.js)

timelyVars == <<vars, handled, active>>

\* The messages on their way to n.
Inbox(n) == {m \in msgs \ handled[n] : m.type = "votes" => m.to = n}

\* The branches of onReceiveBlock and onReceivePropose that call startSyncBlocks:
\* the message shows n that it has missed blocks.
ShowsGap(n, m) ==
  /\ Height(m.id) > Height(lastBlock[n]) + 1
  /\ \/ m.type = "block" /\ m.id \notin blockCache[n]
     \/ m.type = "propose" /\ m.id \notin proposeCache[n]

\* nextSync, every 10 s: the last block is two slots old.
Late(n) == CurrentSlot + 1 - blocks[lastBlock[n]].slot >= 3

Seen(n, ms) == handled' = [handled EXCEPT ![n] = @ \cup ms]

\* n handles a message, or finds that it has handled it already.  From GST on no
\* block fails to apply.
Handle(n, m) ==
  /\ \/ ReceivePropose(n, m)
     \/ \E ok \in BOOLEAN :
          (now >= GST => ok) /\ (ReceiveVotes(n, m, ok) \/ ReceiveBlock(n, m, ok))
     \/ /\ \/ m.type = "propose" /\ m.id \in proposeCache[n]
           \/ m.type = "block" /\ m.id \in blockCache[n]
        /\ UNCHANGED vars
  /\ active' = IF ShowsGap(n, m) THEN active \cup {n} ELSE active
  /\ Seen(n, {m} \cup (msgs' \ msgs))

\* syncBlocks and loadBlocks: the peer (there is one) is asked for its height, and
\* followed if that is greater.  Messages that arrive meanwhile are dropped.
RunSync(n, m) ==
  /\ n \in active /\ m # n
  /\ \/ Sync(n, m, lastBlock[m])
     \/ Height(lastBlock[m]) <= Height(lastBlock[n]) /\ UNCHANGED vars
  /\ active' = active \ {n}
  /\ \E lost \in SUBSET Inbox(n) : (now < GST => lost = {}) /\ Seen(n, lost)

\* The clock moves; the timer of nextSync fires in the middle of a slot.
TimelyTick ==
  /\ now >= GST =>
       /\ active = {}
       /\ \A n \in Node : Inbox(n) = {}
       /\ ~\E n \in Node, d \in Delegate : MayForge(n, d) /\ ~HasPendingBlock(n)
  /\ Tick
  /\ active' = active \cup
       (IF now' % SlotTicks = SlotTicks \div 2 THEN {n \in Node : Late(n)} ELSE {})
  /\ IF now + 1 = GST
     THEN \E lost \in SUBSET UNION {{n} \X Inbox(n) : n \in Node} :
            handled' = [n \in Node |-> handled[n] \cup {m \in msgs : <<n, m>> \in lost}]
     ELSE UNCHANGED handled

TimelyInit == Init /\ handled = [n \in Node |-> {}] /\ active = {}

TimelyNext ==
  \/ TimelyTick
  \/ \E n \in Node, d \in Delegate :
        /\ GenerateAndApply(n, d) \/ GenerateAndPropose(n, d)
        /\ Seen(n, msgs' \ msgs) /\ UNCHANGED active
  \/ \E n \in Node : \E m \in Inbox(n) : Handle(n, m)
  \/ \E n, m \in Node : RunSync(n, m)
  \/ now < GST /\ \E n \in Restarting :
        epoch[n] = 0 /\ Crash(n) /\ active' = active \ {n} /\ UNCHANGED handled

\* The event loop does not stop while a timer, a queued task or a message is due.
TimelySpec == TimelyInit /\ [][TimelyNext]_timelyVars /\ WF_timelyVars(TimelyNext)

\* Once the network is timely, the chains of all nodes grow up to the bound and
\* agree below their last block, whatever forks, lost votes and ignored proposals
\* the time before has left behind: a node that lost a fork finds a longer chain,
\* goes back to the common block and follows it (findUpdate), and the next leader
\* gets its votes (lastVoteTime and lastPropose stop nobody for good).  Two last
\* blocks may differ, until the next block is forged.
Converges ==
  <>[](\A n, m \in Node :
         /\ Height(lastBlock[n]) = MaxHeight
         /\ chain[n] \ {lastBlock[n]} = chain[m] \ {lastBlock[m]})

=============================================================================
