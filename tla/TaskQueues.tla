------------------------------ MODULE TaskQueues ------------------------------
(***************************************************************************)
(* The three task queues of a node - library.sequence, balancesSequence and *)
(* dbSequence - and who adds tasks to them and waits for their end, from    *)
(* the loading of the chain on; and the timer that asks peers for their     *)
(* unconfirmed transactions.                                                *)
(* Code: src/src/utils/sequence.js; the callers in src/src/core/blocks.js,  *)
(* loader.js, multisignatures.js, transactions.js, transport.js.            *)
(*                                                                          *)
(* What a task does to the node is in the other modules: here it adds tasks *)
(* to other queues, one after the other, waits for each, and ends.          *)
(***************************************************************************)
EXTENDS Integers, Sequences

CONSTANTS
  Requests, \* kinds of tasks that messages of peers and clients add
  MaxTasks, \* bound: tasks added
  MaxSteps  \* bound: tasks a task adds

ASSUME QueuesAssumption ==
  /\ Requests \subseteq {"processBlock", "receiveTransactions", "loadBlocksData", "loadSignatures"}
  /\ MaxTasks \in Nat /\ MaxSteps \in Nat

Queue == {"main", "balances", "db"}
Kind == {"syncBlocks", "processBlock", "loadSignatures", "receiveTransactions",
         "applyBlock", "popLastBlock", "processSignature", "loadBlocksData", "loadBlocksOffset"}

\* The queue of a task.
QueueOf(k) ==
  IF k \in {"syncBlocks", "processBlock", "loadSignatures"} THEN "main"
  ELSE IF k \in {"loadBlocksData", "loadBlocksOffset"} THEN "db" ELSE "balances"

\* The tasks it adds and waits for: popLastBlock and loadBlocksOffset wait for each
\* other's queue.
AddedBy(k) ==
  {a \in Kind : \/ k = "syncBlocks" /\ a \in {"popLastBlock", "applyBlock"}
                \/ k \in {"processBlock", "loadBlocksOffset"} /\ a = "applyBlock"
                \/ k = "loadSignatures" /\ a = "processSignature"
                \/ k = "popLastBlock" /\ a = "loadBlocksData"}

VARIABLES
  tasks,   \* every task added: its kind, the task that waits for it (0: none), how
           \* many it has added, and its status
  queue,   \* those not started
  running, \* that of each queue, 0: none
  loaded,  \* private.loaded of the loader and the transport
  polling  \* nextLoadUnconfirmedTransactions: "unset", "set", "busy", "stopped"

queuesVars == <<tasks, queue, running, loaded, polling>>

Active == {i \in 1 .. Len(tasks) : tasks[i].status # "done"}
Syncing == running["main"] # 0 /\ tasks[running["main"]].kind = "syncBlocks"
Waiting(i) == \E j \in Active : tasks[j].caller = i
-----------------------------------------------------------------------------
QueuesInit ==
  /\ tasks = <<>> /\ queue = [q \in Queue |-> <<>>] /\ running = [q \in Queue |-> 0]
  /\ loaded = FALSE /\ polling = "unset"

\* Sequence.add
Add(ts, k, caller) ==
  /\ Len(tasks) < MaxTasks
  /\ tasks' = Append(ts, [kind |-> k, caller |-> caller, steps |-> 0, status |-> "queued"])
  /\ queue' = [queue EXCEPT ![QueueOf(k)] = Append(@, Len(ts) + 1)]

\* loadBlockChain: one chunk of the chain after the other, ...
LoadBlocks ==
  /\ ~loaded /\ ~\E i \in Active : tasks[i].kind = "loadBlocksOffset"
  /\ Add(tasks, "loadBlocksOffset", 0)
  /\ UNCHANGED <<running, loaded, polling>>

\* Mutation: the node is ready while a chunk is being loaded.
ReadyEarly ==
  ~loaded /\ loaded' = TRUE /\ UNCHANGED <<tasks, queue, running, polling>>

\* ... then blockchainReady.
BlockchainReady ==
  /\ ~loaded /\ ~\E i \in Active : tasks[i].kind = "loadBlocksOffset"
  /\ loaded' = TRUE
  /\ UNCHANGED <<tasks, queue, running, polling>>

\* startSyncBlocks, once at a time
StartSyncBlocks ==
  /\ loaded /\ ~\E i \in Active : tasks[i].kind = "syncBlocks"
  /\ Add(tasks, "syncBlocks", 0)
  /\ UNCHANGED <<running, loaded, polling>>

\* Blocks, votes, proposals and the node's own slot, if it is not syncing; requests
\* of peers and clients; the signatures of a peer.
Receive(k) ==
  /\ loaded /\ k \in Requests
  /\ k = "processBlock" => ~Syncing
  /\ Add(tasks, k, 0)
  /\ UNCHANGED <<running, loaded, polling>>

\* Mutation: the last task is taken.
TickLast(q) ==
  /\ running[q] = 0 /\ queue[q] # <<>>
  /\ LET i == queue[q][Len(queue[q])]
     IN  /\ running' = [running EXCEPT ![q] = i]
         /\ tasks' = [tasks EXCEPT ![i].status = "running"]
  /\ queue' = [queue EXCEPT ![q] = SubSeq(@, 1, Len(@) - 1)]
  /\ UNCHANGED <<loaded, polling>>

\* __tick, when the task before has called back
Tick(q) ==
  /\ running[q] = 0 /\ queue[q] # <<>>
  /\ LET i == Head(queue[q])
     IN  /\ running' = [running EXCEPT ![q] = i]
         /\ tasks' = [tasks EXCEPT ![i].status = "running"]
  /\ queue' = [queue EXCEPT ![q] = Tail(@)]
  /\ UNCHANGED <<loaded, polling>>

\* The task of q adds one to another queue and waits, ...
AddAndWait(q, k) ==
  LET i == running[q]
  IN  /\ i # 0 /\ ~Waiting(i) /\ tasks[i].steps < MaxSteps /\ k \in AddedBy(tasks[i].kind)
      /\ Add([tasks EXCEPT ![i].steps = @ + 1], k, i)
      /\ UNCHANGED <<running, loaded, polling>>

\* ... and calls back in the end.
Finish(q) ==
  LET i == running[q]
  IN  /\ i # 0 /\ ~Waiting(i)
      /\ running' = [running EXCEPT ![q] = 0]
      /\ tasks' = [tasks EXCEPT ![i].status = "done"]
      /\ polling' = IF polling = "busy" /\ tasks[i].kind = "receiveTransactions" THEN "set" ELSE polling
      /\ UNCHANGED <<queue, loaded>>

\* peerReady, then every 14 seconds: the timer is not set again while syncing.
PeerReady ==
  /\ loaded /\ polling = "unset" /\ polling' = "set"
  /\ UNCHANGED <<tasks, queue, running, loaded>>
LoadUnconfirmedTransactions ==
  /\ polling = "set"
  /\ \/ Syncing /\ polling' = "stopped" /\ UNCHANGED <<tasks, queue>>
     \/ ~Syncing /\ polling' = "busy" /\ Add(tasks, "receiveTransactions", 0)
  /\ UNCHANGED <<running, loaded>>

QueuesNext ==
  \/ LoadBlocks \/ BlockchainReady \/ StartSyncBlocks
  \/ \E k \in Requests : Receive(k)
  \/ \E q \in Queue : Tick(q) \/ Finish(q)
  \/ \E q \in Queue, k \in Kind : AddAndWait(q, k)
  \/ PeerReady \/ LoadUnconfirmedTransactions

\* A queue ticks for ever (setTimeout 3 ms), and a task whose tasks are done goes on:
\* what is iterated over (blocks, signatures, transactions) is finite.
Fairness == \A q \in Queue : WF_queuesVars(Tick(q)) /\ WF_queuesVars(Finish(q))

QueuesSpec == QueuesInit /\ [][QueuesNext]_queuesVars /\ Fairness
-----------------------------------------------------------------------------
(* Properties *)

TaskType == [kind : Kind, caller : Nat, steps : Nat, status : {"queued", "running", "done"}]
QueuesTypeOK ==
  /\ tasks \in Seq(TaskType)
  /\ queue \in [Queue -> Seq(1 .. Len(tasks))]
  /\ running \in [Queue -> 0 .. Len(tasks)]
  /\ loaded \in BOOLEAN /\ polling \in {"unset", "set", "busy", "stopped"}

\* q waits for p: its task waits for one that p has not started.
WaitsFor(q, p) ==
  \E j \in Active : /\ running[q] # 0 /\ tasks[j].caller = running[q]
                    /\ tasks[j].status = "queued" /\ QueueOf(tasks[j].kind) = p

\* No two queues wait for each other: popLastBlock and loadBlocksOffset would.
NoCircularWait == QueuesTypeOK /\ \A q, p \in Queue : ~(WaitsFor(q, p) /\ WaitsFor(p, q))

\* The tasks of a queue end in the order they were added in.
TasksInOrder ==
  \A i, j \in 1 .. Len(tasks) :
    i < j /\ QueueOf(tasks[i].kind) = QueueOf(tasks[j].kind) /\ tasks[j].status # "queued" =>
      tasks[i].status = "done"

\* Every task that is added ends.
EveryTaskEnds ==
  \A i \in 1 .. MaxTasks : i \in Active ~> i \notin Active

=============================================================================
