------------------------------ MODULE HostNode ------------------------------
(***************************************************************************)
(* How an order pool is attached to a host node (pool/setup.rs,            *)
(* pool/host.rs), the hand-written dispatch table through which it calls   *)
(* the transaction pool of the node (pool/native.rs), the maintenance loop *)
(* that follows the chain of the node, and LocalNode (test_utils/node.rs), *)
(* which launches a node and drives it to build blocks.                    *)
(*                                                                         *)
(* The memory behind the dispatch table is modelled: a box is an element   *)
(* of `heap`, a pointer is its index.  A call through the table holds its  *)
(* pointer from its begin to its end, and others run in between.  Block    *)
(* times are in seconds; the clock and durations are in half seconds.  The *)
(* clock is read at one place only and shows anything there.               *)
(***************************************************************************)
EXTENDS Integers, FiniteSets, SequencesExt

CONSTANTS
  Nodes,        \* nodes that are launched in the process
  Txs,          \* transactions
  Tasks,        \* concurrent users of the pools
  BlockTimes,   \* what set_block_time is called with, in half seconds
  NoHost,       \* the order pool is not attached
  MaxBoxes,     \* bound: pools put on the heap
  MaxHeight,    \* bound: blocks of the chain of each node, the genesis block not counted
  Clock         \* what the clock shows, in half seconds

\* Owners of a NativeTransactionPool: the Instances of the order pool and LocalNodes.
Host == "instances"
Owners == Nodes \cup {Host}

ASSUME HostConstants ==
  /\ NoHost \notin Nodes
  /\ Host \notin Nodes
  /\ BlockTimes \subseteq Nat
  /\ Clock \subseteq Nat

VARIABLES
  status,      \* of the nodes: "down", "up", "failed", "stopped"
  chain,       \* the times of the blocks of each node; the first is the genesis block
  pool,        \* the transactions in the pool of each node
  heap,        \* the boxes of TransactionPoolVTable::new and clone
  handles,     \* self_ptr of the NativeTransactionPool of each owner, 0 for none
  instances,   \* OnceLock of HostNode: the node whose instances it holds
  tip_header,  \* the height of Instances::tip_header
  loops,       \* the maintenance loop of each node and its stream of events
  calls,       \* the calls under way
  build,       \* next_block_with_params of each LocalNode
  block_time   \* LocalNode::block_time

nodeVars == <<status, chain, pool>>
hostVars == <<instances, tip_header, loops>>
driverVars == <<build, block_time>>
vars == <<nodeVars, heap, handles, hostVars, calls, driverVars>>

height(n) == Len(chain[n]) - 1

Idle == [pc |-> "idle"]
NoLoop == [pc |-> "none", events |-> << >>, since |-> 0]

Init ==
  /\ status = [n \in Nodes |-> "down"]
  /\ chain = [n \in Nodes |-> <<0>>]
  /\ pool = [n \in Nodes |-> {}]
  /\ heap = << >>
  /\ handles = [o \in Owners |-> 0]
  /\ instances = NoHost
  /\ tip_header = 0
  /\ loops = [n \in Nodes |-> NoLoop]
  /\ calls = [t \in Tasks |-> Idle]
  /\ build = [n \in Nodes |-> Idle]
  /\ block_time = [n \in Nodes |-> 2]

(***************************************************************************)
(* NativeTransactionPool: the methods of the trait, by what they do to the *)
(* pool.  Each one calls the slot of its name, which calls the method of   *)
(* the pool behind the pointer.                                            *)
(***************************************************************************)

SizeMethods == {"pool_size", "block_info"}
AddMethods == {"add_transaction_and_subscribe", "add_transaction", "add_transactions"}
ListenMethods == {"transaction_event_listener", "all_transactions_event_listener",
  "pending_transactions_listener_for", "blob_transaction_sidecars_listener",
  "new_transactions_listener_for"}
PooledMethods == {"pooled_transaction_hashes", "pooled_transaction_hashes_max",
  "pooled_transactions", "pooled_transactions_max", "get_pooled_transaction_elements",
  "get_pooled_transaction_element"}
BestMethods == {"best_transactions", "best_transactions_with_attributes"}
SubPoolMethods == {"pending_transactions", "pending_transactions_max",
  "queued_transactions", "all_transactions", "all_transactions_hashes"}
RemoveMethods == {"remove_transactions", "remove_transactions_and_descendants",
  "remove_transactions_by_sender"}
LookupMethods == {"contains", "get", "get_all", "on_propagated", "get_transactions_by_sender"}
SenderMethods == {"get_pending_transactions_by_sender", "get_queued_transactions_by_sender",
  "get_highest_transaction_by_sender", "get_highest_consecutive_transaction_by_sender",
  "get_transaction_by_sender_and_nonce", "get_transactions_by_origin",
  "get_pending_transactions_by_origin", "unique_senders"}
BlobMethods == {"get_blob", "get_all_blobs", "get_all_blobs_exact",
  "get_blobs_for_versioned_hashes_v1", "get_blobs_for_versioned_hashes_v2",
  "get_blobs_for_versioned_hashes_v3", "pending_and_queued_txn_count"}

\* Their bodies are unimplemented!: the task that calls one panics.
Unimplemented == {"retain_unknown", "get_pending_transactions_with_predicate"}

ReadMethods == UNION {SizeMethods, ListenMethods, PooledMethods, BestMethods,
  SubPoolMethods, LookupMethods, SenderMethods, BlobMethods}

\* The slots of the table.
TransactionPoolVTable == UNION {ReadMethods, AddMethods, RemoveMethods}

\* What a slot does to the pool behind the pointer.
kind(method) == CASE method \in AddMethods    -> "add"
                  [] method \in RemoveMethods -> "remove"
                  [] method \in ReadMethods   -> "read"

\* A new box with a clone of the pool of node n.
boxed(h, n) == Append(h, [pool |-> n, live |-> TRUE])

\* Mutant: the box is freed as what it is, a pool.
drop_as_pool(h, ptr) == [h EXCEPT ![ptr].live = FALSE]

\* Drop takes the box for one of a Platform.  Every Platform of the repository is a type
\* without data, and nothing is freed: the pool in the box is leaked.  A Platform with
\* data would be dropped and freed here where a pool is: such Platforms are left out.
drop(h, ptr) == h

\* Clone for NativeTransactionPool: the table is copied, its pointer included; the slot
\* makes a new box, and the copy is dropped.
clone(h, ptr) == drop(boxed(h, h[ptr].pool), ptr)

CanBox == Len(heap) < MaxBoxes

\* A handle is borrowed while a call through it is under way: it is not dropped then.
borrowed(o) == \E t \in Tasks : calls[t].pc = "called" /\ calls[t].owner = o

BeginCall(t, o, method, tx) ==
  /\ calls[t].pc = "idle"
  /\ handles[o] # 0
  /\ calls' = [calls EXCEPT ![t] =
       IF method \in TransactionPoolVTable
       THEN [pc |-> "called", owner |-> o, ptr |-> handles[o], kind |-> kind(method), tx |-> tx]
       ELSE [pc |-> "panicked"]]
  /\ UNCHANGED <<nodeVars, heap, handles, hostVars, driverVars>>

\* The node may refuse a transaction (external).
EndCall(t) ==
  /\ calls[t].pc = "called"
  /\ \E n \in {heap[calls[t].ptr].pool} :
       \/ calls[t].kind = "add" /\ pool' = [pool EXCEPT ![n] = @ \cup {calls[t].tx}]
       \/ calls[t].kind = "remove" /\ pool' = [pool EXCEPT ![n] = @ \ {calls[t].tx}]
       \/ calls[t].kind # "remove" /\ UNCHANGED pool
  /\ calls' = [calls EXCEPT ![t] = Idle]
  /\ UNCHANGED <<status, chain, heap, handles, hostVars, driverVars>>

\* system_pool().best_transactions(), as payload jobs see it.
best_transactions == IF handles[Host] = 0 THEN {} ELSE pool[heap[handles[Host]].pool]

(***************************************************************************)
(* Attaching the order pool.  `new` is the heap with the box for the       *)
(* Instances, which are dropped when the OnceLock is set already.          *)
(***************************************************************************)

attach(n, new, tip) ==
  IF instances = NoHost
  THEN /\ instances' = n
       /\ tip_header' = tip
       /\ heap' = new
       /\ handles' = [handles EXCEPT ![Host] = Len(new)]
       /\ loops' = [loops EXCEPT ![n].pc = "spawned"]
  ELSE /\ heap' = drop(new, Len(new))
       /\ UNCHANGED <<instances, tip_header, handles, loops>>

\* A node is launched with attach_pool: build_pool attaches it, with the tip of its
\* database, and an error ends the launch.
LaunchAttached(n, blocks) ==
  /\ status[n] = "down"
  /\ CanBox
  /\ chain' = [chain EXCEPT ![n] = blocks]
  /\ attach(n, boxed(heap, n), Len(blocks) - 1)
  /\ status' = [status EXCEPT ![n] = IF instances = NoHost THEN "up" ELSE "failed"]
  /\ UNCHANGED <<pool, calls, driverVars>>

\* LocalNode::new has a handle of its own to the pool of the node.
LaunchLocal(n) ==
  /\ status[n] = "down"
  /\ CanBox
  /\ heap' = boxed(heap, n)
  /\ handles' = [handles EXCEPT ![n] = Len(heap) + 1]
  /\ status' = [status EXCEPT ![n] = "up"]
  /\ UNCHANGED <<chain, pool, hostVars, calls, driverVars>>

\* attach_to_test_node clones that handle and takes the genesis block for the tip.
AttachToTestNode(n) ==
  /\ status[n] = "up"
  /\ handles[n] # 0
  /\ CanBox
  /\ attach(n, clone(heap, handles[n]), 0)
  /\ UNCHANGED <<nodeVars, calls, driverVars>>

\* The node shuts down: LocalNode is dropped, or the process of the node ends its tasks.
Stop(n) ==
  /\ status[n] = "up"
  /\ ~borrowed(n)
  /\ build[n].pc = "idle"
  /\ status' = [status EXCEPT ![n] = "stopped"]
  /\ heap' = IF handles[n] = 0 THEN heap ELSE drop(heap, handles[n])
  /\ handles' = [handles EXCEPT ![n] = 0]
  /\ UNCHANGED <<chain, pool, hostVars, calls, driverVars>>

(***************************************************************************)
(* The maintenance loop.                                                   *)
(***************************************************************************)

\* It subscribes to the chain when it is first polled, not when it is attached.
Subscribe(n) ==
  /\ loops[n].pc = "spawned"
  /\ loops' = [loops EXCEPT ![n] = [pc |-> "running", events |-> << >>, since |-> height(n)]]
  /\ UNCHANGED <<nodeVars, heap, handles, instances, tip_header, calls, driverVars>>

\* Mutant: the orders of the block are removed, the tip stays.
ChainEventOrders(n) ==
  /\ loops[n].pc = "running"
  /\ loops[n].events # << >>
  /\ pool' = [pool EXCEPT ![heap[handles[Host]].pool] = @ \ Head(loops[n].events).txs]
  /\ loops' = [loops EXCEPT ![n].events = Tail(@)]
  /\ UNCHANGED <<status, chain, heap, handles, instances, tip_header, calls, driverVars>>

\* The transactions of the block leave the host's pool, and the tip follows.  What else
\* report_committed_block does is in OrderPool, and so are reorgs.  The chains here only
\* grow, and the stream, whose buffer is longer than they are, loses no event by lagging.
ChainEvent(n) ==
  /\ loops[n].pc = "running"
  /\ loops[n].events # << >>
  /\ pool' = [pool EXCEPT ![heap[handles[Host]].pool] = @ \ Head(loops[n].events).txs]
  /\ tip_header' = Head(loops[n].events).number
  /\ loops' = [loops EXCEPT ![n].events = Tail(@)]
  /\ UNCHANGED <<status, chain, heap, handles, instances, calls, driverVars>>

\* On the shutdown signal the loop ends, with events that are left or without.
Shutdown(n) ==
  /\ status[n] = "stopped"
  /\ loops[n].pc \in {"spawned", "running"}
  /\ loops' = [loops EXCEPT ![n] = [NoLoop EXCEPT !.pc = "ended"]]
  /\ UNCHANGED <<nodeVars, heap, handles, instances, tip_header, calls, driverVars>>

(***************************************************************************)
(* Blocks.                                                                 *)
(***************************************************************************)

\* The node makes a block canonical (external): it leaves the pool of the node, and the
\* streams that are subscribed get an event.
commit(n, time, txs) ==
  /\ chain' = [chain EXCEPT ![n] = Append(@, time)]
  /\ pool' = [pool EXCEPT ![n] = @ \ txs]
  /\ loops' = IF loops[n].pc # "running" THEN loops
              ELSE [loops EXCEPT ![n].events = Append(@, [number |-> height(n) + 1, txs |-> txs])]

\* A node that is not driven here follows the chain of its network (external).
Follow(n, txs) ==
  /\ status[n] = "up"
  /\ handles[n] = 0
  /\ height(n) < MaxHeight[n]
  /\ commit(n, Last(chain[n]) + 1, txs)
  /\ UNCHANGED <<status, heap, handles, instances, tip_header, calls, driverVars>>

MIN_BLOCK_TIME == 2

\* Mutant: without the minimum.
set_block_time_any(duration) == duration

set_block_time(duration) == Max({duration, MIN_BLOCK_TIME})

SetBlockTime(n, duration) ==
  /\ handles[n] # 0
  /\ height(n) < MaxHeight[n]
  /\ build[n].pc = "idle"
  /\ block_time' = [block_time EXCEPT ![n] = set_block_time(duration)]
  /\ UNCHANGED <<nodeVars, heap, handles, hostVars, calls, build>>

\* A block time after the clock, or after the latest block when that is later, cut off
\* to seconds.
target_timestamp(n, now) ==
  LET latest == 2 * Last(chain[n])
      elapsed == Max({0, now - latest})  \* saturating_sub
  IN (latest + block_time[n] + elapsed) \div 2

\* next_block_with_params.  It takes a shared reference; as in all tests, its callers wait
\* for one block of a node before they ask for the next.
NextBlock(n, now) ==
  /\ handles[n] # 0
  /\ build[n].pc = "idle"
  /\ height(n) < MaxHeight[n]
  /\ build' = [build EXCEPT ![n] = [pc |-> "start", time |-> target_timestamp(n, now)]]
  /\ UNCHANGED <<nodeVars, heap, handles, hostVars, calls, block_time>>

\* start_building: the engine refuses attributes that are not after the head (external).
\* The caller then sleeps for the block time.
StartBuilding(n) ==
  /\ build[n].pc = "start"
  /\ build' = [build EXCEPT ![n] =
       IF build[n].time > Last(chain[n])
       THEN [pc |-> "sleeping", time |-> build[n].time]
       ELSE [pc |-> "refused"]]
  /\ UNCHANGED <<nodeVars, heap, handles, hostVars, calls, block_time>>

\* finish_building: the payload is fetched, given back to the node and made canonical.
FinishBuilding(n, txs) ==
  /\ build[n].pc = "sleeping"
  /\ commit(n, build[n].time, txs)
  /\ build' = [build EXCEPT ![n] = Idle]
  /\ UNCHANGED <<status, heap, handles, instances, tip_header, calls, block_time>>

\* The pipeline did not make a payload.
FinishBuildingFails(n) ==
  /\ build[n].pc = "sleeping"
  /\ build' = [build EXCEPT ![n] = Idle]
  /\ UNCHANGED <<nodeVars, heap, handles, hostVars, calls, block_time>>

Maintenance(n) == Subscribe(n) \/ ChainEvent(n) \/ Shutdown(n)

Next ==
  \/ \E t \in Tasks : \/ \E o \in Owners, m \in TransactionPoolVTable \cup Unimplemented, tx \in Txs :
                           BeginCall(t, o, m, tx)
                      \/ EndCall(t)
  \/ \E n \in Nodes :
       \/ \E blocks \in {<<0>>, <<0, 1>>} : LaunchAttached(n, blocks)
       \/ LaunchLocal(n) \/ AttachToTestNode(n) \/ Stop(n)
       \/ Maintenance(n)
       \/ \E txs \in SUBSET pool[n] : Follow(n, txs)
       \/ \E duration \in BlockTimes : SetBlockTime(n, duration)
       \/ \E now \in Clock : NextBlock(n, now)
       \/ StartBuilding(n) \/ FinishBuildingFails(n)
       \/ \E txs \in SUBSET best_transactions : FinishBuilding(n, txs)

Spec == Init /\ [][Next]_vars

\* The loop is a task of the node's runtime, which polls it when it is woken.
FairSpec == Spec /\ \A n \in Nodes : WF_vars(Maintenance(n))

(***************************************************************************)
(* Properties                                                              *)
(***************************************************************************)

\* The unsafe dereferences of native.rs: every handle, and every call under way, points
\* to a box that has not been freed, and a LocalNode's handle and that of the order pool
\* to the pools of their nodes, whoever clones and drops handles in between.
NoDanglingPools ==
  /\ \A t \in Tasks : calls[t].pc = "called" => heap[calls[t].ptr].live
  /\ \A n \in Nodes : handles[n] # 0 => heap[handles[n]] = [pool |-> n, live |-> TRUE]
  /\ handles[Host] # 0 => heap[handles[Host]] = [pool |-> instances, live |-> TRUE]

\* A block that is committed after the loop has subscribed reaches the tip header that
\* judges bundles, unless the node is stopped.  (Blocks between attach and the first
\* poll of the loop do not.)
TipFollows ==
  \A n \in Nodes :
    loops[n].pc = "running" /\ height(n) > loops[n].since
      ~> status[n] = "stopped" \/ tip_header = height(n)

\* Attributes of a local node are never refused for their timestamp, however the block
\* time is set, the clock stands and the seconds are cut off.
AttributesAreAccepted == \A n \in Nodes : build[n].pc # "refused"
=============================================================================
