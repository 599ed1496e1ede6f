------------------------------ MODULE OrderPool ------------------------------
(***************************************************************************)
(* OrderPool (pool/): the shared pool of orders and the actors that touch  *)
(* it concurrently: RPC calls that insert bundles, the maintenance loop    *)
(* that follows the canonical chain, payload jobs that take orders from it *)
(* and the listener that hears of their failures.                          *)
(*                                                                         *)
(* Every call on one of the pool's concurrent maps is a step of its own;   *)
(* what is done between two calls is not.  Calls on the pool of the host   *)
(* node are taken together with the pool's own call next to them.  An      *)
(* order is named by its hash: a single transaction has the hash of the    *)
(* transaction.                                                            *)
(***************************************************************************)
EXTENDS Bundle, FiniteSets, SequencesExt

CONSTANTS
  Bundles,        \* hashes of the bundles that may be sent
  Txs,            \* hashes of the transactions
  Loose,          \* the transactions that come alone, to this pool or to the host's
  BundleOf,       \* the bundle of a hash
  Callers,        \* concurrent callers of insert: RPC calls, other users
  Errors,         \* how the inclusion of a proposed order can fail
  MaxBlocks,      \* bound: blocks reported to the pool
  Capacity        \* of the channel of failure events, 100 in the code

ASSUME PoolConstants ==
  /\ Bundles \cap Txs = {}
  /\ Loose \subseteq Txs
  /\ \A b \in Bundles : BundleOf[b].txs \in Seq(Txs)
  /\ Capacity \in Nat \ {0}

VARIABLES
  orders,       \* keys of OrderPoolInner::orders
  tx_map,       \* OrderPoolInner::tx_map; an absent entry is an empty set
  system_pool,  \* the transactions in the pool of the host node
  tip_header,   \* HostNode's tip_header
  calls,        \* the insert each caller is in the middle of
  blocks,       \* every block committed so far, in the order of the events
  begun,        \* how many of them the maintenance loop has begun to report
  maintenance,  \* where the maintenance loop is in the current block
  failures,     \* failure events on their way to the listener
  listening,    \* the listener runs
  inserted,     \* history: when an order was last inserted, in blocks reported before
  dropped       \* history: orders removed for a permanent failure since then

poolVars == <<orders, tx_map, system_pool>>
chainVars == <<tip_header, blocks, begun, maintenance>>
historyVars == <<inserted, dropped>>
eventVars == <<failures, listening>>
vars == <<poolVars, chainVars, eventVars, historyVars, calls>>

Orders == Bundles \cup Loose

transactions(o) == IF o \in Bundles THEN BundleOf[o].txs ELSE <<o>>

\* Time in blocks: the timestamp grows with the number.
Header(n) == [number |-> n, timestamp |-> n]

Permanent == {"PermanentlyIneligible", "InvalidSignature"}

\* The number of blocks whose report is complete.
complete == IF maintenance.pc = "waiting" THEN begun ELSE begun - 1

\* No insert under way.
Idle == [pc |-> "idle", order |-> "none", todo |-> << >>, since |-> 0]

\* The maintenance loop between two blocks.
Waiting == [pc |-> "waiting", txs |-> {}, remove |-> {}, visit |-> {}]

Init ==
  /\ orders = {}
  /\ tx_map = [t \in Txs |-> {}]
  /\ system_pool = {}
  /\ tip_header = Header(0)
  /\ calls = [c \in Callers |-> Idle]
  /\ blocks = << >>
  /\ begun = 0
  /\ maintenance = Waiting
  /\ failures = << >>
  /\ listening = TRUE
  /\ inserted = [o \in Orders |-> [from |-> 0, to |-> 0]]
  /\ dropped = {}

(***************************************************************************)
(* insert, called by send_bundle or directly                               *)
(***************************************************************************)

begin_insert(c, o) ==
  /\ calls[c].pc = "idle"
  /\ calls' = [calls EXCEPT ![c] = [pc |-> "map", order |-> o, todo |-> transactions(o),
                                    since |-> complete]]
  /\ UNCHANGED <<poolVars, chainVars, eventVars, historyVars>>

\* send_bundle: judged by the tip header of this moment.  A rejected bundle
\* changes nothing.
SendBundle(c, b) ==
  /\ BundleOf[b].txs # << >>
  /\ ~is_permanently_ineligible(BundleOf[b], tip_header)
  /\ begin_insert(c, b)

InsertTransaction(c, t) == begin_insert(c, t)

\* The order is listed for its next transaction.
MapTransaction(c) ==
  LET call == calls[c] IN
  /\ call.pc = "map"
  /\ call.todo # << >>
  /\ tx_map' = [tx_map EXCEPT ![Head(call.todo)] = @ \cup {call.order}]
  /\ calls' = [calls EXCEPT ![c].todo = Tail(@)]
  /\ UNCHANGED <<orders, system_pool, chainVars, eventVars, historyVars>>

InsertOrder(c) ==
  LET o == calls[c].order IN
  /\ calls[c].pc = "map"
  /\ calls[c].todo = << >>
  /\ orders' = orders \cup {o}
  /\ calls' = [calls EXCEPT ![c] = Idle]
  /\ inserted' = [inserted EXCEPT ![o] = [from |-> calls[c].since, to |-> begun]]
  /\ dropped' = dropped \ {o}
  /\ UNCHANGED <<tx_map, system_pool, chainVars, eventVars>>

\* The host node hears of a transaction (external).
SystemPoolAdd(t) ==
  /\ t \notin system_pool
  /\ system_pool' = system_pool \cup {t}
  /\ dropped' = dropped \ {t}
  /\ UNCHANGED <<orders, tx_map, chainVars, eventVars, inserted, calls>>

(***************************************************************************)
(* remove, and the maintenance loop that calls it                          *)
(***************************************************************************)

\* Mutant: the host node keeps the transaction.
remove_from_orders(o) ==
  /\ orders' = orders \ {o}
  /\ UNCHANGED system_pool

\* Mutant: the orders are only forgotten.
remove_nothing(o) == UNCHANGED <<orders, system_pool>>

remove(o) ==
  /\ orders' = orders \ {o}
  /\ system_pool' = system_pool \ {o}

\* The chain moves (external): an event commits a chain of blocks on top of the
\* last one or, in a reorg, in place of it and some before it.  `last` is the
\* last block of an event.
Commit(number, txs, last) ==
  /\ Len(blocks) < MaxBlocks
  /\ IF blocks = << >> THEN number = 1
     ELSE IF Last(blocks).last THEN number <= Last(blocks).header.number + 1
     ELSE number = Last(blocks).header.number + 1
  /\ blocks' = Append(blocks, [header |-> Header(number), txs |-> txs, last |-> last])
  /\ UNCHANGED <<poolVars, tip_header, begun, maintenance, eventVars, historyVars, calls>>

\* An event is taken from the stream as a whole.
EventReady == \E i \in (begun + 1)..Len(blocks) : blocks[i].last

\* report_committed_block for the next block.
ReportBlock ==
  /\ maintenance.pc = "waiting"
  /\ EventReady
  /\ begun' = begun + 1
  /\ maintenance' = [Waiting EXCEPT !.pc = "txs", !.txs = blocks[begun + 1].txs]
  /\ UNCHANGED <<poolVars, tip_header, blocks, eventVars, historyVars, calls>>

\* remove_any_with: takes the transaction out of the host's pool and its orders
\* out of the map; they are removed one by one.
RemoveAnyWith(t) ==
  /\ maintenance.pc = "txs"
  /\ maintenance.remove = {}
  /\ t \in maintenance.txs
  /\ system_pool' = system_pool \ {t}
  /\ tx_map' = [tx_map EXCEPT ![t] = {}]
  /\ maintenance' = [maintenance EXCEPT !.txs = @ \ {t}, !.remove = tx_map[t]]
  /\ UNCHANGED <<orders, tip_header, blocks, begun, eventVars, historyVars, calls>>

RemoveOrder(o) ==
  /\ maintenance.pc = "txs"
  /\ o \in maintenance.remove
  /\ remove(o)
  /\ maintenance' = [maintenance EXCEPT !.remove = @ \ {o}]
  /\ UNCHANGED <<tx_map, tip_header, blocks, begun, eventVars, historyVars, calls>>

\* remove_invalidated_orders begins to visit the entries of the map; those of
\* transactions are kept whatever the block.
BeginRetain ==
  /\ maintenance.pc = "txs"
  /\ maintenance.txs = {}
  /\ maintenance.remove = {}
  /\ maintenance' = [maintenance EXCEPT !.pc = "retain", !.visit = Bundles]
  /\ UNCHANGED <<poolVars, tip_header, blocks, begun, eventVars, historyVars, calls>>

\* Mutant: bundles are judged by the tip header, which is still the old one.
RetainVisitByTip(b) ==
  /\ maintenance.pc = "retain"
  /\ b \in maintenance.visit
  /\ orders' = IF is_permanently_ineligible(BundleOf[b], tip_header)
               THEN orders \ {b}
               ELSE orders
  /\ maintenance' = [maintenance EXCEPT !.visit = @ \ {b}]
  /\ UNCHANGED <<tx_map, system_pool, tip_header, blocks, begun, eventVars, historyVars, calls>>

\* The map is locked in parts: what is inserted into a part that has been visited
\* is not seen.
RetainVisit(b) ==
  /\ maintenance.pc = "retain"
  /\ b \in maintenance.visit
  /\ orders' = IF is_permanently_ineligible(BundleOf[b], blocks[begun].header)
               THEN orders \ {b}
               ELSE orders
  /\ maintenance' = [maintenance EXCEPT !.visit = @ \ {b}]
  /\ UNCHANGED <<tx_map, system_pool, tip_header, blocks, begun, eventVars, historyVars, calls>>

\* The block is reported; after the last block of an event the tip follows.
FinishBlock ==
  /\ maintenance.pc = "retain"
  /\ maintenance.visit = {}
  /\ maintenance' = Waiting
  /\ tip_header' = IF blocks[begun].last THEN blocks[begun].header ELSE tip_header
  /\ UNCHANGED <<poolVars, blocks, begun, eventVars, historyVars, calls>>

(***************************************************************************)
(* Payload jobs, and the listener of the events they emit                  *)
(***************************************************************************)

\* All transactions of the pool, its bundles that are eligible, and the host's
\* transactions.
best_orders_for_block(block) ==
  {o \in orders : o \in Bundles => is_eligible(BundleOf[o], block)} \cup system_pool

\* EventsBus: each type of events has a channel of its own, which keeps the newest ones
\* when its receiver lags.
publish(channel, event) ==
  LET all == Append(channel, event) IN IF Len(all) > Capacity THEN Tail(all) ELSE all

\* A job for some block takes an order and fails to include it; what it includes, or
\* only attempts, changes nothing here (report_inclusion_attempt has no effect).
Propose(o, error) ==
  /\ listening
  /\ \E n \in 1..(MaxBlocks + 1) : o \in best_orders_for_block(Header(n))
  /\ failures' = publish(failures, [order |-> o, error |-> error])
  /\ UNCHANGED <<poolVars, chainVars, listening, historyVars, calls>>

\* Removes the order on permanent errors only.
report_execution_error(o, error) ==
  IF error \in Permanent THEN remove(o) /\ dropped' = dropped \cup {o}
  ELSE UNCHANGED <<orders, system_pool, dropped>>

\* start_pipeline_events_listener
HearFailure ==
  /\ failures # << >>
  /\ failures' = Tail(failures)
  /\ report_execution_error(Head(failures).order, Head(failures).error)
  /\ UNCHANGED <<tx_map, chainVars, listening, inserted, calls>>

\* The pipeline is dropped, after the last of its jobs: the listener ends, and does not
\* look at what is left in the other channels.
DropPipeline ==
  /\ listening
  /\ listening' = FALSE
  /\ failures' = << >>
  /\ UNCHANGED <<poolVars, chainVars, historyVars, calls>>

Next ==
  \/ \E c \in Callers : \/ \E b \in Bundles : SendBundle(c, b)
                        \/ \E t \in Loose : InsertTransaction(c, t)
                        \/ MapTransaction(c)
                        \/ InsertOrder(c)
  \/ \E t \in Loose : SystemPoolAdd(t)
  \/ \E t \in Txs : RemoveAnyWith(t)
  \/ \E n \in 1..MaxBlocks, txs \in SUBSET Txs, last \in BOOLEAN : Commit(n, txs, last)
  \/ ReportBlock \/ BeginRetain \/ FinishBlock
  \/ \E o \in Orders : RemoveOrder(o)
  \/ \E b \in Bundles : RetainVisit(b)
  \/ \E o \in Orders, error \in Errors : Propose(o, error)
  \/ HearFailure \/ DropPipeline

Spec == Init /\ [][Next]_vars

(***************************************************************************)
(* Properties                                                              *)
(***************************************************************************)

\* report_committed_block removes the orders that had a transaction in the block:
\* an order that holds a transaction of a reported block was inserted when the
\* first block with it was already being reported.
CommittedOrdersAreCollected ==
  \A o \in orders : \A t \in ToSet(transactions(o)) : \A e \in 1..complete :
    /\ t \in blocks[e].txs
    /\ \A d \in 1..(e - 1) : t \notin blocks[d].txs
    => inserted[o].to >= e

\* The last block of the last event that is reported completely.
TipIndex == Max({0} \cup {e \in 1..complete : blocks[e].last})

\* A bundle that was permanently ineligible at a reported block is in the pool only
\* if it was inserted since; at the tip, only if it was judged by an older tip.
IneligibleBundlesAreCollected ==
  \A b \in orders \cap Bundles :
    /\ \A e \in 1..complete : is_permanently_ineligible(BundleOf[b], blocks[e].header)
                            => inserted[b].to >= e
    /\ is_permanently_ineligible(BundleOf[b], tip_header) => inserted[b].from < TipIndex

\* "remove it permanently from the pool so it won't be attempted again" (report.rs):
\* what was removed for a permanent error is proposed by neither pool, until it is
\* inserted again.
RejectedStaysOut == dropped \cap (orders \cup system_pool) = {}
=============================================================================
