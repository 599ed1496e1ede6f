--------------------------- MODULE OrderPoolProofs ---------------------------
(***************************************************************************)
(* The safety of OrderPool for any number of callers, orders and blocks.   *)
(***************************************************************************)
EXTENDS OrderPool, SequenceTheorems, TLAPS

(***************************************************************************)
(* Bundles                                                                 *)
(***************************************************************************)

\* FlashbotsBundle::is_permanently_ineligible says what its name says: it never becomes
\* false again at a block that is not before.
THEOREM IneligibleForever ==
  ASSUME NEW bundle, bundle.max_timestamp \in Int, bundle.block_number \in Int,
         NEW header, header.number \in Int, header.timestamp \in Int,
         NEW later, later.number \in Int, later.timestamp \in Int,
         later.number >= header.number, later.timestamp >= header.timestamp,
         is_permanently_ineligible(bundle, header)
  PROVE  is_permanently_ineligible(bundle, later) /\ ~is_eligible(bundle, later)
BY DEF is_permanently_ineligible, is_eligible, eligibility_at

(***************************************************************************)
(* Types                                                                   *)
(***************************************************************************)

Blocks == [header : {Header(n) : n \in Nat}, txs : SUBSET Txs, last : BOOLEAN]

Calls == [pc : {"idle", "map"}, order : Orders \cup {"none"}, todo : Seq(Txs), since : Nat]

Reports == [pc : {"waiting", "txs", "retain"}, txs : SUBSET Txs, remove : SUBSET Orders,
            visit : SUBSET Bundles]

TypeOK ==
  /\ orders \subseteq Orders
  /\ tx_map \in [Txs -> SUBSET Orders]
  /\ calls \in [Callers -> Calls]
  /\ \A c \in Callers : calls[c].pc = "map" => calls[c].order \in Orders
  /\ blocks \in Seq(Blocks)
  /\ begun \in Nat /\ begun <= Len(blocks)
  /\ maintenance \in Reports
  /\ maintenance.pc # "waiting" => begun > 0
  /\ inserted \in [Orders -> [from : Nat, to : Nat]]

\* The transactions of an order.
LEMMA OrderTransactions ==
  ASSUME NEW o \in Orders
  PROVE  transactions(o) \in Seq(Txs) /\ ToSet(transactions(o)) \subseteq Txs
<1>1. transactions(o) \in Seq(Txs)
  BY PoolConstants DEF transactions, Orders
<1> QED
  BY <1>1 DEF ToSet

\* The pool is empty.
LEMMA InitTypeOK == Init => TypeOK
<1> SUFFICES ASSUME Init PROVE TypeOK
  OBVIOUS
<1>1. Idle \in Calls /\ Idle.pc = "idle"
  BY DEF Idle, Calls
<1>2. Waiting \in Reports /\ Waiting.pc = "waiting"
  BY DEF Waiting, Reports
<1> QED
  BY <1>1, <1>2 DEF Init, TypeOK

\* One step per action of callers, maintenance, chain and listener.
LEMMA NextTypeOK == TypeOK /\ [Next]_vars => TypeOK'
<1> SUFFICES ASSUME TypeOK, [Next]_vars PROVE TypeOK'
  OBVIOUS
<1>1. ASSUME NEW c \in Callers, NEW o \in Orders, begin_insert(c, o)
      PROVE  TypeOK'
  <2>1. complete \in Nat
    BY DEF TypeOK, complete, Reports
  <2>2. transactions(o) \in Seq(Txs)
    BY OrderTransactions
  <2> DEFINE call == [pc |-> "map", order |-> o, todo |-> transactions(o), since |-> complete]
  <2>3. call \in Calls /\ call.pc = "map" /\ call.order = o
    BY <2>1, <2>2 DEF Calls
  <2>4. /\ calls' = [calls EXCEPT ![c] = call]
        /\ UNCHANGED <<poolVars, chainVars, eventVars, historyVars>>
    BY <1>1 DEF begin_insert
  <2> HIDE DEF call
  <2> QED
    BY <2>3, <2>4 DEF TypeOK, poolVars, chainVars, eventVars, historyVars
<1>2. ASSUME NEW c \in Callers, MapTransaction(c)
      PROVE  TypeOK'
  <2>1. /\ calls[c].todo # << >> /\ calls[c].pc = "map" /\ calls[c].order \in Orders
        /\ calls' = [calls EXCEPT ![c].todo = Tail(calls[c].todo)]
        /\ tx_map' = [tx_map EXCEPT ![Head(calls[c].todo)] = @ \cup {calls[c].order}]
        /\ UNCHANGED <<orders, system_pool, chainVars, eventVars, historyVars>>
    BY <1>2 DEF MapTransaction, TypeOK
  <2>2. calls[c] \in Calls /\ calls[c].todo \in Seq(Txs)
    BY DEF TypeOK, Calls
  <2>3. Tail(calls[c].todo) \in Seq(Txs)
    BY <2>1, <2>2, HeadTailProperties
  <2>4. tx_map' \in [Txs -> SUBSET Orders]
    BY <2>1 DEF TypeOK
  <2>5. /\ calls' \in [Callers -> Calls]
        /\ \A d \in Callers : calls'[d].pc = calls[d].pc /\ calls'[d].order = calls[d].order
    BY <2>1, <2>2, <2>3 DEF TypeOK, Calls
  <2> QED
    BY <2>1, <2>4, <2>5 DEF TypeOK, chainVars, eventVars, historyVars
<1>3. ASSUME NEW c \in Callers, InsertOrder(c)
      PROVE  TypeOK'
  <2>1. /\ calls[c].order \in Orders
        /\ orders' = orders \cup {calls[c].order}
        /\ calls' = [calls EXCEPT ![c] = Idle]
        /\ inserted' = [inserted EXCEPT ![calls[c].order] = [from |-> calls[c].since, to |-> begun]]
        /\ UNCHANGED <<tx_map, system_pool, chainVars, eventVars>>
    BY <1>3 DEF InsertOrder, TypeOK
  <2>2. calls[c].since \in Nat
    BY DEF TypeOK, Calls
  <2>3. Idle \in Calls /\ Idle.pc = "idle"
    BY DEF Idle, Calls
  <2>4. inserted' \in [Orders -> [from : Nat, to : Nat]]
    BY <2>1, <2>2 DEF TypeOK
  <2> QED
    BY <2>1, <2>3, <2>4 DEF TypeOK, chainVars, eventVars
<1>4. ASSUME NEW n \in 1..MaxBlocks, NEW txs \in SUBSET Txs, NEW last \in BOOLEAN,
             Commit(n, txs, last)
      PROVE  TypeOK'
  <2> DEFINE block == [header |-> Header(n), txs |-> txs, last |-> last]
  <2>1. /\ blocks' = Append(blocks, block)
        /\ UNCHANGED <<poolVars, begun, maintenance, historyVars, calls>>
    BY <1>4 DEF Commit
  <2>2. block \in Blocks
    BY DEF Blocks
  <2> HIDE DEF block
  <2>3. blocks' \in Seq(Blocks) /\ Len(blocks') = Len(blocks) + 1
    BY <2>1, <2>2, AppendProperties DEF TypeOK
  <2>4. begun' \in Nat /\ begun' <= Len(blocks')
    BY <2>1, <2>3, LenProperties DEF TypeOK
  <2> QED
    BY <2>1, <2>3, <2>4 DEF TypeOK, poolVars, historyVars
<1>5. CASE ReportBlock
  <2>1. /\ begun' = begun + 1
        /\ maintenance' = [Waiting EXCEPT !.pc = "txs", !.txs = blocks[begun + 1].txs]
        /\ UNCHANGED <<poolVars, blocks, historyVars, calls>>
    BY <1>5 DEF ReportBlock
  <2>2. begun + 1 \in 1..Len(blocks)
    <3>1. PICK i \in (begun + 1)..Len(blocks) : blocks[i].last
      BY <1>5 DEF ReportBlock, EventReady
    <3>2. Len(blocks) \in Nat /\ begun \in Nat
      BY LenProperties DEF TypeOK
    <3> QED
      BY <3>1, <3>2
  <2>3. blocks[begun + 1].txs \in SUBSET Txs
    <3>1. blocks[begun + 1] \in Blocks
      BY <2>2, ElementOfSeq DEF TypeOK
    <3> QED
      BY <3>1 DEF Blocks
  <2>4. maintenance' \in Reports
    BY <2>1, <2>3 DEF Waiting, Reports
  <2>5. begun' \in Nat /\ begun' <= Len(blocks) /\ begun' > 0
    BY <2>1, <2>2 DEF TypeOK
  <2> QED
    BY <2>1, <2>4, <2>5 DEF TypeOK, poolVars, historyVars
<1>6. ASSUME NEW t \in Txs, RemoveAnyWith(t)
      PROVE  TypeOK'
  <2>1. /\ maintenance.pc = "txs"
        /\ tx_map' = [tx_map EXCEPT ![t] = {}]
        /\ maintenance' = [maintenance EXCEPT !.txs = @ \ {t}, !.remove = tx_map[t]]
        /\ UNCHANGED <<orders, blocks, begun, historyVars, calls>>
    BY <1>6 DEF RemoveAnyWith
  <2>2. maintenance' \in Reports /\ maintenance'.pc = "txs"
    BY <2>1 DEF TypeOK, Reports
  <2> QED
    BY <2>1, <2>2 DEF TypeOK, historyVars
<1>7. ASSUME NEW o \in Orders, RemoveOrder(o)
      PROVE  TypeOK'
  <2>1. /\ maintenance.pc = "txs"
        /\ orders' \subseteq orders
        /\ maintenance' = [maintenance EXCEPT !.remove = @ \ {o}]
        /\ UNCHANGED <<tx_map, blocks, begun, historyVars, calls>>
    BY <1>7 DEF RemoveOrder, remove
  <2>2. maintenance' \in Reports /\ maintenance'.pc = "txs"
    BY <2>1 DEF TypeOK, Reports
  <2> QED
    BY <2>1, <2>2 DEF TypeOK, historyVars
<1>8. CASE BeginRetain
  <2>1. maintenance' \in Reports /\ begun > 0
    BY <1>8 DEF BeginRetain, TypeOK, Reports
  <2> QED
    BY <2>1, <1>8 DEF BeginRetain, TypeOK, poolVars, historyVars
<1>9. ASSUME NEW b \in Bundles, RetainVisit(b)
      PROVE  TypeOK'
  <2>1. maintenance' \in Reports /\ begun > 0
    BY <1>9 DEF RetainVisit, TypeOK, Reports
  <2>2. orders' \subseteq orders
    BY <1>9 DEF RetainVisit
  <2> QED
    BY <2>1, <2>2, <1>9 DEF RetainVisit, TypeOK, historyVars
<1>10. CASE FinishBlock
  <2>1. Waiting \in Reports /\ Waiting.pc = "waiting"
    BY DEF Waiting, Reports
  <2> QED
    BY <2>1, <1>10 DEF FinishBlock, TypeOK, poolVars, historyVars
<1>11. CASE HearFailure
  <2>1. orders' \subseteq orders /\ UNCHANGED <<tx_map, chainVars, inserted, calls>>
    BY <1>11 DEF HearFailure, report_execution_error, remove
  <2> QED
    BY <2>1 DEF TypeOK, chainVars
<1>12. CASE \/ \E t \in Loose : SystemPoolAdd(t)
            \/ \E o \in Orders, error \in Errors : Propose(o, error)
            \/ DropPipeline
  <2>1. UNCHANGED <<orders, tx_map, chainVars, inserted, calls>>
    BY <1>12 DEF SystemPoolAdd, Propose, DropPipeline, poolVars, historyVars
  <2> QED
    BY <2>1 DEF TypeOK, chainVars
<1>13. CASE UNCHANGED vars
  BY <1>13 DEF vars, TypeOK, poolVars, chainVars, historyVars
<1>14. ASSUME NEW c \in Callers,
              (\E b \in Bundles : SendBundle(c, b)) \/ (\E t \in Loose : InsertTransaction(c, t))
       PROVE  TypeOK'
  BY <1>1, <1>14 DEF SendBundle, InsertTransaction, Orders
<1> QED
  BY <1>2, <1>3, <1>4, <1>5, <1>6, <1>7, <1>8, <1>9, <1>10, <1>11, <1>12, <1>13, <1>14 DEF Next

\* Blocks that are committed stay as they are, and are reported one after the other.
LEMMA BlocksKept ==
  ASSUME TypeOK, [Next]_vars
  PROVE  /\ \A e \in 1..begun : blocks'[e] = blocks[e]
         /\ \A e \in 1..Len(blocks) : blocks'[e] = blocks[e]
         /\ begun' \in {begun, begun + 1}
         /\ 1..begun \subseteq 1..begun'
         /\ Len(blocks) \in Nat /\ begun \in Nat /\ begun <= Len(blocks)
<1>1. Len(blocks) \in Nat /\ begun \in Nat /\ begun <= Len(blocks)
  BY LenProperties DEF TypeOK
<1>2. \A e \in 1..Len(blocks) : blocks'[e] = blocks[e]
  <2>1. ASSUME NEW n, NEW txs, NEW last, Commit(n, txs, last)
        PROVE  \A e \in 1..Len(blocks) : blocks'[e] = blocks[e]
    BY <2>1 DEF Commit, TypeOK
  <2>2. \/ \E n \in 1..MaxBlocks, txs \in SUBSET Txs, last \in BOOLEAN : Commit(n, txs, last)
        \/ UNCHANGED blocks
    BY DEF Next, vars, chainVars, SendBundle, InsertTransaction, begin_insert, MapTransaction,
         InsertOrder, SystemPoolAdd, RemoveAnyWith, ReportBlock, BeginRetain, FinishBlock,
         RemoveOrder, RetainVisit, Propose, HearFailure, DropPipeline
  <2> QED
    BY <2>1, <2>2
<1>3. begun' \in {begun, begun + 1}
  BY DEF Next, vars, chainVars, SendBundle, InsertTransaction, begin_insert, MapTransaction,
       InsertOrder, SystemPoolAdd, RemoveAnyWith, Commit, ReportBlock, BeginRetain, FinishBlock,
       RemoveOrder, RetainVisit, Propose, HearFailure, DropPipeline
<1> QED
  BY <1>1, <1>2, <1>3

(***************************************************************************)
(* Orders with a transaction of a block                                    *)
(***************************************************************************)

\* The order is listed for the transaction, or a block has had it already.
indexed(o, t) == o \in tx_map[t] \/ \E d \in 1..begun : t \in blocks[d].txs

IndexComplete ==
  /\ \A o \in orders : \A t \in ToSet(transactions(o)) : indexed(o, t)
  /\ \A c \in Callers : calls[c].pc = "map" =>
       \A t \in ToSet(transactions(calls[c].order)) :
         t \in ToSet(calls[c].todo) \/ indexed(calls[c].order, t)
  /\ maintenance.pc # "waiting" => maintenance.txs \subseteq blocks[begun].txs

\* No order is in the pool.
LEMMA InitIndexComplete == Init => IndexComplete
BY DEF Init, IndexComplete, Idle, Waiting

\* Being listed is for ever, in this sense.
LEMMA StaysIndexed ==
  ASSUME TypeOK, IndexComplete, [Next]_vars,
         NEW o \in Orders, NEW t \in Txs, indexed(o, t)
  PROVE  indexed(o, t)'
<1>1. CASE \E d \in 1..begun : t \in blocks[d].txs
  BY <1>1, BlocksKept DEF indexed
<1>2. CASE o \in tx_map[t] /\ o \in tx_map'[t]
  BY <1>2 DEF indexed
<1>3. CASE o \in tx_map[t] /\ o \notin tx_map'[t]
  <2>1. RemoveAnyWith(t)
    <3>1. ASSUME NEW c \in Callers, MapTransaction(c)
          PROVE  tx_map[t] \subseteq tx_map'[t]
      BY <3>1 DEF MapTransaction, TypeOK
    <3>2. ASSUME NEW u \in Txs, RemoveAnyWith(u)
          PROVE  u = t
      BY <3>2, <1>3 DEF RemoveAnyWith, TypeOK
    <3>3. \/ \E c \in Callers : MapTransaction(c)
          \/ \E u \in Txs : RemoveAnyWith(u)
          \/ UNCHANGED tx_map
      BY DEF Next, vars, poolVars, SendBundle, InsertTransaction, begin_insert,
           InsertOrder, SystemPoolAdd, Commit, ReportBlock, BeginRetain, FinishBlock,
           RemoveOrder, RetainVisit, Propose, HearFailure, DropPipeline
    <3> QED
      BY <3>1, <3>2, <3>3, <1>3
  <2>2. t \in blocks[begun].txs /\ begun' = begun /\ begun > 0
    BY <2>1 DEF RemoveAnyWith, IndexComplete, TypeOK
  <2>3. begun \in 1..begun
    BY <2>2, BlocksKept
  <2> QED
    BY <2>2, <2>3, BlocksKept DEF indexed
<1> QED
  BY <1>1, <1>2, <1>3 DEF indexed

\* insert lists an order for all its transactions before it is in the pool.
LEMMA NextIndexComplete ==
  ASSUME TypeOK, TypeOK', IndexComplete, [Next]_vars
  PROVE  IndexComplete'
<1>1. ASSUME NEW o \in orders', NEW t \in ToSet(transactions(o))
      PROVE  indexed(o, t)'
  <2>1. o \in Orders /\ t \in Txs
    BY OrderTransactions DEF TypeOK
  <2>2. CASE o \in orders
    BY <2>1, <2>2, StaysIndexed DEF IndexComplete
  <2>3. CASE o \notin orders
    <3>1. PICK c \in Callers : InsertOrder(c)
      BY <2>3 DEF Next, vars, poolVars, SendBundle, InsertTransaction, begin_insert,
           MapTransaction, SystemPoolAdd, RemoveAnyWith, Commit, ReportBlock, BeginRetain,
           FinishBlock, RemoveOrder, RetainVisit, Propose, HearFailure, DropPipeline,
           report_execution_error, remove
    <3>2. o = calls[c].order /\ calls[c].pc = "map" /\ calls[c].todo = << >>
      BY <2>3, <3>1 DEF InsertOrder
    <3>3. indexed(o, t)
      BY <3>2 DEF IndexComplete, ToSet
    <3> QED
      BY <2>1, <3>3, StaysIndexed
  <2> QED
    BY <2>2, <2>3
<1>2. ASSUME NEW c \in Callers, NEW o \in Orders, calls'[c].pc = "map", calls'[c].order = o,
             NEW t \in ToSet(transactions(o))
      PROVE  t \in ToSet(calls'[c].todo) \/ indexed(o, t)'
  <2>1. t \in Txs
    BY <1>2, OrderTransactions
  <2>2. CASE calls'[c] = calls[c]
    BY <1>2, <2>1, <2>2, StaysIndexed DEF IndexComplete
  <2>3. CASE calls'[c].todo = transactions(o)
    BY <1>2, <2>3
  <2>4. CASE MapTransaction(c)
    <3>1. /\ calls[c].pc = "map" /\ calls[c].todo # << >>
          /\ calls'[c].todo = Tail(calls[c].todo) /\ calls[c].order = o
          /\ tx_map' = [tx_map EXCEPT ![Head(calls[c].todo)] = @ \cup {calls[c].order}]
          /\ calls[c].todo \in Seq(Txs)
      BY <1>2, <2>4 DEF MapTransaction, TypeOK, Calls
    <3>2. CASE t \in ToSet(calls[c].todo)
      <4>1. PICK i \in DOMAIN calls[c].todo : t = calls[c].todo[i]
        BY <3>2 DEF ToSet
      <4>2. CASE i = 1
        BY <2>1, <3>1, <4>1, <4>2 DEF TypeOK, indexed
      <4>3. CASE i # 1
        <5>1. i - 1 \in DOMAIN Tail(calls[c].todo) /\ Tail(calls[c].todo)[i - 1] = t
          BY <3>1, <4>1, <4>3
        <5> QED
          BY <3>1, <5>1 DEF ToSet
      <4> QED
        BY <4>2, <4>3
    <3>3. CASE t \notin ToSet(calls[c].todo)
      BY <1>2, <2>1, <3>1, <3>3, StaysIndexed DEF IndexComplete
    <3> QED
      BY <3>2, <3>3
  <2>5. \/ calls'[c] = calls[c]
        \/ MapTransaction(c)
        \/ calls'[c].todo = transactions(o)
    <3>1. ASSUME NEW d \in Callers, NEW p, begin_insert(d, p)
          PROVE  calls'[c] = calls[c] \/ calls'[c].todo = transactions(o)
      BY <1>2, <3>1 DEF begin_insert, TypeOK
    <3>2. ASSUME NEW d \in Callers, MapTransaction(d)
          PROVE  calls'[c] = calls[c] \/ d = c
      BY <3>2 DEF MapTransaction, TypeOK
    <3>3. ASSUME NEW d \in Callers, InsertOrder(d)
          PROVE  calls'[c] = calls[c]
      BY <3>3, <1>2 DEF InsertOrder, TypeOK, Idle
    <3>4. \/ \E d \in Callers, p \in Orders : begin_insert(d, p)
          \/ \E d \in Callers : MapTransaction(d) \/ InsertOrder(d)
          \/ UNCHANGED calls
      BY DEF Next, vars, SendBundle, InsertTransaction, Orders,
           SystemPoolAdd, RemoveAnyWith, Commit, ReportBlock, BeginRetain, FinishBlock,
           RemoveOrder, RetainVisit, Propose, HearFailure, DropPipeline
    <3> QED
      BY <3>1, <3>2, <3>3, <3>4
  <2> QED
    BY <2>2, <2>3, <2>4, <2>5
<1>3. ASSUME maintenance'.pc # "waiting"
      PROVE  maintenance'.txs \subseteq blocks'[begun'].txs
  <2>1. CASE ReportBlock
    BY <2>1 DEF ReportBlock, Waiting
  <2>2. CASE ~ReportBlock
    <3>1. /\ begun' = begun
          /\ \/ maintenance' = maintenance
             \/ \E u \in Txs : RemoveAnyWith(u)
             \/ \E o \in Orders : RemoveOrder(o)
             \/ BeginRetain
             \/ \E b \in Bundles : RetainVisit(b)
             \/ FinishBlock
      BY <2>2 DEF Next, vars, chainVars, SendBundle, InsertTransaction, begin_insert,
           MapTransaction, InsertOrder, SystemPoolAdd, RemoveAnyWith, Commit, BeginRetain,
           FinishBlock, RemoveOrder, RetainVisit, Propose, HearFailure, DropPipeline
    <3>2. maintenance.pc # "waiting" /\ maintenance'.txs \subseteq maintenance.txs
      <4>1. CASE maintenance' = maintenance
        BY <1>3, <4>1
      <4>2. ASSUME NEW u \in Txs, RemoveAnyWith(u)
            PROVE  maintenance.pc # "waiting" /\ maintenance'.txs \subseteq maintenance.txs
        BY <4>2 DEF RemoveAnyWith, TypeOK, Reports
      <4>3. ASSUME NEW o \in Orders, RemoveOrder(o)
            PROVE  maintenance.pc # "waiting" /\ maintenance'.txs \subseteq maintenance.txs
        BY <4>3 DEF RemoveOrder, TypeOK, Reports
      <4>4. CASE BeginRetain
        BY <4>4 DEF BeginRetain, TypeOK, Reports
      <4>5. ASSUME NEW b \in Bundles, RetainVisit(b)
            PROVE  maintenance.pc # "waiting" /\ maintenance'.txs \subseteq maintenance.txs
        BY <4>5 DEF RetainVisit, TypeOK, Reports
      <4>6. CASE FinishBlock
        BY <1>3, <4>6 DEF FinishBlock, Waiting
      <4> QED
        BY <3>1, <4>1, <4>2, <4>3, <4>4, <4>5, <4>6
    <3>3. begun \in 1..begun
      BY <3>2, BlocksKept DEF TypeOK
    <3> QED
      BY <3>1, <3>2, <3>3, BlocksKept DEF IndexComplete
  <2> QED
    BY <2>1, <2>2
<1>4. \A c \in Callers : calls'[c].pc = "map" => calls'[c].order \in Orders
  BY DEF TypeOK
<1> QED
  BY <1>1, <1>2, <1>3, <1>4 DEF IndexComplete, indexed

\* An order of the pool has been there before, or is inserted now.
LEMMA OrdersOfAStep ==
  ASSUME TypeOK, [Next]_vars, NEW o \in orders'
  PROVE  \/ o \in orders /\ inserted'[o] = inserted[o]
         \/ \E c \in Callers : /\ calls[c].pc = "map" /\ calls[c].order = o
                               /\ inserted'[o] = [from |-> calls[c].since, to |-> begun]
                               /\ UNCHANGED chainVars
<1>1. ASSUME NEW c \in Callers, InsertOrder(c)
      PROVE  \/ o \in orders /\ inserted'[o] = inserted[o]
             \/ /\ calls[c].pc = "map" /\ calls[c].order = o
                /\ inserted'[o] = [from |-> calls[c].since, to |-> begun]
                /\ UNCHANGED chainVars
  BY <1>1 DEF InsertOrder, TypeOK
<1>2. \/ \E c \in Callers : InsertOrder(c)
      \/ orders' \subseteq orders /\ UNCHANGED inserted
  BY DEF Next, vars, poolVars, historyVars, SendBundle, InsertTransaction, begin_insert,
       MapTransaction, SystemPoolAdd, RemoveAnyWith, Commit, ReportBlock, BeginRetain,
       FinishBlock, RemoveOrder, RetainVisit, Propose, HearFailure, DropPipeline,
       report_execution_error, remove
<1> QED
  BY <1>1, <1>2

\* The maintenance loop and the map of transactions.
LEMMA LoopOfAStep ==
  ASSUME [Next]_vars
  PROVE  \/ UNCHANGED <<begun, maintenance, tx_map>>
         \/ \E c \in Callers : MapTransaction(c)
         \/ \E t \in Txs : RemoveAnyWith(t)
         \/ \E o \in Orders : RemoveOrder(o)
         \/ \E b \in Bundles : RetainVisit(b)
         \/ ReportBlock \/ BeginRetain \/ FinishBlock
BY DEF Next, vars, poolVars, chainVars, SendBundle, InsertTransaction, begin_insert, InsertOrder,
     SystemPoolAdd, Commit, Propose, HearFailure, DropPipeline

\* Block e is the first with transaction t.
first(t, e) == t \in blocks[e].txs /\ \A d \in 1..(e - 1) : t \notin blocks[d].txs

\* Orders with a transaction of the current block are about to be removed.
Collecting ==
  \A o \in orders : \A t \in ToSet(transactions(o)) : \A e \in 1..begun : first(t, e) =>
    \/ inserted[o].to >= e
    \/ /\ e = begun
       /\ maintenance.pc = "txs"
       /\ (t \in maintenance.txs /\ o \in tx_map[t]) \/ o \in maintenance.remove

\* A report visits all transactions of its block before it is over.
LEMMA NextCollecting ==
  ASSUME TypeOK, IndexComplete, Collecting, [Next]_vars
  PROVE  Collecting'
<1> SUFFICES ASSUME NEW o \in orders', NEW t \in ToSet(transactions(o)), NEW e \in 1..begun',
                    first(t, e)'
             PROVE  \/ inserted'[o].to >= e
                    \/ /\ e = begun'
                       /\ maintenance'.pc = "txs"
                       /\ (t \in maintenance'.txs /\ o \in tx_map'[t]) \/ o \in maintenance'.remove
  BY DEF Collecting
<1>1. CASE \E c \in Callers : /\ calls[c].pc = "map" /\ calls[c].order = o
                              /\ inserted'[o] = [from |-> calls[c].since, to |-> begun]
                              /\ UNCHANGED chainVars
  <2>1. inserted'[o].to = begun /\ begun' = begun
    BY <1>1 DEF chainVars
  <2> QED
    BY <2>1, BlocksKept
<1>2. CASE o \in orders /\ inserted'[o] = inserted[o]
  <2>1. o \in Orders /\ t \in Txs
    BY <1>2, OrderTransactions DEF TypeOK
  <2>2. CASE e \in 1..begun
    <3>1. first(t, e)
      <4>1. 1..(e - 1) \subseteq 1..begun
        BY <2>2, BlocksKept
      <4> QED
        BY <2>2, <4>1, BlocksKept DEF first
    <3>2. CASE inserted[o].to >= e
      BY <1>2, <3>2
    <3>3. CASE /\ e = begun
               /\ maintenance.pc = "txs"
               /\ (t \in maintenance.txs /\ o \in tx_map[t]) \/ o \in maintenance.remove
      <4>1. CASE UNCHANGED <<begun, maintenance, tx_map>>
        BY <3>3, <4>1
      <4>2. ASSUME NEW c \in Callers, MapTransaction(c)
            PROVE  UNCHANGED <<begun, maintenance>> /\ tx_map[t] \subseteq tx_map'[t]
        BY <2>1, <4>2 DEF MapTransaction, TypeOK, chainVars
      <4>3. ASSUME NEW u \in Txs, RemoveAnyWith(u)
            PROVE  /\ e = begun'
                   /\ maintenance'.pc = "txs"
                   /\ (t \in maintenance'.txs /\ o \in tx_map'[t]) \/ o \in maintenance'.remove
        BY <2>1, <3>3, <4>3 DEF RemoveAnyWith, TypeOK, Reports
      <4>4. ASSUME NEW p \in Orders, RemoveOrder(p)
            PROVE  /\ e = begun'
                   /\ maintenance'.pc = "txs"
                   /\ (t \in maintenance'.txs /\ o \in tx_map'[t]) \/ o \in maintenance'.remove
        BY <3>3, <4>4 DEF RemoveOrder, remove, TypeOK, Reports
      <4>5. ~BeginRetain /\ ~FinishBlock /\ ~ReportBlock /\ \A q \in Bundles : ~RetainVisit(q)
        BY <3>3 DEF BeginRetain, FinishBlock, ReportBlock, RetainVisit
      <4> QED
        BY <3>3, <4>1, <4>2, <4>3, <4>4, <4>5, LoopOfAStep
    <3> QED
      BY <1>2, <2>2, <3>1, <3>2, <3>3 DEF Collecting
  <2>3. CASE e \notin 1..begun
    <3>1. ReportBlock /\ e = begun + 1 /\ begun' = begun + 1
      <4>1. begun' = begun + 1 /\ e = begun + 1
        BY <2>3, BlocksKept
      <4>2. begun' # begun
        BY <4>1, BlocksKept
      <4> QED
        BY <4>1, <4>2, LoopOfAStep DEF MapTransaction, RemoveAnyWith, RemoveOrder, RetainVisit,
             BeginRetain, FinishBlock, chainVars
    <3>2. \A d \in 1..begun : t \notin blocks[d].txs
      <4>1. 1..(e - 1) = 1..begun
        BY <3>1, BlocksKept
      <4> QED
        BY <4>1, BlocksKept DEF first
    <3>3. o \in tx_map[t]
      BY <1>2, <3>2 DEF IndexComplete, indexed
    <3>4. maintenance'.pc = "txs" /\ maintenance'.txs = blocks[e].txs /\ UNCHANGED <<blocks, tx_map>>
      BY <3>1 DEF ReportBlock, Waiting, poolVars
    <3> QED
      BY <3>1, <3>3, <3>4 DEF first
  <2> QED
    BY <2>2, <2>3
<1> QED
  BY <1>1, <1>2, OrdersOfAStep
(***************************************************************************)
(* Bundles that have become permanently ineligible                         *)
(***************************************************************************)

\* Bundles that are ineligible at the current block are about to be visited.
Judging ==
  \A b \in orders \cap Bundles : \A e \in 1..begun :
    is_permanently_ineligible(BundleOf[b], blocks[e].header) =>
      \/ inserted[b].to >= e
      \/ e = begun /\ maintenance.pc = "txs"
      \/ e = begun /\ maintenance.pc = "retain" /\ b \in maintenance.visit

\* A report visits all bundles that were there when it began.
LEMMA NextJudging ==
  ASSUME TypeOK, Judging, [Next]_vars
  PROVE  Judging'
<1> SUFFICES ASSUME NEW b \in Bundles, b \in orders', NEW e \in 1..begun',
                    is_permanently_ineligible(BundleOf[b], blocks'[e].header)
             PROVE  \/ inserted'[b].to >= e
                    \/ e = begun' /\ maintenance'.pc = "txs"
                    \/ e = begun' /\ maintenance'.pc = "retain" /\ b \in maintenance'.visit
  BY DEF Judging
<1>1. CASE \E c \in Callers : /\ calls[c].pc = "map" /\ calls[c].order = b
                              /\ inserted'[b] = [from |-> calls[c].since, to |-> begun]
                              /\ UNCHANGED chainVars
  <2>1. inserted'[b].to = begun /\ begun' = begun
    BY <1>1 DEF chainVars
  <2> QED
    BY <2>1, BlocksKept
<1>2. CASE b \in orders /\ inserted'[b] = inserted[b]
  <2>1. CASE e \in 1..begun
    <3>1. is_permanently_ineligible(BundleOf[b], blocks[e].header)
      BY <2>1, BlocksKept
    <3>2. CASE inserted[b].to >= e
      BY <1>2, <3>2
    <3>3. CASE e = begun /\ maintenance.pc = "txs"
      <4>1. e = begun' /\ maintenance'.pc \in {"txs", "retain"}
            /\ (maintenance'.pc = "retain" => maintenance'.visit = Bundles)
        BY <3>3, LoopOfAStep DEF MapTransaction, RemoveAnyWith, RemoveOrder, RetainVisit,
             ReportBlock, BeginRetain, FinishBlock, chainVars, TypeOK, Reports
      <4> QED
        BY <4>1
    <3>4. CASE e = begun /\ maintenance.pc = "retain" /\ b \in maintenance.visit
      <4>1. ASSUME NEW q \in Bundles, RetainVisit(q)
            PROVE  q # b /\ b \in maintenance'.visit /\ maintenance'.pc = "retain" /\ begun' = begun
        BY <3>1, <3>4, <4>1 DEF RetainVisit, TypeOK, Reports
      <4>2. (\E q \in Bundles : RetainVisit(q)) \/ UNCHANGED <<begun, maintenance>>
        BY <3>4, LoopOfAStep DEF MapTransaction, RemoveAnyWith, RemoveOrder,
             ReportBlock, BeginRetain, FinishBlock, chainVars
      <4> QED
        BY <3>4, <4>1, <4>2
    <3> QED
      BY <1>2, <2>1, <3>1, <3>2, <3>3, <3>4 DEF Judging
  <2>2. CASE e \notin 1..begun
    <3>1. begun' = begun + 1 /\ e = begun + 1 /\ begun' # begun
      BY <2>2, BlocksKept
    <3>2. ReportBlock
      BY <3>1, LoopOfAStep DEF MapTransaction, RemoveAnyWith, RemoveOrder, RetainVisit,
           BeginRetain, FinishBlock, chainVars
    <3> QED
      BY <3>1, <3>2 DEF ReportBlock, Waiting
  <2> QED
    BY <2>1, <2>2
<1> QED
  BY <1>1, <1>2, OrdersOfAStep

\* Of the first n blocks, block m is the last that ends an event; 0 if there is none.
IsTip(m, n) ==
  /\ m <= n
  /\ m # 0 => blocks[m].last
  /\ \A e \in (m + 1)..n : ~blocks[e].last

TipHeader(m) == IF m = 0 THEN Header(0) ELSE blocks[m].header

\* The bundle could be sent when n blocks were reported.
accepted(b, n) ==
  \E m \in Nat : IsTip(m, n) /\ ~is_permanently_ineligible(BundleOf[b], TipHeader(m))

\* What is in the pool, or on its way, was judged by the tip of its time.
Judged ==
  /\ \E m \in Nat : IsTip(m, complete) /\ tip_header = TipHeader(m)
  /\ \A c \in Callers : calls[c].pc = "map" =>
       /\ calls[c].since <= complete
       /\ calls[c].order \in Bundles => accepted(calls[c].order, calls[c].since)
  /\ \A b \in orders \cap Bundles :
       inserted[b].from <= complete /\ accepted(b, inserted[b].from)

\* Only FinishBlock completes a block.
LEMMA CompleteOfAStep ==
  ASSUME TypeOK, TypeOK', [Next]_vars
  PROVE  /\ complete \in Nat /\ complete <= Len(blocks) /\ complete' \in Nat
         /\ \/ FinishBlock /\ complete' = complete + 1 /\ begun = complete + 1
            \/ complete' = complete /\ tip_header' = tip_header
<1>1. complete \in Nat /\ complete <= Len(blocks) /\ complete' \in Nat
  <2>1. begun \in Nat /\ begun' \in Nat /\ Len(blocks) \in Nat /\ begun <= Len(blocks)
    BY LenProperties DEF TypeOK
  <2>2. (maintenance.pc # "waiting" => begun > 0) /\ (maintenance'.pc # "waiting" => begun' > 0)
    BY DEF TypeOK
  <2>3. complete \in Nat /\ complete <= begun
    BY <2>1, <2>2 DEF complete
  <2>4. complete' \in Nat
    <3>1. complete' = IF maintenance'.pc = "waiting" THEN begun' ELSE begun' - 1
      BY DEF complete
    <3>2. CASE maintenance'.pc = "waiting"
      BY <2>1, <3>1, <3>2
    <3>3. CASE maintenance'.pc # "waiting"
      <4>1. begun' > 0 /\ complete' = begun' - 1
        BY <2>2, <3>1, <3>3
      <4>2. \A n \in Nat : n > 0 => n - 1 \in Nat
        OBVIOUS
      <4> QED
        BY <2>1, <4>1, <4>2
    <3> QED
      BY <3>2, <3>3
  <2> QED
    BY <2>1, <2>3, <2>4
<1>2. CASE FinishBlock
  <2>1. maintenance.pc = "retain" /\ maintenance'.pc = "waiting" /\ begun' = begun /\ begun \in Nat
    BY <1>2 DEF FinishBlock, Waiting, TypeOK
  <2> QED
    BY <1>1, <1>2, <2>1 DEF complete
<1>3. CASE ReportBlock
  <2>1. /\ maintenance.pc = "waiting" /\ maintenance'.pc = "txs" /\ begun' = begun + 1
        /\ begun \in Nat /\ tip_header' = tip_header
    BY <1>3 DEF ReportBlock, Waiting, TypeOK
  <2> QED
    BY <1>1, <2>1 DEF complete
<1>4. CASE ~FinishBlock /\ ~ReportBlock
  <2>1. tip_header' = tip_header /\ begun' = begun
    BY <1>4 DEF Next, vars, poolVars, chainVars, SendBundle, InsertTransaction, begin_insert,
         MapTransaction, InsertOrder, SystemPoolAdd, RemoveAnyWith, Commit, BeginRetain,
         RemoveOrder, RetainVisit, Propose, HearFailure, DropPipeline
  <2>2. (maintenance'.pc = "waiting") = (maintenance.pc = "waiting")
    BY <1>4, LoopOfAStep DEF MapTransaction, RemoveAnyWith, RemoveOrder, RetainVisit,
         BeginRetain, chainVars, TypeOK, Reports
  <2> QED
    BY <1>1, <2>1, <2>2 DEF complete
<1> QED
  BY <1>1, <1>2, <1>3, <1>4

\* The tip of a moment stays what it was.
LEMMA TipsKept ==
  ASSUME TypeOK, [Next]_vars, NEW n \in Nat, n <= Len(blocks), NEW m \in Nat, IsTip(m, n)
  PROVE  IsTip(m, n)' /\ TipHeader(m)' = TipHeader(m)
<1>1. \A e \in Nat : e <= n => e = 0 \/ blocks'[e] = blocks[e]
  <2>1. \A e \in Nat : e <= n => e = 0 \/ e \in 1..Len(blocks)
    BY LenProperties DEF TypeOK
  <2> QED
    BY <2>1, BlocksKept
<1>2. m = 0 \/ blocks'[m] = blocks[m]
  BY <1>1 DEF IsTip
<1>3. \A e \in (m + 1)..n : blocks'[e] = blocks[e]
  <2>1. \A e \in (m + 1)..n : e \in Nat /\ e <= n /\ e # 0
    OBVIOUS
  <2> QED
    BY <1>1, <2>1
<1> QED
  BY <1>2, <1>3 DEF IsTip, TipHeader

\* What a tip of its time has accepted stays accepted.
LEMMA AcceptedKept ==
  ASSUME TypeOK, [Next]_vars, NEW n \in Nat, n <= Len(blocks), NEW b, accepted(b, n)
  PROVE  accepted(b, n)'
<1>1. PICK m \in Nat : IsTip(m, n) /\ ~is_permanently_ineligible(BundleOf[b], TipHeader(m))
  BY DEF accepted
<1>2. IsTip(m, n)' /\ TipHeader(m)' = TipHeader(m)
  BY <1>1, TipsKept
<1> QED
  BY <1>1, <1>2 DEF accepted

\* send_bundle reads the tip header once, and the header follows the reports.
LEMMA NextJudged ==
  ASSUME TypeOK, TypeOK', Judged, [Next]_vars
  PROVE  Judged'
<1>1. complete \in Nat /\ complete <= Len(blocks) /\ complete' \in Nat /\ complete <= complete'
  BY CompleteOfAStep
<1>2. PICK m \in Nat : IsTip(m, complete) /\ tip_header = TipHeader(m)
  BY DEF Judged
<1>3. \E k \in Nat : IsTip(k, complete)' /\ tip_header' = TipHeader(k)'
  <2>1. PICK n \in Nat : n = complete
    BY <1>1
  <2>2. IsTip(m, n)' /\ TipHeader(m)' = TipHeader(m)
    BY <1>1, <1>2, <2>1, TipsKept
  <2>3. CASE complete' = complete /\ tip_header' = tip_header
    BY <1>2, <2>1, <2>2, <2>3 DEF IsTip
  <2>4. CASE FinishBlock /\ complete' = complete + 1 /\ begun = complete + 1
    <3>1. blocks' = blocks
      BY <2>4 DEF FinishBlock
    <3>2. CASE blocks[begun].last
      <4>1. PICK k \in Nat : k = begun
        BY DEF TypeOK
      <4>2. tip_header' = TipHeader(k)'
        BY <1>1, <2>4, <3>1, <3>2, <4>1 DEF FinishBlock, TipHeader
      <4>3. k <= complete' /\ (k + 1)..complete' = {} /\ blocks'[k].last
        BY <1>1, <2>4, <3>1, <3>2, <4>1
      <4> QED
        BY <4>2, <4>3 DEF IsTip
    <3>3. CASE ~blocks[begun].last
      <4>1. tip_header' = TipHeader(m)'
        BY <1>2, <2>2, <2>4, <3>3 DEF FinishBlock
      <4>2. /\ m <= n /\ (m # 0 => blocks[m].last)
            /\ \A e \in (m + 1)..n : ~blocks[e].last
        BY <1>2, <2>1 DEF IsTip
      <4>3. complete' = n + 1 /\ begun = n + 1
        BY <2>1, <2>4
      <4>4. \A e \in (m + 1)..(n + 1) : ~blocks[e].last
        <5>1. \A e \in (m + 1)..(n + 1) : e = n + 1 \/ e \in (m + 1)..n
          OBVIOUS
        <5> QED
          BY <3>3, <4>2, <4>3, <5>1
      <4>5. m <= n + 1
        BY <4>2
      <4> QED
        BY <3>1, <4>1, <4>2, <4>3, <4>4, <4>5 DEF IsTip
    <3> QED
      BY <3>2, <3>3
  <2> QED
    BY <2>3, <2>4, CompleteOfAStep
<1>4. ASSUME NEW c \in Callers, calls'[c].pc = "map",
             NEW o \in Orders, calls'[c].order = o, NEW n \in Nat, calls'[c].since = n
      PROVE  n <= complete' /\ (o \in Bundles => accepted(o, n)')
  <2>1. CASE /\ calls[c].pc = "map" /\ calls[c].order = o /\ calls[c].since = n
    <3>1. n <= complete /\ (o \in Bundles => accepted(o, n))
      BY <2>1 DEF Judged
    <3> QED
      BY <1>1, <3>1, AcceptedKept
  <2>2. CASE /\ n = complete
             /\ o \in Bundles => ~is_permanently_ineligible(BundleOf[o], tip_header)
    <3>1. o \in Bundles => accepted(o, n)
      BY <1>2, <2>2 DEF accepted
    <3> QED
      BY <1>1, <2>2, <3>1, AcceptedKept
  <2>3. \/ calls[c].pc = "map" /\ calls[c].order = o /\ calls[c].since = n
        \/ /\ n = complete
           /\ o \in Bundles => ~is_permanently_ineligible(BundleOf[o], tip_header)
    <3>1. ASSUME NEW d \in Callers, NEW p, begin_insert(d, p)
          PROVE  calls'[c] = calls[c] \/ (p = o /\ n = complete)
      BY <1>4, <3>1 DEF begin_insert, TypeOK
    <3>2. ASSUME NEW d \in Callers, MapTransaction(d)
          PROVE  calls[c].pc = "map" /\ calls[c].order = o /\ calls[c].since = n
      BY <1>4, <3>2, ZenonT(40) DEF MapTransaction, TypeOK, Calls
    <3>3. ASSUME NEW d \in Callers, InsertOrder(d)
          PROVE  calls'[c] = calls[c]
      BY <3>3, <1>4 DEF InsertOrder, TypeOK, Idle
    <3>4. \/ \E d \in Callers, p \in Bundles :
               /\ begin_insert(d, p)
               /\ ~is_permanently_ineligible(BundleOf[p], tip_header)
          \/ \E d \in Callers, p \in Loose : begin_insert(d, p)
          \/ \E d \in Callers : MapTransaction(d) \/ InsertOrder(d)
          \/ UNCHANGED calls
      BY DEF Next, vars, SendBundle, InsertTransaction,
           SystemPoolAdd, RemoveAnyWith, Commit, ReportBlock, BeginRetain, FinishBlock,
           RemoveOrder, RetainVisit, Propose, HearFailure, DropPipeline
    <3>5. Loose \cap Bundles = {}
      BY PoolConstants
    <3> QED
      BY <1>4, <3>1, <3>2, <3>3, <3>4, <3>5
  <2> QED
    BY <2>1, <2>2, <2>3
<1>5. ASSUME NEW b \in Bundles, b \in orders', NEW n \in Nat, inserted'[b].from = n
      PROVE  n <= complete' /\ accepted(b, n)'
  <2>1. n <= complete /\ accepted(b, n)
    <3>1. CASE b \in orders /\ inserted'[b] = inserted[b]
      BY <1>5, <3>1 DEF Judged
    <3>2. ASSUME NEW c \in Callers, calls[c].pc = "map", calls[c].order = b,
                 inserted'[b] = [from |-> calls[c].since, to |-> begun]
          PROVE  n <= complete /\ accepted(b, n)
      <4>1. calls[c].since = n
        BY <1>5, <3>2
      <4> QED
        BY <3>2, <4>1 DEF Judged
    <3> QED
      BY <1>5, <3>1, <3>2, OrdersOfAStep
  <2> QED
    BY <1>1, <2>1, AcceptedKept
<1>6. \A c \in Callers : calls'[c].pc = "map" => calls'[c].order \in Orders /\ calls'[c].since \in Nat
  BY DEF TypeOK, Calls
<1>7. \A b \in orders' : inserted'[b].from \in Nat
  BY DEF TypeOK
<1> QED
  BY <1>3, <1>4, <1>5, <1>6, <1>7 DEF Judged, IsTip, accepted, TipHeader

(***************************************************************************)
(* The inductive invariant, and the properties of the runs                 *)
(***************************************************************************)

IndInv == TypeOK /\ IndexComplete /\ Collecting /\ Judging /\ Judged /\ RejectedStaysOut

\* Only an insert brings back what was removed for good.
LEMMA NextRejectedStaysOut == RejectedStaysOut /\ [Next]_vars => RejectedStaysOut'
<1> SUFFICES ASSUME RejectedStaysOut, [Next]_vars PROVE RejectedStaysOut'
  OBVIOUS
<1>1. ASSUME NEW c \in Callers, InsertOrder(c)
      PROVE  RejectedStaysOut'
  BY <1>1 DEF InsertOrder, RejectedStaysOut
<1>2. ASSUME NEW t \in Loose, SystemPoolAdd(t)
      PROVE  RejectedStaysOut'
  BY <1>2 DEF SystemPoolAdd, RejectedStaysOut
<1>3. CASE HearFailure
  BY <1>3 DEF HearFailure, report_execution_error, remove, RejectedStaysOut
<1>4. \/ \E c \in Callers : InsertOrder(c)
      \/ \E t \in Loose : SystemPoolAdd(t)
      \/ HearFailure
      \/ dropped' = dropped /\ orders' \subseteq orders /\ system_pool' \subseteq system_pool
  BY DEF Next, vars, poolVars, historyVars, SendBundle, InsertTransaction, begin_insert,
       MapTransaction, RemoveAnyWith, Commit, ReportBlock, BeginRetain,
       FinishBlock, RemoveOrder, RetainVisit, Propose, DropPipeline, remove
<1> QED
  BY <1>1, <1>2, <1>3, <1>4 DEF RejectedStaysOut

\* No order has been inserted and no block reported.
LEMMA InitIndInv == Init => IndInv
<1> SUFFICES ASSUME Init PROVE IndInv
  OBVIOUS
<1>1. Collecting /\ Judging /\ RejectedStaysOut
  BY DEF Init, Collecting, Judging, RejectedStaysOut
<1>2. Judged
  <2>1. complete = 0 /\ tip_header = TipHeader(0)
    BY DEF Init, complete, Waiting, TipHeader
  <2>2. IsTip(0, complete)
    BY <2>1 DEF IsTip
  <2> QED
    BY <2>1, <2>2 DEF Judged, Init, Idle
<1> QED
  BY <1>1, <1>2, InitTypeOK, InitIndexComplete DEF IndInv

\* The inductive invariant holds whatever callers, chain and listener do.
THEOREM PoolInvariance == Spec => []IndInv
<1>1. IndInv /\ [Next]_vars => IndInv'
  BY NextTypeOK, NextIndexComplete, NextCollecting, NextJudging, NextJudged,
     NextRejectedStaysOut DEF IndInv
<1> QED
  BY <1>1, InitIndInv, PTL DEF Spec

\* What was removed for a permanent error is proposed by neither pool until it is inserted
\* again, with any number of callers and late failure events.
THEOREM RejectedIsNotProposed == Spec => []RejectedStaysOut
<1>1. IndInv => RejectedStaysOut
  BY DEF IndInv
<1> QED
  BY <1>1, PoolInvariance, PTL

\* report_committed_block leaves no order behind that was in the pool before a block with
\* one of its transactions was reported.
THEOREM CommittedOrdersGo == Spec => []CommittedOrdersAreCollected
<1>1. IndInv => CommittedOrdersAreCollected
  <2> SUFFICES ASSUME IndInv, NEW o \in orders, NEW t \in ToSet(transactions(o)),
                      NEW e \in 1..complete, first(t, e)
               PROVE  inserted[o].to >= e
    BY DEF CommittedOrdersAreCollected, first
  <2>1. begun \in Nat /\ e \in 1..begun /\ (maintenance.pc # "waiting" => e # begun)
    BY DEF IndInv, TypeOK, complete
  <2> QED
    BY <2>1 DEF IndInv, Collecting
<1> QED
  BY <1>1, PoolInvariance, PTL

\* remove_invalidated_orders, and the check of send_bundle against the tip header: what is
\* ineligible for good is in the pool only because of an insert that overlapped the report
\* of a block.
THEOREM IneligibleBundlesGo == Spec => []IneligibleBundlesAreCollected
<1>1. IndInv => IneligibleBundlesAreCollected
  <2> SUFFICES ASSUME IndInv, NEW b \in orders \cap Bundles
               PROVE  /\ \A e \in 1..complete :
                           is_permanently_ineligible(BundleOf[b], blocks[e].header)
                             => inserted[b].to >= e
                      /\ is_permanently_ineligible(BundleOf[b], tip_header)
                           => inserted[b].from < TipIndex
    BY DEF IneligibleBundlesAreCollected
  <2>1. ASSUME NEW e \in 1..complete, is_permanently_ineligible(BundleOf[b], blocks[e].header)
        PROVE  inserted[b].to >= e
    <3>1. begun \in Nat /\ e \in 1..begun /\ (maintenance.pc # "waiting" => e # begun)
      BY DEF IndInv, TypeOK, complete
    <3> QED
      BY <2>1, <3>1 DEF IndInv, Judging
  <2>2. ASSUME is_permanently_ineligible(BundleOf[b], tip_header)
        PROVE  inserted[b].from < TipIndex
    <3>1. PICK k \in Nat : IsTip(k, complete) /\ tip_header = TipHeader(k)
      BY DEF IndInv, Judged
    <3>2. PICK m \in Nat : /\ IsTip(m, inserted[b].from)
                           /\ ~is_permanently_ineligible(BundleOf[b], TipHeader(m))
      BY DEF IndInv, Judged, accepted
    <3>3. complete \in Nat /\ inserted[b].from \in Nat /\ inserted[b].from <= complete
      BY DEF IndInv, Judged, TypeOK, complete
    <3>4. m # k
      BY <2>2, <3>1, <3>2
    <3>5. ~(k <= inserted[b].from)
      <4> SUFFICES ASSUME k <= inserted[b].from PROVE FALSE
        OBVIOUS
      <4>1. CASE m < k
        <5>1. k \in (m + 1)..inserted[b].from /\ k # 0
          BY <3>3, <4>1
        <5> QED
          BY <3>1, <3>2, <5>1 DEF IsTip
      <4>2. CASE k < m
        <5>1. m \in (k + 1)..complete /\ m # 0
          BY <3>2, <3>3, <4>2 DEF IsTip
        <5> QED
          BY <3>1, <3>2, <5>1 DEF IsTip
      <4> QED
        BY <3>4, <4>1, <4>2
    <3>6. TipIndex = k
      <4> DEFINE Ends == {0} \cup {e \in 1..complete : blocks[e].last}
      <4>1. k \in Ends
        BY <3>1, <3>3 DEF IsTip
      <4>2. \A e \in Ends : e \in Nat /\ k >= e
        <5>1. \A e \in 1..complete : e <= k \/ e \in (k + 1)..complete
          BY <3>3
        <5> QED
          BY <3>1, <3>3, <5>1 DEF IsTip
      <4>3. \A x \in Ends : (\A y \in Ends : x >= y) => x = k
        BY <4>1, <4>2
      <4>4. TipIndex = CHOOSE x \in Ends : \A y \in Ends : x >= y
        BY DEF TipIndex, Max
      <4> HIDE DEF Ends
      <4> QED
        BY <4>1, <4>2, <4>3, <4>4
    <3> QED
      BY <3>3, <3>5, <3>6
  <2> QED
    BY <2>1, <2>2
<1> QED
  BY <1>1, PoolInvariance, PTL
=============================================================================
