--------------------------- MODULE PrioritizedPool ---------------------------
(***************************************************************************)
(* PrioritizedOrderpool (orderpool2/prioritized_pool/): orders by          *)
(* priority, those that are ready by the nonces of the block being built   *)
(* and those that wait, and AppendOrdersByPriority, the step that includes *)
(* them.                                                                   *)
(*                                                                         *)
(* A step holds the lock of the pool from its begin to its end, and works  *)
(* on a copy that it throws away.                                          *)
(***************************************************************************)
EXTENDS Integers, FiniteSets, SequencesExt

CONSTANTS
  Senders,     \* accounts, in the order of their addresses
  PrioOrders,  \* bundles: sequences of [account, nonce, optional, fee, gas]
  MaxTxNonce,  \* bound: nonces
  MaxBlocks    \* bound: blocks that are built

ASSUME PrioConstants ==
  /\ IsFiniteSet(Senders) /\ Senders \subseteq Nat
  /\ IsFiniteSet(DOMAIN PrioOrders)
  /\ \A o \in DOMAIN PrioOrders :
       PrioOrders[o] \in Seq([account : Senders, nonce : 0..MaxTxNonce, optional : BOOLEAN,
                              fee : Nat, gas : Nat])

VARIABLES
  prioritized_orderpool,  \* the pool that the step keeps
  orderpool,              \* the copy of the step that runs
  source,                 \* PendingOrdersSource: the orders that have not come yet
  payload,                \* the nonces of the accounts in the payload
  base,                   \* and in the parent block
  running_step,
  block,                  \* the number of blocks built
  fresh                   \* history: the copy had the nonces of the payload at the begin

prioVars == <<prioritized_orderpool, orderpool, source, payload, base, running_step, block, fresh>>

Unknown == -1
NonceKeys == Senders \X (0..MaxTxNonce)

Default ==
  [main_queue |-> {}, main_queue_nonces |-> [a \in Senders |-> {}],
   onchain_nonces |-> [a \in Senders |-> Unknown],
   pending_orders |-> [k \in NonceKeys |-> {}], orders |-> {}]

\* BundleWithNonces::new: for each account the lowest nonce, of equal ones the first.
nonces(o) ==
  LET txs == PrioOrders[o]
      kept == {i \in DOMAIN txs : \A k \in DOMAIN txs : txs[k].account = txs[i].account =>
                 txs[i].nonce < txs[k].nonce \/ (txs[i].nonce = txs[k].nonce /\ i <= k)}
  IN {txs[i] : i \in kept}

\* EffectiveGasPriceOrdering: the mean fee of what must be included, by gas limit.
priority(o) ==
  LET required == SelectSeq(PrioOrders[o], LAMBDA tx : ~tx.optional)
      gas == FoldLeft(LAMBDA sum, tx : sum + tx.gas, 0, required)
      fee == FoldLeft(LAMBDA sum, tx : sum + tx.fee * tx.gas, 0, required)
  IN IF gas = 0 THEN 0 ELSE fee \div gas

PrioInit ==
  /\ prioritized_orderpool = Default
  /\ orderpool = Default
  /\ source = DOMAIN PrioOrders
  /\ base = [a \in Senders |-> 0]
  /\ payload = base
  /\ running_step = FALSE
  /\ block = 0
  /\ fresh = FALSE

(***************************************************************************)
(* The pool.                                                               *)
(***************************************************************************)

\* Nonces are taken from the source once for each account, in the order of the addresses
\* up to the first account that has used a nonce of the order.  An error of the source,
\* which the step swallows, would leave the order out; it is not modelled.
with_nonces(p, o, state) ==
  LET nonce(a) == IF p.onchain_nonces[a] = Unknown THEN state[a] ELSE p.onchain_nonces[a]
      used == {tx \in nonces(o) : ~tx.optional /\ nonce(tx.account) > tx.nonce}
      asked == {tx \in nonces(o) : \A other \in used : tx.account <= other.account}
  IN [p EXCEPT !.onchain_nonces = [a \in Senders |->
        IF \E tx \in asked : tx.account = a THEN nonce(a) ELSE @[a]]]

outdated(p, o) == \E tx \in nonces(o) : ~tx.optional /\ p.onchain_nonces[tx.account] > tx.nonce

\* The nonces that the order waits for.
waits_for(p, o) ==
  {<<tx.account, tx.nonce>> : tx \in {t \in nonces(o) : /\ ~t.optional
                                                        /\ p.onchain_nonces[t.account] < t.nonce}}

insert_order(p, o, state) ==
  IF o \in p.orders THEN p
  ELSE LET q == with_nonces(p, o, state)
           waits == waits_for(q, o)
       IN IF outdated(q, o) THEN q
          ELSE IF waits = {}
          THEN [q EXCEPT !.main_queue = @ \cup {o},
                         !.main_queue_nonces = [a \in Senders |->
                            IF \E tx \in nonces(o) : tx.account = a THEN @[a] \cup {o} ELSE @[a]],
                         !.orders = @ \cup {o}]
          ELSE [q EXCEPT !.pending_orders = [k \in NonceKeys |->
                            IF k \in waits THEN @[k] \cup {o} ELSE @[k]],
                         !.orders = @ \cup {o}]

\* Mutant: the order stays listed for its accounts.
remove_popped_order_only(p, o) == [p EXCEPT !.orders = @ \ {o}]

remove_popped_order(p, o) ==
  [p EXCEPT !.orders = @ \ {o},
            !.main_queue_nonces = [a \in Senders |->
               IF \E tx \in nonces(o) : tx.account = a THEN @[a] \ {o} ELSE @[a]]]

pop_order(p, o) == remove_popped_order([p EXCEPT !.main_queue = @ \ {o}], o)

remove_order(p, o) ==
  IF o \in p.main_queue THEN pop_order(p, o) ELSE [p EXCEPT !.orders = @ \ {o}]

\* The orders that are ready, of an account that moved: each is taken out, and inserted
\* again if it can still be included and has a transaction to include.
revalidate(p, o, state) ==
  LET q == pop_order(p, o)
  IN IF ~outdated(q, o) /\ \E tx \in nonces(o) : q.onchain_nonces[tx.account] = tx.nonce
     THEN insert_order(q, o, state)
     ELSE q

\* Orders that waited for a nonce an account has now are inserted again.
wake(p, key, state) ==
  LET woken == p.pending_orders[key] \cap p.orders
      q == [p EXCEPT !.pending_orders[key] = {}, !.orders = @ \ woken]
  IN FoldSet(LAMBDA o, r : insert_order(r, o, state), q, woken)

\* Mutant: orders that wait are left alone.
update_without_wake(p, changed, state) ==
  LET q == [p EXCEPT !.onchain_nonces = [a \in Senders |-> IF a \in changed THEN state[a] ELSE @[a]],
                     !.main_queue_nonces = [a \in Senders |-> IF a \in changed THEN {} ELSE @[a]]]
      invalidated == UNION {p.main_queue_nonces[a] : a \in changed}
  IN FoldSet(LAMBDA o, r : revalidate(r, o, state), q, invalidated)

update_onchain_nonces(p, changed, state) ==
  LET q == [p EXCEPT !.onchain_nonces = [a \in Senders |-> IF a \in changed THEN state[a] ELSE @[a]],
                     !.main_queue_nonces = [a \in Senders |-> IF a \in changed THEN {} ELSE @[a]]]
      invalidated == UNION {p.main_queue_nonces[a] : a \in changed}
      valid == FoldSet(LAMBDA o, r : revalidate(r, o, state), q, invalidated)
  IN FoldSet(LAMBDA a, r : wake(r, <<a, state[a]>>, state), valid, changed)

(***************************************************************************)
(* AppendOrdersByPriority::step                                            *)
(***************************************************************************)

\* Pulls what has come to the source, then copies the pool.  `start` is the payload the
\* step is given: that of an earlier step of the job, or a new one on the parent block.
BeginStep(pulled, start) ==
  /\ ~running_step
  /\ running_step' = TRUE
  /\ payload' = start
  /\ source' = source \ pulled
  /\ \E p \in {FoldSet(LAMBDA o, q : insert_order(q, o, start), prioritized_orderpool, pulled)} :
       /\ prioritized_orderpool' = p
       /\ orderpool' = p
       /\ fresh' = (\A a \in Senders : p.onchain_nonces[a] \in {Unknown, start[a]})
  /\ UNCHANGED <<base, block>>

best(p) == {o \in p.main_queue : \A other \in p.main_queue : priority(other) <= priority(o)}

\* The nonces after a transaction; << >> when it must be included and has another nonce
\* than its account.  Optional transactions may fail, too (external).
apply_transaction(n, tx, failing) ==
  IF n = << >> THEN n
  ELSE IF n[tx.account] = tx.nonce /\ tx \notin failing THEN [n EXCEPT ![tx.account] = @ + 1]
  ELSE IF tx.optional THEN n ELSE << >>

\* The nonces after a bundle is applied.
applied(o, state, failing) ==
  FoldLeft(LAMBDA n, tx : apply_transaction(n, tx, failing), state, PrioOrders[o])

changed_nonces(before, after) == {a \in Senders : after[a] # before[a]}

PopAndApply(o, failing) ==
  /\ running_step
  /\ o \in best(orderpool)
  /\ \E after \in {applied(o, payload, failing)} :
       /\ after # << >>
       /\ payload' = after
       /\ orderpool' = update_onchain_nonces(pop_order(orderpool, o),
                                             changed_nonces(payload, after), after)
  /\ UNCHANGED <<prioritized_orderpool, source, base, running_step, block, fresh>>

\* The bundle cannot be applied, for its nonces or for another reason.
PopAndFail(o) ==
  /\ running_step
  /\ o \in best(orderpool)
  /\ orderpool' = pop_order(orderpool, o)
  /\ UNCHANGED <<prioritized_orderpool, source, payload, base, running_step, block, fresh>>

EndStep ==
  /\ running_step
  /\ orderpool.main_queue = {}
  /\ running_step' = FALSE
  /\ orderpool' = Default
  /\ fresh' = FALSE
  /\ UNCHANGED <<prioritized_orderpool, source, payload, base, block>>

\* The payload becomes a block, and the next one is built on it.
NextPayload ==
  /\ ~running_step
  /\ block < MaxBlocks
  /\ block' = block + 1
  /\ base' = payload
  /\ UNCHANGED <<prioritized_orderpool, orderpool, source, payload, running_step, fresh>>

\* A user of the pool takes an order out of it; it may be sent again.
RemoveOrder(o) ==
  /\ ~running_step
  /\ o \in prioritized_orderpool.orders
  /\ prioritized_orderpool' = remove_order(prioritized_orderpool, o)
  /\ source' = source \cup {o}
  /\ UNCHANGED <<orderpool, payload, base, running_step, block, fresh>>

PrioNext ==
  \/ \E pulled \in SUBSET source, start \in {payload, base} : BeginStep(pulled, start)
  \/ \E o \in orderpool.main_queue :
       \/ PopAndFail(o)
       \/ \E failing \in SUBSET {tx \in ToSet(PrioOrders[o]) : tx.optional} : PopAndApply(o, failing)
  \/ EndStep \/ NextPayload
  \/ \E o \in DOMAIN PrioOrders : RemoveOrder(o)

PrioSpec == PrioInit /\ [][PrioNext]_prioVars

(***************************************************************************)
(* Properties                                                              *)
(***************************************************************************)

\* "Panics if implementation has a bug": what is in the queue is among the orders, and is
\* listed for every account it has a transaction of, so that a change of the account
\* takes it out; nothing else is listed.
QueueIsConsistent ==
  \A p \in {prioritized_orderpool, orderpool} :
    /\ p.main_queue \subseteq p.orders
    /\ \A a \in Senders :
         p.main_queue_nonces[a] = {o \in p.main_queue : \E tx \in nonces(o) : tx.account = a}

\* "include them while keeping track of onchain nonces": when the pool starts a step with
\* the nonces of the payload, its nonces stay those of the payload, the orders that are
\* ready have no transaction that must be included at another nonce among the first ones
\* of their accounts, the only ones that are looked at, and no order waits for a nonce
\* that its account has.  A step that starts with other nonces is left out: the nonces that
\* the kept pool has cached are never refreshed.
ReadyByTheNoncesOfThePayload ==
  running_step /\ fresh =>
    /\ \A a \in Senders : orderpool.onchain_nonces[a] \in {Unknown, payload[a]}
    /\ \A o \in orderpool.main_queue : \A tx \in nonces(o) :
         tx.optional \/ tx.nonce = payload[tx.account]
    /\ \A k \in NonceKeys : orderpool.onchain_nonces[k[1]] = k[2] =>
         orderpool.pending_orders[k] \cap orderpool.orders = {}
=============================================================================
