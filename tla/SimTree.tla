------------------------------- MODULE SimTree -------------------------------
(***************************************************************************)
(* SimTree (orderpool2/sim_tree.rs): decides which orders can be simulated *)
(* on the state of the parent block, and after which other orders.  An     *)
(* order that needs an account at a later nonce waits until a simulated    *)
(* order leaves the account there.                                         *)
(*                                                                         *)
(* Simulations run elsewhere (external): tasks are taken from the tree,    *)
(* and their results come back one by one, in any order, or never.         *)
(***************************************************************************)
EXTENDS Integers, FiniteSets, SequencesExt

CONSTANTS
  Accounts,
  SimOrders,     \* the orders: their sequence of [account, nonce, optional]
  Onchain,       \* OrderpoolNonceSource: the nonces of the accounts at the parent block
  Score,         \* SimTreeResult::score of each order
  MaxNonce,      \* bound: nonces
  MaxRequests    \* bound: simulations that are requested

ASSUME SimConstants ==
  /\ IsFiniteSet(Accounts) /\ Accounts # {}
  /\ MaxNonce \in Nat
  /\ Onchain \in [Accounts -> Nat]
  /\ IsFiniteSet(DOMAIN SimOrders)
  /\ \A o \in DOMAIN SimOrders :
       /\ Len(SimOrders[o]) \in Nat /\ DOMAIN SimOrders[o] = 1..Len(SimOrders[o])
       /\ \A i \in DOMAIN SimOrders[o] :
            /\ SimOrders[o][i].account \in Accounts /\ SimOrders[o][i].nonce \in 0..MaxNonce
            /\ SimOrders[o][i].optional \in BOOLEAN

VARIABLES
  sims,                        \* results by the id of their simulation
  sims_that_update_one_nonce,  \* the best simulation that leaves an account at a nonce
  pending_orders,              \* unsatisfied_nonces of the orders that wait
  pending_nonces,              \* the orders that wait for an account to reach a nonce
  ready_orders,                \* SimulationRequests to be taken, in order
  running,                     \* those taken
  requests                     \* the number of requests made, and the last id

simVars == <<sims, sims_that_update_one_nonce, pending_orders, pending_nonces,
             ready_orders, running, requests>>

AccountNonce == [account : Accounts, nonce : 0..MaxNonce]
Ids == DOMAIN SimOrders
NoSim == 0

SimInit ==
  /\ sims = << >>
  /\ sims_that_update_one_nonce = [k \in AccountNonce |-> NoSim]
  /\ pending_orders = [o \in Ids |-> 0]
  /\ pending_nonces = [k \in AccountNonce |-> {}]
  /\ ready_orders = << >>
  /\ running = {}
  /\ requests = 0

(***************************************************************************)
(* get_order_nonce_state                                                   *)
(***************************************************************************)

\* The first of the order's nonces of an account that the account has reached or is to
\* reach; those before it are too low.
considered(o) ==
  {i \in DOMAIN SimOrders[o] :
     /\ SimOrders[o][i].nonce >= Onchain[SimOrders[o][i].account]
     /\ \A j \in 1..(i - 1) : \/ SimOrders[o][j].account # SimOrders[o][i].account
                              \/ SimOrders[o][j].nonce < Onchain[SimOrders[o][j].account]}

Invalid(o) ==
  \E i \in DOMAIN SimOrders[o] :
    /\ Onchain[SimOrders[o][i].account] > SimOrders[o][i].nonce
    /\ ~SimOrders[o][i].optional

\* The nonces that are ahead of the chain.
ahead(o) == {i \in considered(o) : SimOrders[o][i].nonce > Onchain[SimOrders[o][i].account]}

account_nonce(tx) == [account |-> tx.account, nonce |-> tx.nonce]

\* Those that no simulation leads to.
PendingNonces(o, provided) ==
  {k \in {account_nonce(SimOrders[o][i]) : i \in ahead(o)} : provided[k] = NoSim}

\* Mutant: only the order that leads to the nonce.
direct_parents(o, results, provided) ==
  FlattenSeq([i \in DOMAIN SimOrders[o] |->
    IF i \in ahead(o) THEN <<results[provided[account_nonce(SimOrders[o][i])]].order>> ELSE << >>])

\* The orders to simulate before: for each such nonce, the order that leads to it and
\* those before it.
parents(o, results, provided) ==
  FlattenSeq([i \in DOMAIN SimOrders[o] |->
    IF i \in ahead(o)
    THEN LET sim == results[provided[account_nonce(SimOrders[o][i])]]
         IN Append(sim.previous_orders, sim.order)
    ELSE << >>])

request(o, id, results, provided) ==
  [id |-> id, order |-> o, parents |-> parents(o, results, provided)]

(***************************************************************************)
(* Operations                                                              *)
(***************************************************************************)

\* push_order of an order that is pending already, or invalid, does nothing.
PushOrderReady(o) ==
  /\ requests < MaxRequests
  /\ pending_orders[o] = 0
  /\ ~Invalid(o)
  /\ PendingNonces(o, sims_that_update_one_nonce) = {}
  /\ requests' = requests + 1
  /\ ready_orders' = Append(ready_orders, request(o, requests', sims, sims_that_update_one_nonce))
  /\ UNCHANGED <<sims, sims_that_update_one_nonce, pending_orders, pending_nonces, running>>

PushOrderPending(o) ==
  /\ pending_orders[o] = 0
  /\ ~Invalid(o)
  /\ \E wanted \in {PendingNonces(o, sims_that_update_one_nonce)} :
       /\ wanted # {}
       /\ pending_nonces' = [k \in AccountNonce |->
            IF k \in wanted THEN pending_nonces[k] \cup {o} ELSE pending_nonces[k]]
       /\ pending_orders' = [pending_orders EXCEPT ![o] = Cardinality(wanted)]
  /\ UNCHANGED <<sims, sims_that_update_one_nonce, ready_orders, running, requests>>

PopSimulationTasks(limit) ==
  /\ limit <= Len(ready_orders)
  /\ running' = running \cup ToSet(SubSeq(ready_orders, 1, limit))
  /\ ready_orders' = SubSeq(ready_orders, limit + 1, Len(ready_orders))
  /\ UNCHANGED <<sims, sims_that_update_one_nonce, pending_orders, pending_nonces, requests>>

\* Executing an order (external): a transaction whose nonce does not match, or that is
\* to fail, is left out if it is optional; otherwise the order fails.
execute_transaction(n, tx, failing) ==
  IF n = << >> THEN n
  ELSE IF n[tx.account] = tx.nonce /\ tx \notin failing THEN [n EXCEPT ![tx.account] = @ + 1]
  ELSE IF tx.optional THEN n ELSE << >>

execute(o, n, failing) ==
  FoldLeft(LAMBDA m, tx : execute_transaction(m, tx, failing), n, SimOrders[o])

execute_next(n, o) == IF n = << >> THEN n ELSE execute(o, n, {})

execute_all(orders, n) == FoldLeft(execute_next, n, orders)

\* Mutant: a nonce that a simulation has led to before is noted, its waiting orders are not.
process_nonce_only(result, key, results) ==
  /\ sims_that_update_one_nonce' = [sims_that_update_one_nonce EXCEPT ![key] = result.id]
  /\ UNCHANGED <<pending_orders, pending_nonces, ready_orders, requests>>

\* The first simulation that leads to a nonce wakes the orders that wait for it; those
\* that wait for nothing else are requested.
process_new_nonce(result, key, results) ==
  LET provided == [sims_that_update_one_nonce EXCEPT ![key] = result.id]
      left == [o \in Ids |-> IF o \in pending_nonces[key] THEN pending_orders[o] - 1
                             ELSE pending_orders[o]]
      woken == SetToSeq({o \in pending_nonces[key] : left[o] = 0})
  IN /\ sims_that_update_one_nonce' = provided
     /\ pending_nonces' = [pending_nonces EXCEPT ![key] = {}]
     /\ pending_orders' = left
     /\ requests' = requests + Len(woken)
     /\ ready_orders' = ready_orders \o
          [i \in DOMAIN woken |-> request(woken[i], requests + i, results, provided)]

\* A better simulation takes the place of one that leads to the same nonce.
process_known_nonce(result, key, results) ==
  /\ sims_that_update_one_nonce' =
       [sims_that_update_one_nonce EXCEPT
          ![key] = IF Score[result.order] > Score[results[@].order] THEN result.id ELSE @]
  /\ UNCHANGED <<pending_orders, pending_nonces, ready_orders, requests>>

\* submit_simulation_tasks_results, result by result.  Simulations that change the
\* nonces of several accounts lead to none of them.
SubmitResult(r, failing) ==
  LET before == execute_all(r.parents, Onchain)
      after == IF before = << >> THEN << >> ELSE execute(r.order, before, failing)
      changed == {a \in Accounts : after[a] # before[a]}
      result == [id |-> r.id, order |-> r.order, previous_orders |-> r.parents]
      results == [i \in DOMAIN sims \cup {r.id} |-> IF i = r.id THEN result ELSE sims[i]]
  IN /\ r \in running
     /\ running' = running \ {r}
     /\ after # << >>
     /\ sims' = results
     /\ IF Cardinality(changed) = 1
        THEN \E a \in changed : \E key \in {k \in AccountNonce : k.account = a /\ k.nonce = after[a]} :
               IF sims_that_update_one_nonce[key] = NoSim
               THEN process_new_nonce(result, key, results)
               ELSE process_known_nonce(result, key, results)
        ELSE UNCHANGED <<sims_that_update_one_nonce, pending_orders, pending_nonces,
                         ready_orders, requests>>

\* A simulation that fails has no result.
SimulationFails(r) ==
  /\ r \in running
  /\ running' = running \ {r}
  /\ UNCHANGED <<sims, sims_that_update_one_nonce, pending_orders, pending_nonces,
                 ready_orders, requests>>

SimNext ==
  \/ \E o \in Ids : PushOrderReady(o) \/ PushOrderPending(o)
  \/ \E limit \in 1..2 : PopSimulationTasks(limit)
  \/ \E r \in running : SimulationFails(r)
  \/ \E r \in running : \E failing \in SUBSET {tx \in ToSet(SimOrders[r.order]) : tx.optional} :
       SubmitResult(r, failing)

SimSpec == SimInit /\ [][SimNext]_simVars

(***************************************************************************)
(* Properties                                                              *)
(***************************************************************************)

\* "SimTree bug": an order that waits is listed under as many nonces as it counts, no
\* list names an order that does not wait, and nobody waits for a nonce that a
\* simulation has led to already, in whatever order pushes and results come.
WaitingOrdersAreWoken ==
  \A o \in Ids :
    /\ pending_orders[o] = Cardinality({k \in AccountNonce : o \in pending_nonces[k]})
    /\ \A k \in AccountNonce : o \in pending_nonces[k] => sims_that_update_one_nonce[k] = NoSim

\* The orders that a request is to be simulated after lead from the nonces of the chain
\* to those that the order starts with.  (Optional transactions may do otherwise when
\* they are executed again.)
ParentsLeadToTheOrder ==
  \A r \in ToSet(ready_orders) \cup running :
    (\A p \in ToSet(r.parents) : \A tx \in ToSet(SimOrders[p]) : ~tx.optional) =>
      \E after \in {execute_all(r.parents, Onchain)} :
        /\ after # << >>
        /\ \A i \in ahead(r.order) :
             after[SimOrders[r.order][i].account] = SimOrders[r.order][i].nonce
=============================================================================
