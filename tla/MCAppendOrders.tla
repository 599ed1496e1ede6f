--------------------------- MODULE MCAppendOrders ---------------------------
(***************************************************************************)
(* Two jobs; a loose transaction, a bundle that has it too, a bundle with  *)
(* blobs all over, and one that the host's pool knows.                     *)
(***************************************************************************)
EXTENDS AppendOrders

Tx(signer, nonce, gas, blob) ==
  [signer |-> signer, nonce |-> nonce, gas |-> gas, blob |-> blob]

a0 == Tx("alice", 0, 1, None)
b0 == Tx("bob", 0, 1, 1)
b1 == Tx("bob", 1, 1, 2)

MCOrderOf ==
  [tx     |-> [kind |-> "transaction", txs |-> <<a0>>, optional |-> {}],
   bundle |-> [kind |-> "bundle", txs |-> <<b0, a0>>, optional |-> {a0}],
   blob   |-> [kind |-> "transaction", txs |-> <<b1>>, optional |-> {}]]

MCOrders == DOMAIN MCOrderOf

MCSystemOrders == {"tx"}

Of(step, gas, blob_gas, max_txs, deadline, active, orders) ==
  [step |-> step, jobs |-> active, orders |-> orders,
   limits |-> [gas_limit |-> gas, max_blob_gas |-> blob_gas, max_transactions |-> max_txs,
               deadline |-> deadline]]

\* Two jobs with orders that share a transaction; one job with more orders and with
\* limits of the step; one that goes on at its limits.
MCConfigs ==
  {Of(with_max_new_orders(from_pool, 1), 3, 2, None, FALSE, Jobs, {"tx", "bundle"}),
   Of(from_pool, 2, None, None, TRUE, {"j1"}, MCOrders),
   Of(with_max_new_transactions(from_pool, 2), 3, 2, 1, FALSE, {"j1"}, MCOrders),
   Of(with_max_new_orders(with_max_new_bundles(from_pool, 1), 2), 3, 2, None, FALSE, {"j1"}, MCOrders),
   Of(with_ok_on_limit(disable_system_pool(from_pool)), 3, None, None, TRUE, {"j1"}, {"tx", "bundle"})}
=============================================================================
