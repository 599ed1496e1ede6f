------------------------------ MODULE Execution ------------------------------
(***************************************************************************)
(* Executable::execute (core payload/exec.rs): a transaction or a bundle   *)
(* is executed as one unit on the state of a checkpoint.                   *)
(*                                                                         *)
(* The EVM is external.  A state maps an address to the nonce of its       *)
(* account and to one storage slot.  A transaction is a record: it is      *)
(* valid only with the nonce of its signer, and then it succeeds, fails or *)
(* is found invalid for another reason, whatever the state.  On success it *)
(* writes to the slot of its target, a contract, or destroys it.  "Revert" *)
(* stands for a halt, too.                                                 *)
(***************************************************************************)
EXTENDS Bundle, SequencesExt

CONSTANTS
  Addresses,
  Signers,      \* accounts that have a key
  Block         \* number and timestamp of the block under construction

ASSUME SignersAreAccounts == Signers \subseteq Addresses

NoAccount == -1

Outcomes == {"Success", "Revert", "Invalid"}

\* `write` is what goes to the slot of the target, None if the target is destroyed.
Tx(signer, nonce, target, write) ==
  [signer |-> signer, nonce |-> nonce, target |-> target, write |-> write]

\* What has a key is no contract, and nothing destroys it.
TxSet ==
  {tx \in [signer : Signers, nonce : Nat, target : Addresses, write : Int] :
     tx.write = None => tx.target \notin Signers}

BundleSet ==
  [txs : Seq(TxSet), block_number : Nat, min_timestamp : Int, max_timestamp : Int,
   reverting_tx_hashes : SUBSET TxSet, dropping_tx_hashes : SUBSET TxSet]

\* What the EVM makes of a transaction in a state.
transact(state, tx, outcome) ==
  IF state[tx.signer].info = tx.nonce THEN outcome ELSE "Invalid"

\* The accounts that a transaction with this result changes: info is absent when the
\* account is destroyed, slot is absent when it is not written.
effects(state, tx, result) ==
  LET signer == [info |-> tx.nonce + 1, slot |-> None]
      target == [info |-> IF tx.write = None THEN NoAccount ELSE state[tx.target].info,
                 slot |-> tx.write]
  IN IF result = "Success" /\ state[tx.target].info # NoAccount
     THEN [a \in {tx.signer, tx.target} |-> IF a = tx.signer THEN signer ELSE target]
     ELSE [a \in {tx.signer} |-> signer]

\* The state with such changes in it.
committed(state, changes) ==
  [a \in Addresses |->
     IF a \notin DOMAIN changes THEN state[a]
     ELSE IF changes[a].info = NoAccount THEN [info |-> NoAccount, slot |-> 0]
     ELSE [info |-> changes[a].info,
           slot |-> IF changes[a].slot = None THEN state[a].slot ELSE changes[a].slot]]

\* State::merge_transitions: later changes of an account on top of earlier ones.
merged(old, new) ==
  [a \in DOMAIN old \cup DOMAIN new |->
     IF a \notin DOMAIN new THEN old[a]
     ELSE IF /\ a \in DOMAIN old
             /\ new[a].slot = None
             /\ new[a].info # NoAccount
          THEN [new[a] EXCEPT !.slot = old[a].slot]
          ELSE new[a]]

(***************************************************************************)
(* Execution.  A failed one has an error and no result.                    *)
(***************************************************************************)

NoChanges == [a \in {} |-> 0]

\* ExecutionResult: `executable` is what was to be executed, source what is left of it.
Result(kind, executable, source, results, changes) ==
  [error |-> "none",
   mutation |-> [kind |-> kind, executable |-> executable, source |-> source,
                 results |-> results, state |-> changes]]

Failed(error) == [error |-> error]

\* Executable::execute_transaction
execute_transaction(tx, state, outcome) ==
  LET result == transact(state, tx, outcome) IN
  IF result = "Invalid" THEN Failed("InvalidTransaction")
  ELSE Result("transaction", tx, tx, <<[tx |-> tx, outcome |-> result]>>,
              effects(state, tx, result))

\* Bundle::without_transaction: its first occurrence, and its marks.
without_transaction(bundle, tx) ==
  [bundle EXCEPT !.txs = RemoveFirst(@, tx),
                 !.reverting_tx_hashes = @ \ {tx},
                 !.dropping_tx_hashes = @ \ {tx}]

\* Mutant: a transaction that fails and may be dropped invalidates the bundle only
\* when it is invalid.
bundle_step_keeping_failures(bundle, run, tx, outcome) ==
  LET result == transact(run.db, tx, outcome)
      changes == effects(run.db, tx, result)
  IN IF run.error # "none" THEN run
     ELSE IF result # "Invalid"
     THEN [run EXCEPT !.results = Append(@, [tx |-> tx, outcome |-> result]),
                      !.db = committed(@, changes),
                      !.changes = merged(@, changes)]
     ELSE IF is_optional(bundle, tx) THEN [run EXCEPT !.discarded = Append(@, tx)]
     ELSE [run EXCEPT !.error = "InvalidBundleTransaction"]

\* Mutant: the state changes of discarded transactions stay.
bundle_step_committing_discarded(bundle, run, tx, outcome) ==
  LET result == transact(run.db, tx, outcome)
      changes == effects(run.db, tx, result)
  IN IF run.error # "none" THEN run
     ELSE IF \/ result = "Success"
             \/ result = "Revert" /\ is_allowed_to_fail(bundle, tx)
     THEN [run EXCEPT !.results = Append(@, [tx |-> tx, outcome |-> result]),
                      !.db = committed(@, changes),
                      !.changes = merged(@, changes)]
     ELSE IF is_optional(bundle, tx)
     THEN [run EXCEPT !.discarded = Append(@, tx),
                      !.db = committed(@, changes),
                      !.changes = merged(@, changes)]
     ELSE [run EXCEPT !.error = "InvalidBundleTransaction"]

\* One transaction of a bundle: included, discarded, or the end of the bundle.
bundle_step(bundle, run, tx, outcome) ==
  LET result == transact(run.db, tx, outcome)
      changes == effects(run.db, tx, result)
  IN IF run.error # "none" THEN run
     ELSE IF \/ result = "Success"
             \/ result = "Revert" /\ is_allowed_to_fail(bundle, tx)
     THEN [run EXCEPT !.results = Append(@, [tx |-> tx, outcome |-> result]),
                      !.db = committed(@, changes),
                      !.changes = merged(@, changes)]
     ELSE IF is_optional(bundle, tx) THEN [run EXCEPT !.discarded = Append(@, tx)]
     ELSE [run EXCEPT !.error = IF result = "Revert" THEN "BundleTransactionReverted"
                                ELSE "InvalidBundleTransaction"]

\* Executable::execute_bundle; validate_post_execution accepts every state.
execute_bundle(bundle, state, outcomes) ==
  LET start == [db |-> state, changes |-> NoChanges, results |-> << >>,
                discarded |-> << >>, error |-> "none"]
      run == FoldLeftDomain(LAMBDA r, i : bundle_step(bundle, r, bundle.txs[i], outcomes[i]),
                            start, bundle.txs)
  IN IF ~is_eligible(bundle, Block) THEN Failed("IneligibleBundle")
     ELSE IF run.error # "none" THEN Failed(run.error)
     ELSE Result("bundle", bundle, FoldLeft(without_transaction, bundle, run.discarded),
                 run.results, run.changes)
=============================================================================
