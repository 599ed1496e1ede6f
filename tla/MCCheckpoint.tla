---------------------------- MODULE MCCheckpoint ----------------------------
(***************************************************************************)
(* Two signers and a contract; transactions that depend on each other, one *)
(* of which destroys the contract, loose and in bundles with all marks.    *)
(***************************************************************************)
EXTENDS Steps

MCAddresses == {"alice", "bob", "contract"}

MCBase == [a \in MCAddresses |->
             IF a = "contract" THEN [info |-> 1, slot |-> 7] ELSE [info |-> 0, slot |-> 0]]

MCBlock == [number |-> 1, timestamp |-> 1]

a0 == Tx("alice", 0, "contract", 1)
a1 == Tx("alice", 1, "contract", 2)
b0 == Tx("bob", 0, "contract", None)

MCTransactions == {a0, a1}

Of(txs) == Bundle(txs, 0, None, None)

\* Optional and allowed to fail; optional only, together with one that must not fail;
\* one that is optional twice, around another of its signer; nothing but optional ones.
MCBundles ==
  {mark_as_optional(mark_as_revertable(Of(<<a1, b0>>), b0), b0),
   mark_as_optional(mark_as_revertable(Of(<<b0, a0>>), a0), b0),
   mark_as_optional(Of(<<a0, a1, a0>>), a0),
   mark_as_optional(Of(<<a0, a0>>), a0)}

\* Two transactions of one signer, and one of another.
OneSigner == {Of(<<a0, a1>>)}
OtherSigner == {b0}
AllOptional == {mark_as_optional(Of(<<a0, a0>>), a0)}
OrderOnly == {[kind |-> "chain", steps |-> <<"order_by">>]}

\* The later a transaction of alice, the better it pays; the transactions of a rollup's
\* sequencer come from bob, who also signs the epilogue.
MCTip(tx) == IF tx.signer = "alice" THEN tx.nonce + 2 ELSE 1
MCSequencer == <<b0>>

MCCombinators ==
  {[kind |-> "chain", steps |-> <<"prologue", "append_orders", "order_by">>],
   [kind |-> "chain", steps |-> <<"order_by", "epilogue">>],
   [kind |-> "atomic", steps |-> <<"append_orders", "required_epilogue">>],
   [kind |-> "one_step", steps |-> <<"append_orders">>],
   [kind |-> "one_step", steps |-> <<"prologue">>]}
=============================================================================
