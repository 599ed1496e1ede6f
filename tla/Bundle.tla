------------------------------- MODULE Bundle -------------------------------
(***************************************************************************)
(* FlashbotsBundle (core platform/bundle/flashbots.rs): when a bundle may  *)
(* be included, and which of its transactions may fail or be dropped.  A   *)
(* bundle is a record with the sequence of its transactions; an absent     *)
(* timestamp is None.                                                      *)
(***************************************************************************)
EXTENDS Integers, Sequences

None == -1

\* The fields of EthSendBundle that decide eligibility and how the bundle is executed.
Bundle(txs, block_number, min_timestamp, max_timestamp) ==
  [txs |-> txs, block_number |-> block_number,
   min_timestamp |-> min_timestamp, max_timestamp |-> max_timestamp,
   reverting_tx_hashes |-> {}, dropping_tx_hashes |-> {}]

mark_as_revertable(bundle, tx) == [bundle EXCEPT !.reverting_tx_hashes = @ \cup {tx}]

mark_as_optional(bundle, tx) == [bundle EXCEPT !.dropping_tx_hashes = @ \cup {tx}]

is_allowed_to_fail(bundle, tx) == tx \in bundle.reverting_tx_hashes

is_optional(bundle, tx) == tx \in bundle.dropping_tx_hashes

\* Permanent ineligibility is checked first, block number 0 stands for any.
eligibility_at(bundle, timestamp, number) ==
  IF \/ bundle.txs = << >>
     \/ bundle.max_timestamp # None /\ bundle.max_timestamp < timestamp
     \/ bundle.block_number # 0 /\ bundle.block_number < number
  THEN "PermanentlyIneligible"
  ELSE IF \/ bundle.min_timestamp # None /\ bundle.min_timestamp > timestamp
          \/ bundle.block_number # 0 /\ bundle.block_number > number
  THEN "TemporarilyIneligible"
  ELSE "Eligible"

is_eligible(bundle, block) == eligibility_at(bundle, block.timestamp, block.number) = "Eligible"

is_permanently_ineligible(bundle, header) ==
  eligibility_at(bundle, header.timestamp, header.number) = "PermanentlyIneligible"
=============================================================================
