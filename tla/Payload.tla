------------------------------- MODULE Payload -------------------------------
(***************************************************************************)
(* A payload under construction as steps see it: the history of its last   *)
(* checkpoint, a sequence whose first element is the barrier that          *)
(* BlockContext::start makes (core payload/ext/checkpoint.rs, ext/span.rs).*)
(*                                                                         *)
(* A checkpoint is a record with its kind, the order it was made from and  *)
(* the transactions left of it.  A transaction is a record; only what the  *)
(* step asks of it is there: signer, nonce, the gas it uses and its blob   *)
(* gas, None without blobs.                                                *)
(***************************************************************************)
EXTENDS Integers, Sequences, SequencesExt

None == -1

BarrierCheckpoint == [kind |-> "barrier", order |-> "none", txs |-> << >>]

is_bundle(c) == c.kind = "bundle"

total(value(_), s) == FoldLeft(LAMBDA sum, x : sum + value(x), 0, s)

gas_used(c) == total(LAMBDA tx : tx.gas, c.txs)

\* A sum of Options: None if one of them is None.
blob_gas_used(c) ==
  IF \E i \in DOMAIN c.txs : c.txs[i].blob = None THEN None
  ELSE total(LAMBDA tx : tx.blob, c.txs)

\* The positions of a part of a sequence, in their order.
Selections(s) ==
  {f \in UNION {[1..n -> DOMAIN s] : n \in 0..Len(s)} :
     \A i, k \in DOMAIN f : i < k => f[i] < f[k]}

(***************************************************************************)
(* Spans                                                                   *)
(***************************************************************************)

\* As a set: no one asks for their order.
transactions(span) == UNION {ToSet(span[i].txs) : i \in DOMAIN span}

cumulative_gas_used(span) == total(gas_used, span)

\* What has no blob gas of its own adds none.
cumulative_blob_gas_used(span) ==
  total(LAMBDA c : IF blob_gas_used(c) = None THEN 0 ELSE blob_gas_used(c), span)
=============================================================================
