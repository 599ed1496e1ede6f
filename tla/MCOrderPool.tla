----------------------------- MODULE MCOrderPool -----------------------------
(***************************************************************************)
(* Two transactions and a bundle of both, which expires with the first     *)
(* block; the first transaction may also be in the pool of the host.       *)
(***************************************************************************)
EXTENDS OrderPool

CONSTANTS t1, t2, b1, c1

MCTxs == {t1, t2}

MCBundles == {b1}

MCBundleOf == [b \in MCBundles |-> Bundle(<<t1, t2>>, 0, None, 1)]
=============================================================================
