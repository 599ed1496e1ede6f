SPECIFICATION Spec
CONSTANT t1 = t1
CONSTANT t2 = t2
CONSTANT b1 = b1
CONSTANT c1 = c1
CONSTANT Txs <- MCTxs
CONSTANT Loose = {t1}
CONSTANT Bundles <- MCBundles
CONSTANT BundleOf <- MCBundleOf
CONSTANT Callers = {c1}
CONSTANT Errors = {"InvalidSignature"}
CONSTANT MaxBlocks = 2
CONSTANT Capacity = 1
INVARIANT CommittedOrdersAreCollected
INVARIANT IneligibleBundlesAreCollected
INVARIANT RejectedStaysOut
CHECK_DEADLOCK FALSE
