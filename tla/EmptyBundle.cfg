SPECIFICATION StepsSpec
CONSTANT Addresses <- MCAddresses
CONSTANT Signers = {"alice", "bob"}
CONSTANT Block <- MCBlock
CONSTANT Base <- MCBase
CONSTANT Transactions <- OtherSigner
CONSTANT Bundles <- AllOptional
CONSTANT MaxCheckpoints = 4
CONSTANT Tip <- MCTip
CONSTANT Sequencer <- MCSequencer
CONSTANT GasLimits = {9}
CONSTANT Builder = "bob"
CONSTANT Combinators <- OrderOnly
INVARIANT EmptyBundlesAreInvalid
CHECK_DEADLOCK FALSE
