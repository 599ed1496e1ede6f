SPECIFICATION StepsSpec
CONSTANT Addresses <- MCAddresses
CONSTANT Signers = {"alice", "bob"}
CONSTANT Block <- MCBlock
CONSTANT Base <- MCBase
CONSTANT Transactions <- MCTransactions
CONSTANT Bundles <- MCBundles
CONSTANT MaxCheckpoints = 4
CONSTANT Tip <- MCTip
CONSTANT Sequencer <- MCSequencer
CONSTANT GasLimits = {0, 9}
CONSTANT Builder = "bob"
CONSTANT Combinators <- MCCombinators
INVARIANT LookupsAreTheState
INVARIANT PayloadsAreValid
INVARIANT BundleRules
INVARIANT RevertsAreRemoved
INVARIANT SealedHistoryIsKept
INVARIANT OrderingKeepsOrders
INVARIANT AllOrNothing
INVARIANT BlockIsThePayload
INVARIANT OneStepReportsTheStep
PROPERTY RemovalEnds
CHECK_DEADLOCK FALSE
