SPECIFICATION FairSpec
CONSTANTS
  Nodes <- MCNodes
  Txs <- MCTxs
  Tasks <- MCTasks
  BlockTimes <- MCBlockTimes
  Clock <- MCClock
  MaxHeight <- MCMaxHeight
  NoHost = NoHost
  MaxBoxes = 3
INVARIANT NoDanglingPools
INVARIANT AttributesAreAccepted
PROPERTY TipFollows
CHECK_DEADLOCK FALSE
