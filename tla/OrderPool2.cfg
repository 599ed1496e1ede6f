SPECIFICATION Spec
CONSTANT Accounts <- MCAccounts
CONSTANT SimOrders <- MCSimOrders
CONSTANT Onchain <- MCOnchain
CONSTANT Score <- MCScore
CONSTANT MaxNonce = 3
CONSTANT MaxRequests = 4
CONSTANT Senders <- MCAccounts
CONSTANT PrioOrders <- MCPrioOrders
CONSTANT MaxTxNonce = 3
CONSTANT MaxBlocks = 1
INVARIANT WaitingOrdersAreWoken
INVARIANT ParentsLeadToTheOrder
INVARIANT QueueIsConsistent
INVARIANT ReadyByTheNoncesOfThePayload
CHECK_DEADLOCK FALSE
