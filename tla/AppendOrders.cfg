SPECIFICATION FairSpec
CONSTANT Jobs = {"j1", "j2"}
CONSTANT Orders <- MCOrders
CONSTANT OrderOf <- MCOrderOf
CONSTANT SystemOrders <- MCSystemOrders
CONSTANT Configs <- MCConfigs
CONSTANT MIN_TRANSACTION_GAS = 1
INVARIANT NoTransactionTwice
INVARIANT WithinLimits
INVARIANT RunWithinLimits
INVARIANT CountersAgree
INVARIANT LoneJobsReportThemselves
PROPERTY JobsEnd
