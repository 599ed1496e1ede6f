SPECIFICATION FairSpec
CONSTANT j1 = j1
CONSTANT j2 = j2
CONSTANT r1 = r1
CONSTANT r2 = r2
CONSTANT Jobs <- MCJobs
CONSTANT Requests <- MCRequests
CONSTANT NumSteps = 2
INVARIANT ExecutorLivesWhileHeld
INVARIANT StepsAreSetUpFirst
PROPERTY JobsLeaveTheService
PROPERTY RequestsAreAnswered
CHECK_DEADLOCK FALSE
