SPECIFICATION WalkSpec
CONSTANT Programs <- MCPrograms
INVARIANT NavigatorFollowsReference
INVARIANT HooksCoverEveryReachableStep
CHECK_DEADLOCK FALSE
