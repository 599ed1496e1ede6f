SPECIFICATION FairSpec
CONSTANT IntMax <- MCIntMax
CONSTANT Pipelines <- MCPipelines
CONSTANT LimitsSet <- MCLimitsSet
CONSTANT PlatformLimits <- MCPlatformLimits
INVARIANT NoScopePanic
INVARIANT NestedLimitsWithinEnclosing
PROPERTY StepsRunInTheirScope
PROPERTY EnteredScopesAreRenewed
PROPERTY ImplementsLifecycle
PROPERTY Resolves
CHECK_DEADLOCK FALSE
