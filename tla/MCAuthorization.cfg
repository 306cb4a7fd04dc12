SPECIFICATION Spec
CONSTANTS
    None = None
    PULL_PATTERN <- MCPattern
    PullRefs <- MCPullRefs
    Padded <- MCPadded
    Permission = {"contents", "issues"}
    MAX_HOSTED_POLICY_RULES = 100
    Files <- AllFiles
    Calls <- AllCalls
INVARIANTS
    FirstMatchDecides
    PullGrantsArePulls
    SubjectIsBound
    GrantIsExact
    ShadowsAreOpen
