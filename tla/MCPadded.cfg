SPECIFICATION Spec
CONSTANTS
    None = None
    PULL_PATTERN <- MCPattern
    PullRefs <- MCPullRefs
    Padded <- MCPaddedPattern
    Permission = {"contents", "issues"}
    MAX_HOSTED_POLICY_RULES = 100
    Files <- PaddedFiles
    Calls <- SelectCalls
INVARIANT
    PatternTakesPullsOnly
