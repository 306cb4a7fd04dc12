SPECIFICATION ReadSpec
CONSTANTS
    None = None
    LowerCase <- MCLowerCase
    Inputs <- MCInputs
    Bodies <- MCBodies
    MAX_DEPTH = 5
    PolicyTexts <- MCPolicyTexts
    RuleNames <- MCRuleNames
    ClaimedRefs <- Refs
    Places <- MCPlaces
    Rules <- MCNamedRules
INVARIANTS
    PolicyReadsOneWay
    BodyReadsOneWay
    ClientIsUnderstood
    NamesAreExact
CHECK_DEADLOCK FALSE
