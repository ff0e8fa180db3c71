\* A policy that allows a second parse failure before the switch.
CONSTANTS
    N = 2
    Options <- RequiredOnly
    ConfiguredPolicy <- TwoParseFailures
    DefaultPolicy <- MCPolicy
    GatewayProxy = {}
    FallbackToDirect = {}
    ConfigStates = {"tiers"}
    CacheEnabled = FALSE
    MaxFailures = 2
SPECIFICATION StreakSpec
INVARIANT ParsePolicyHonoured
