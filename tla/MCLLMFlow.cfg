\* Two candidates, the first behind the proxy with a direct route as fallback;
\* the configuration may change and the cache may be lost at any moment.
CONSTANTS
    N = 2
    Options <- MCOptions
    ConfiguredPolicy <- MCPolicy
    DefaultPolicy <- MCPolicy
    GatewayProxy = {1}
    FallbackToDirect = {1, 2}
    ConfigStates = {"tiers", "none", "broken"}
    CacheEnabled = TRUE
    MaxFailures = 2
SPECIFICATION Spec
INVARIANTS
    TypeOK
    ParseFailuresBounded
    SuspensionJustified
    SuspendedAskedLast
    UnavailableMeansAllFailed
PROPERTIES
    SuspensionServed
    CallContract
