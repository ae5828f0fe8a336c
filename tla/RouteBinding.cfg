CONSTANTS
    Labels <- MCLabels
    CaseFold <- MCCaseFold
    MaxLabels = 2
    MaxRouteHosts = 1
    NoHostname = NoHostname
    NoSection = NoSection
    NilSelector = NilSelector
    InvalidSelector = InvalidSelector
    NsLabels <- MCNsLabels
    ListenerSpecs <- MCListenerSpecs
    RouteInfos <- MCRouteInfos
    GatewayNamespace = "gw-ns"
    MaxListeners = 2
SPECIFICATION MCSpec
INVARIANT ValidateBindingMeetsSpec
INVARIANT MatchSymmetric
INVARIANT ExactMatchIsOverlap
