CONSTANTS
    Namespaces = {"a", "b"}
    NoName = NoName
    NoKind = NoKind
    NoNamespace = NoNamespace
    NilWeight = NilWeight
    ListError = ListError
    GrantLists <- MCSomeGrantLists
    RouteSpecs <- MCWideRouteSpecs
    RouteName = "r1"
SPECIFICATION Spec
INVARIANT SelectHighestMeetsSpec
