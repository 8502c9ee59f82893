SPECIFICATION Spec
CONSTANTS
    RawCases <- MCRawCases
    Slug <- MCSlug
    StreamName <- MCStreamName
    RouteName <- MCRouteName
    None = None
INVARIANT SimulationReadyNeverRaises
CHECK_DEADLOCK FALSE
