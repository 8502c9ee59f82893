SPECIFICATION Spec
CONSTANTS
    RawCases <- MCRawCases
    Slug <- MCSlug
    StreamName <- MCStreamName
    RouteName <- MCRouteName
    None = None
INVARIANTS
    TypeOK
    LineMeansLine
    AnalysisReadyNeverRaises
    DefaultRoutesAgree
CHECK_DEADLOCK FALSE
