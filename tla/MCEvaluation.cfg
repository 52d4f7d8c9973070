CONSTANTS
    Axes = {1, 2}
    Scale = 2
    Missing = Missing
    NoLimit = NoLimit
    FrontierInput = FrontierInput
    SelectionInput = SelectionInput
    NoResult = NoResult
    p1 = p1
    p2 = p2
    ProximityInput = ProximityInput
    SearchInput = SearchInput
    t = t
    c1 = c1
    c2 = c2
    Reach = 2
    MaxIndex = 40
    Catalogs <- MCCatalogs
    FrontierPolicies <- MCPolicies
    SelectionInputs <- MCSelectionInputs
    ProximityInputs <- MCProximityInputs
SPECIFICATION Spec
CHECK_DEADLOCK FALSE
INVARIANTS
    FrontierIsNeverEmpty
    ExactFrontierCovers
    RobustIsConservative
    SelectionIsBest
    ProximityIsExact
    ResultIsTransition
PROPERTIES
    SearchEnds
