\* A graph of four nodes and six edges with a change during the query; texts of
\* five bytes; contexts of three nodes; configurations of two layers.
SPECIFICATION MCSpec
CONSTANTS
    Nodes = {1, 2, 3, 4}
    NameOf <- MCNameOf
    EdgeIds = {1, 2, 3, 4, 5, 6}
    From <- MCFrom
    To <- MCTo
    MaxDepth = 3
    MaxWrites = 1
    MaxFailures = 1
    NoEdge = 0
    Stride = 2
    MaxBytes = 5
    Unlimited = 99
CHECK_DEADLOCK FALSE
INVARIANTS ImpactIsTheBall PathsAreTheSimplePaths AnswersWereRead PositionsAreScalarPositions PreviewSpansHoldTheMatch BudgetedContextsAgree LayersHavePrecedence ProjectsNameNoKeys
