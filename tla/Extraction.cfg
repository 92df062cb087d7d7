SPECIFICATION Spec
CONSTANTS
    Names = {A, B}
    Builtins = {Int}
    MaxFacts = 5
    MaxDepth = 2
SYMMETRY Symmetry
INVARIANTS OrdinalsTellApart ChainsNameTheContainers
CHECK_DEADLOCK FALSE
