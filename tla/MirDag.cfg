CONSTANT Programs <- Bodies
CONSTANT Sources <- Texts
SPECIFICATION StructuredSpec
INVARIANT NothingStarves
INVARIANT DoesTheSource
PROPERTY ImplementsLinear
CHECK_DEADLOCK FALSE
