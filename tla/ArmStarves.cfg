CONSTANT Programs <- PlainBodies
CONSTANT Sources <- PlainTexts
SPECIFICATION StructuredSpec
INVARIANT NothingStarves
CHECK_DEADLOCK FALSE
