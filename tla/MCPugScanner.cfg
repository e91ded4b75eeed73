\* Values of up to five characters (233 and 12380 are not in ASCII; the low byte of
\* the second is the backslash's), then lines, with ways back.
SPECIFICATION MCSpec
CONSTANTS
    Chars = {97, 34, 39, 96, 40, 41, 63, 58, 44, 32, 92, 233, 12380}
    Indentations = {0, 2, 4}
    Beyond = {0, 1}
    MaxText = 5
    ShortText = 2
    MaxTokens = 4
INVARIANTS
    IndentsGrow
    RestoredAsSaved
    ParensAreOpen
    StringsLeft
CHECK_DEADLOCK FALSE
