SPECIFICATION FairSpec
CONSTANTS
    a = a
    b = b
    None = None
    Tool = {a, b}
    Index <- Apart
    Mapped = {a}
    MaxWords = 2
    Ahead = 2
    MaxLeaves = 2
    Handoff = {b}
    Merge = TRUE
INVARIANTS ReplyIsSound PartsAreSound
PROPERTIES NothingTakenBack StreamEnds
