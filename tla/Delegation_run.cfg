\* Two tools, one of them required, a budget of two calls, replies with up to
\* two calls, four replies, two nudges, and one call in the conversation.
\* Results are up to two characters long, and the digest holds two.
SPECIFICATION FairSpec
CONSTANTS
    search = search
    fetch = fetch
    None = None
    Tool = {search, fetch}
    Required = {fetch}
    MaxCalls = 2
    MaxSteps = 4
    MaxNudges = 2
    MaxParallel = 2
    MaxGiven = 1
    Sizes = {0, 1, 2}
    Limit = 2
INVARIANTS HooksHold NothingIsLost RunsStartSound
PROPERTY RunEnds
