SPECIFICATION Spec
CONSTANTS
    Call = {c1, c2, c3}
    Thread = {d, m, n}
    InMemory = {m, n}
    Agent = {Plain, Rich, Brief}
    Plain = Plain
    Rich = Rich
    shared = shared
    extra = extra
    Files = Files
    Transient = {Brief}
    MemoriesOf <- Configuration
    MaxThreads = 1
    Unborn = Unborn
    Gone = Gone
    None = None
SYMMETRY Symmetry
INVARIANTS MadeOnce LinksAndMessagesFit
PROPERTIES UpdatesKeepTheRest EvictsOldestAtCap
