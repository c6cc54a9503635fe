\* One memory indexed in this process and one indexed on a server, a cache that
\* holds both, three calls of any kind.
CONSTANTS
    Call = {c1, c2, c3}
    Memory = {m1, m2}
    Document = {d1, d2}
    Remote = {m2}
    MaxCache = 2
    Allowed = {"reindex", "force", "command", "save", "delete", "clear", "fail"}
    None = None
SPECIFICATION Spec
SYMMETRY Symmetry
CHECK_DEADLOCK FALSE
INVARIANTS WarmupsAreLocked LocalIndexIsHonest
PROPERTY ForcedReindexIsFresh
