SPECIFICATION Spec
CONSTANTS
    Handlers = {h1, h2}
    Users = {u1, u2, u3}
    Teams = {t1, t2}
    None = None
    MaxInvites = 1
SYMMETRY Symmetry
CHECK_DEADLOCK FALSE
INVARIANTS
    TypeOK
    LeaderIsMember
    DeletedLeft
PROPERTIES
    Succession
