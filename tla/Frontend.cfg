SPECIFICATION Spec
CONSTANTS
    Token = {g, u1, u2}
    Guest = g
    u1 = u1
    u2 = u2
    None = None
    Document = {home, page}
    Home = home
    Authorizations <- AuthorizationsDef
    MaxNavigations = 1
    MaxEdits = 2
    MaxWrites = 2
    MaxLogins = 2
    MaxExpirations = 1
    MaxEvents = 4
INVARIANTS TypeOK OneWrite SavedTextBelongs SessionSettles
PROPERTIES TypedTextKept
SYMMETRY Authors
CHECK_DEADLOCK FALSE
