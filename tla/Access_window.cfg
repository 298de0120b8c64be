SPECIFICATION Spec
CONSTANTS
    People = {p1}
    Links = {l1, l2}
    JwtTtl = 0
    Skew = 1
    IframeTtl = 1
    CookieTtl = 1
    MaxTime = 4
    MaxJwts = 1
    MaxPages = 1
SYMMETRY Symmetric
INVARIANTS TypeOK EditsAreGranted
PROPERTIES ListWasAllowed SignInOnlyWhenNeeded
CHECK_DEADLOCK FALSE
