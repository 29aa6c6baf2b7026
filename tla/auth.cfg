SPECIFICATION Spec
CONSTANTS
    None = None
    c1 = c1
    c2 = c2
    u1 = u1
    u2 = u2
    right = right
    wrong = wrong
    t1 = t1
    t2 = t2
    admin = admin
    guest = guest
    p1 = p1
    p2 = p2
    Perms = {p1, p2}
    Roles = {admin, guest}
    Checkers = {c1, c2}
    Clients = {c1, c2}
    Users = {u1, u2}
    Passes = {right, wrong}
    Tokens = {t1, t2}
    TokenRole <- MCTokenRole
    ClientSettings <- MCClientSettings
    NonceTimeout = 2
    MaxTime = 6
    Wrap = 100
    MaxNonces = 5
    Plans <- MCPlans
CHECK_DEADLOCK FALSE
INVARIANTS
    RolesHold
    NoncesLive
    OnlyEntitled
