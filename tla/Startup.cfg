CONSTANTS
    c1 = c1
    c2 = c2
    p1 = p1
    d1 = d1
    d2 = d2
    Clients = {c1, c2}
    Probers = {p1}
    Daemons = {d1, d2}
    Nobody = Nobody
SPECIFICATION FairSpec
INVARIANTS
    OneDaemon
    StateOfServing
PROPERTY ClientsEnd
CHECK_DEADLOCK FALSE
