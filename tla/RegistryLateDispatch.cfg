CONSTANTS
    Clients = {c1, c2}
    SlowClients = {c1}
    Tokens = {t1, t2}
    Windows = {w1, w2}
    Props = {p1}
    WsProps = {q1}
    NoToken = NoToken
    NoWindow = NoWindow
    NoClient = NoClient
    MaxBatch = 2
SPECIFICATION Spec
INVARIANTS
    WatchesTornDown
CHECK_DEADLOCK FALSE
