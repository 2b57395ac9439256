CONSTANTS
    Clients = {c1}
    Tokens = {t1, t2}
    Windows = {w1}
    NoClaim = NoClaim
    Desktops = {d1, d2}
    Activities = {a1, a2}
    WindowProps = {"desktops", "onAllDesktops"}
    WorkspaceProps = {"currentDesktop", "currentActivity"}
SPECIFICATION Spec
INVARIANTS
    IdsExist
    WatchersKnow
SYMMETRY Symmetry
CHECK_DEADLOCK FALSE
