SPECIFICATION Spec
CONSTANTS
    Acceptors = {a}
    Clients = {c}
    Senders = {s}
    Datagrams = {u}
    Terms = {t}
    Remotes = {r1, r2}
    Fds = {f1, f2, f3}
    NoFd = NoFd
    NDebug = FALSE
    None = None
    MaxPending = 2
    Applications = {{a, s}, {a, c, u, t}}
SYMMETRY Symmetry
INVARIANTS OwnFile NothingLost WatchedReady TermSettled
\* A failed assertion ends the process.
CHECK_DEADLOCK FALSE
