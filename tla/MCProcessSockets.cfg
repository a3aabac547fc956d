SPECIFICATION Spec
CONSTANTS
    v4 = v4
    v6 = v6
    NoSocket = NoSocket
    Nobody = Nobody
    Pids = {9, 10}
    DirRank <- ByName
    Fds = {1, 2}
    Sockets = {v4, v6}
    Tcp6 = {v6}
    Port <- SamePort
    MaxChanges = 2
INVARIANTS TypeOK OnlyHolders SteadyHolderFound SoleHolderListed QuietHostExact
