SPECIFICATION MCFairSpec
CONSTANTS
    Devices = {d1}
    Tasks = {t1, t2}
    Kinds = {"projects", "terminals"}
    Nobody = nobody
    Capacity = 1
    MaxContent = 2
    MaxDrops = 1
    MaxLink = 2
INVARIANTS
    QuietIsCurrent
PROPERTY ConnectedConverges
