SPECIFICATION FairHandlers
CONSTANTS
    Desktop = desktop
    Devices = {d1, d2}
    TTL = 1
    Nobody = nobody
    Tasks = {t1}
    Idle = idle
PROPERTY DesktopGetsItBack
