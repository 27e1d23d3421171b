SPECIFICATION Spec
CONSTANTS
    Account = {1, 2}
    Proxy = {direct, proxied}
    Id = {1, 2}
    Feature = {1001, 1002}
    MaxStarts = 4
INVARIANTS
    MigrationIsAtomic
    RowsSound
    OpenedIsComplete
PROPERTIES
    LossIsCollision
    StartsOpen
