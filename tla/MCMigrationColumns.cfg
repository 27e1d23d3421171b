SPECIFICATION Spec
CONSTANTS
    Account = {1}
    Proxy = {direct}
    Id = {1, 2}
    Feature = {1001}
    MaxStarts = 2
INVARIANTS
    OpenedDatabaseServes
