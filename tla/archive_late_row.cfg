\* A sync-once commit crosses midnight beside the daemon.
SPECIFICATION Spec
CONSTANTS
    MaxDay = 1
    MaxRows = 2
    LastRows = 0
    MaxStarts = 1
    MaxWire = 1
    Retention = 1
    CliWindows = {1}
    Cli = {}
    Oneshot = {once1}
    Snapshots <- AnySnapshot
INVARIANTS
    ArchivedDayComplete
