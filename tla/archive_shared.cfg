\* sync-archive and sync-once run beside the daemon on the same database.
SPECIFICATION Spec
CONSTANTS
    MaxDay = 2
    MaxRows = 1
    LastRows = 0
    MaxStarts = 0
    MaxWire = 1
    Retention = 2
    CliWindows = {1}
    Cli = {cli}
    Oneshot = {once1}
    Snapshots <- WholeOrNone
INVARIANTS
    OnlyClosedDaysStored
    ScannedDaysStored
