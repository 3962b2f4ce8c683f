\* The daemon alone, with crashes and failures until they stop.
SPECIFICATION FairSpec
CONSTANTS
    MaxDay = 2
    MaxRows = 2
    LastRows = 0
    MaxStarts = 1
    MaxWire = 1
    Retention = 2
    CliWindows = {2}
    Cli = {}
    Oneshot = {}
    Snapshots <- AnySnapshot
INVARIANTS
    ArchivedDayComplete
    RunLeavesNoGap
    MetaCoversArchive
PROPERTIES
    LaunchSafely
    HistoryRebuildable RunsEveryDay
