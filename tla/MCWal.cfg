SPECIFICATION WalSpec

CONSTANTS
    Payloads = {2, 24, 30}
    SegmentSize = 40
    FlushEvery = 2
    SnapshotsKept = 1
    MaxRecords = 4
    MaxFaults = 2
    MaxSaves = 2

INVARIANTS FlushedRecordsKept RefusedOnlyOverLoss BootReadsTheWholeLog

CHECK_DEADLOCK FALSE
