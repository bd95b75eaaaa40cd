\* deps is killed
CONSTANTS
    r1 = r1
    r2 = r2
    Request = {r1}
    Method <- OneDeps
    Kills = {r1}
    Timeouts = {}
    Crashes = {}
    MaxHups = 0
    MaxLogs = 0
    PipeSize = 1
SPECIFICATION FairSpec
PROPERTIES Unblocks
\* The server stays idle once the requests are served
CHECK_DEADLOCK FALSE
