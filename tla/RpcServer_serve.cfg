\* deps, which may time out, a query, which may be killed or lose its child, and a
\* SIGHUP; the pipe holds all that is written
CONSTANTS
    r1 = r1
    r2 = r2
    Request = {r1, r2}
    Method <- DepsAndSql
    Kills = {r2}
    Timeouts = {r1}
    Crashes = {r2}
    MaxHups = 1
    MaxLogs = 1
    PipeSize = 2
SPECIFICATION FairSpec
INVARIANTS OneParser NoProcessLeft
PROPERTIES  Unblocks 
\* The server stays idle once the requests are served
CHECK_DEADLOCK FALSE
