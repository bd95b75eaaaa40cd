\* every command over models, one of them ephemeral, and a test, two threads
CONSTANTS
    Node = {1, 2, 3, 4}
    Workers = {1, 2}
    Commands <- MCCommands
    Graphs <- MCGraphs
    Ephemeral = {2}
    Tests = {4}
SPECIFICATION FairSpec
INVARIANTS QueueBooks FailureReported
PROPERTIES  ImplementsDagRun Terminates
