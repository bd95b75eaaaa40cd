\* dbt run --fail-fast with one model
CONSTANTS
    Node = {1}
    Workers = {1}
    Commands <- RunFailFast
    Graphs <- MCGraphs
    Ephemeral = {}
    Tests = {}
SPECIFICATION FairSpec
PROPERTIES GoesOnWhenComplete
