\* Two processes, up to three invocations and two edits
CONSTANTS
    None = None
    Procs = {p1, p2}
    FileOrder <- MCFileOrder
    Dir <- MCDir
    DirOrder <- MCDirOrder
    Contents <- MCContents
    InitFiles <- MCInitFiles
    Names <- MCNames
    Settings = {"x"}
    MaxEdits = 2
    MaxStarts = 3
SYMMETRY Symmetric
SPECIFICATION Spec
INVARIANTS
    FreshMacros
    DepsCovered
CHECK_DEADLOCK FALSE
