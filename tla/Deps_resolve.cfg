\* Three packages with three versions each, and lists of three specifiers
CONSTANTS
    Package <- Pkgs
    Available <- Versions
    Inputs <- AllInputs
    Names <- AllNames
SPECIFICATION Spec
INVARIANTS Sound ResolvesBest
PROPERTIES OnlyNarrows
