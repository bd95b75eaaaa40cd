\* Four tasks, two requests at a time
CONSTANTS
    Task = {t1, t2, t3, t4}
    Settings <- SomeSettings
    Default <- Wide
    MaxTime = 6
    MaxRequests = 2
SPECIFICATION Spec
PROPERTIES TableBounded
SYMMETRY Symmetry
