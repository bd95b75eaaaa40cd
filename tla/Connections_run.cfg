\* Two workers, two nodes, every ending
CONSTANTS
    Main = main
    Worker = {w1, w2}
    Nodes = 2
    Endings = {"finish", "cancel", "raise"}
SPECIFICATION Spec
INVARIANTS  WaitsForRunners 
