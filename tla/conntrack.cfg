SPECIFICATION Spec
CONSTANTS
    f1 = f1
    f2 = f2
    cpu0 = cpu0
    cpu1 = cpu1
    Flow = {f1, f2}
    Cpu = {cpu0, cpu1}
    MaxFlows = 3
    MaxSegs = 5
    NoEntry = NoEntry
INVARIANTS TypeOK NoGhostFlow NoSpuriousDrop MirrorNamesState
SYMMETRY Symmetry
CHECK_DEADLOCK FALSE
