SPECIFICATION Spec
CONSTANTS
    x = x
    y = y
    f = f
    g = g
    Symbols = {x, y, f, g}
    Programs <- MCPrograms
    MaxActivations = 3
    Operations = {}
INVARIANTS TypeOK ReadsMeanVariables OneStoragePerVariable
CHECK_DEADLOCK FALSE
