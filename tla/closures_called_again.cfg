SPECIFICATION Spec
CONSTANTS
    x = x
    y = y
    f = f
    g = g
    Symbols = {x, y, f, g}
    Programs <- MCPrograms
    MaxActivations = 3
    Operations = {"call again"}
INVARIANT FreshVariables
CHECK_DEADLOCK FALSE
