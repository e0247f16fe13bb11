SPECIFICATION Spec
SYMMETRY Symmetry
CONSTANTS
    cons = cons
    vector = vector
    h1 = h1
    h2 = h2
    h3 = h3
    Symbols = {cons, vector, h1, h2, h3}
    Builtins <- MCBuiltins
    NumEntries = 2
    Values = {"v"}
    MaxEnvironments = 2
    MaxFragments = 3
    Operations = {}
    Unbound = "unbound"
INVARIANTS
    TypeOK
    TablesAreCompact
PROPERTIES
    ImplementsScopes
