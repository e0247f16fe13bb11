CONSTANTS
    StackSize = 14
    Procedures = {1, 2, 3}
    NumArgs <- MCNumArgs
    NumLocals <- MCNumLocals
    EnvOf <- MCEnvOf
    SpecialArgs = {0, 1, 2}
    Offsets = {1}
    Values = {0, 1}
    MaxTemps = 3
    MaxRuns = 2
    Operations = {"applyClosure"}
SPECIFICATION Spec
VIEW View
CHECK_DEADLOCK FALSE
INVARIANT OwnEnvironment
