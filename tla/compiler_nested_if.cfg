CONSTANTS
    Programs <- MCPrograms
    Arguments <- MCArguments
    Globals <- MCGlobals
    Compiled <- MCCompiled
    Locals <- MCLocals
    Operations = {"nested if"}
SPECIFICATION Spec
INVARIANT BranchesLand
