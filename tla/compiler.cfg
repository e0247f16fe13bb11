CONSTANTS
    Programs <- MCPrograms
    Arguments <- MCArguments
    Globals <- MCGlobals
    Compiled <- MCCompiled
    Locals <- MCLocals
    Operations = {}
SPECIFICATION Spec
INVARIANTS TypeOK ResultIsValue BranchesLand LocalsReserved ProperTailCalls
PROPERTIES StepsForward ImplementsListing
