CONSTANTS
    Programs <- MCPrograms
    Arguments <- MCArguments
    Globals <- MCGlobals
    Compiled <- MCCompiled
    Locals <- MCLocals
    Operations = {"let init"}
SPECIFICATION Spec
INVARIANT ResultIsValue
