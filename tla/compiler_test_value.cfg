CONSTANTS
    Programs <- MCPrograms
    Arguments <- MCArguments
    Globals <- MCGlobals
    Compiled <- MCCompiled
    Locals <- MCLocals
    Operations = {}
SPECIFICATION Spec
INVARIANT AnyValueIsATest
