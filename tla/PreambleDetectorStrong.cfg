SPECIFICATION Spec
CONSTANTS
    Root = 2
    Places = 2
    Inputs <- MCInputs
    Words <- MCWords
    Threshold = 78
    Int16Max = 7
    Int32Max = 127
INVARIANTS StrongFound
