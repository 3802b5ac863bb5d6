CONSTANTS
    K = 3
    Programs <- ShapePrograms
    Inputs <- FixedInputs
    Masks = {1, 6}
    ShapeGarbage = {1, 2}

SPECIFICATION Spec

INVARIANT TypeOK
INVARIANT OutputShape
INVARIANT OutputCorrect
INVARIANT CallsMatch
INVARIANT KeysInitOnce
PROPERTY AllCallsReturn
PROPERTY AbsSpec
