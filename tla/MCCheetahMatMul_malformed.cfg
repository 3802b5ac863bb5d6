CONSTANTS
    K = 2
    Programs <- MalformedPrograms
    Inputs <- FixedInputs
    Masks = {1}
    ShapeGarbage = {1, 2}

SPECIFICATION Spec

INVARIANT MalformedAborts
