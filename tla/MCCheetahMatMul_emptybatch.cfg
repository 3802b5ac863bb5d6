CONSTANTS
    K = 2
    Programs <- EmptyBatchPrograms
    Inputs <- FixedInputs
    Masks = {1}
    ShapeGarbage = {1, 2}

SPECIFICATION Spec

INVARIANT OutputShape
