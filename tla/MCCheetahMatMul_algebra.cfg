CONSTANTS
    K = 2
    Programs <- AlgebraPrograms
    Inputs <- AlgebraInputs
    Masks = {1, 2}
    ShapeGarbage = {1, 2}

SPECIFICATION Spec

INVARIANT OutputCorrect
