CONSTANTS
    K = 2
    Programs <- AlgebraPrograms
    Inputs <- AlgebraInputs
    Masks = {1, 2}
    OLEBatchSize = 1
    SquareSplit = 1
    BeaverBatch = 1

SPECIFICATION Spec

INVARIANT OutputCorrect
