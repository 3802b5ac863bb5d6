CONSTANTS
    K = 2
    Programs <- FlowPrograms
    Inputs <- FlowInputs
    Masks = {1}
    OLEBatchSize = 1
    SquareSplit = 2
    BeaverBatch = 2

SPECIFICATION Spec

INVARIANT TypeOK
INVARIANT OutputCorrect
INVARIANT CallsMatch
INVARIANT ConnExclusive
PROPERTY AllCallsReturn
