CONSTANTS
    K = 8
    OTMasks = {0}
    AndMasks = {0, 1}
    Vals = {0, 1, 15, 16, 127, 128, 129, 255}
    NBits = {0, 5}
SPECIFICATION Spec
INVARIANT MsbCorrect
