CONSTANTS
    Params <- AlgebraParams
    ElemBits = 3
    OTMasks = {0, 1}
    AndMasks = {0, 1}
SPECIFICATION Spec
INVARIANT NodeInvariant
PROPERTY AbsSpec
