CONSTANTS
    Params <- StructureParams
    ElemBits = 5
    OTMasks = {0}
    AndMasks = {0}
SPECIFICATION Spec
INVARIANT TypeOK
INVARIANT NodeInvariant
PROPERTY AbsSpec
