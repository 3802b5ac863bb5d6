CONSTANTS
    K = 3
    Programs <- MsbNarrowPrograms
    Inputs <- NonlinearInputs
    Envs <- SameEnvs
    Masks = {1, 6}

SPECIFICATION Spec

INVARIANT MsbOneBit
