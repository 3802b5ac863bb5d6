CONSTANTS
    K = 3
    Programs <- NonlinearPrograms
    Inputs <- NonlinearInputs
    Envs <- SameEnvs
    Masks = {1, 6}

SPECIFICATION Spec

INVARIANT TypeOK
INVARIANT MsbCorrect
INVARIANT EqualCorrect
INVARIANT CallsMatch
