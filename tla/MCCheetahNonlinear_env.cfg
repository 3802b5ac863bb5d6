CONSTANTS
    K = 3
    Programs <- EqualAPPrograms
    Inputs <- NonlinearInputs
    Envs <- AnyEnvs
    Masks = {1, 6}

SPECIFICATION Spec

INVARIANT CallsMatch
