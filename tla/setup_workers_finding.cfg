\* The same instance, every request a worker of its own.
SPECIFICATION Spec
CONSTANTS
    r1 = r1
    r2 = r2
    a1 = a1
    a2 = a2
    Requests = {r1, r2}
    Attempts = {a1, a2}
    N = 2
    Validated = {2}
    OneWorker = FALSE
    Nobody = Nobody
    Outsider = Outsider
SYMMETRY Symmetry
PROPERTY OnlyOwnArtifactsRemoved
