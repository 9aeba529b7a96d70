SPECIFICATION Spec
CONSTANTS
    t1 = t1
    t2 = t2
    c1 = c1
    c2 = c2
    n1 = n1
    d1 = d1
    k1 = k1
    k2 = k2
    k3 = k3
    s0 = s0
    s1 = s1
    s2 = s2
    Turns = {t1, t2}
    Proposals = {c1, c2}
    Keys = {k1, k2, k3}
    Steps = {s0, s1, s2}
    Key <- MCKey
    StepOf <- MCStepOf
    Critical = {c1, c2}
    Denied = {}
    AdhocStep = s0
    FirstStep = s1
    MaxCrashes = 0
    None = None
SYMMETRY TurnSymmetry
VIEW WithoutSteps
INVARIANTS
    RequestedRunsAreAuthorised
    AttemptRowsMatchCalls
