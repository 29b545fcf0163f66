CONSTANTS
    Request = {q1}
SPECIFICATION Spec
SYMMETRY RequestSymmetry
INVARIANTS DrainHonoured
CHECK_DEADLOCK FALSE
