CONSTANTS
    h1 = h1
    h2 = h2
    fa = fa
    fb = fb
    Helpers = {h1, h2}
    Fields = {fa, fb}
    Modulus = 8
    MaxCreates = 3
SYMMETRY Symmetry
SPECIFICATION Spec
INVARIANT IInv
INVARIANT ReadsOneIncarnation
PROPERTY DecidesOnce
CHECK_DEADLOCK FALSE
