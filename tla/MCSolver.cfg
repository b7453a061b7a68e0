SPECIFICATION LiveSpec
CONSTANTS
    c1 = c1
    c2 = c2
    a1 = a1
    n1 = n1
    zero = zero
    Challenges = {c1, c2}
    Addresses = {a1}
    Targets <- MCTargets
    Nonces = {n1}
    Zeros = zero
    Keccak <- MCKeccak
INVARIANTS
    TypeOK
    FreshUnlessCrossed
    UsesCurrentValues
    HitIsCurrent
PROPERTIES
    Converges
