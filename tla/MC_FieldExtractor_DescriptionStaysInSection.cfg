CONSTANTS
    NL = NL
    SP = SP
    X = X
    H = H
    D = D
    Q = Q
    KT = KT
    KS = KS
    KC = KC
    None = None
    Docs <- MCLongDocs
SPECIFICATION Spec
INVARIANT DescriptionStaysInSection
