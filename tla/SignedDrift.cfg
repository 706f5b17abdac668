SPECIFICATION Spec
CHECK_DEADLOCK FALSE
CONSTANTS
    Creators = {c1, c2}
    Verifiers = {v1}
    Sealers = {s1}
    Budgets <- SideBySideOrFailing
    None = None
SYMMETRY CreatorSymmetry
INVARIANTS
    PublishedIsOfOneCapture
    VerifiedIsWhole
    CreatedStands
    VouchedForSealIsSigned
