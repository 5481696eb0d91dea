SPECIFICATION Spec
CONSTANTS
    Tasks = {t1, t2}
    Names = {a, b}
    Keys = {k1, k2}
    Scenes <- Overlap
    None = None
SYMMETRY Symmetry
INVARIANT RevokedIsDead
