SPECIFICATION Spec
CONSTANTS
    Tasks = {t1, t2}
    Names = {a, b}
    Keys = {k1, k2}
    Scenes <- MCScenes
    None = None
SYMMETRY Symmetry
INVARIANTS RegistryInv
PROPERTIES LiveKeyKeepsWorking
