\* Two sensors, the default threshold and two that sensors confirm.
CONSTANTS
    Addr = {1, 2}
    Threshold = {40, 50, 100}
    DefaultThreshold = 100
    NoSave = NoSave
SPECIFICATION Spec
INVARIANTS DefaultMeansUnconfirmed
PROPERTIES SavesAreAtomic KeptIsSaved
