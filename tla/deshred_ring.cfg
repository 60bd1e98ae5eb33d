SPECIFICATION Spec
CONSTANTS
    Slots = {1, 3}
    HistorySize = 2
    MaxIndex = 3
    CodeIndexes = {0}
    Variants = {"a"}
    Layout <- HonestLayout
    FecOf <- ShortSets
    Undecodable <- BadSets
    MaxAttempts = 3
    Missing = "missing"
    Emitted = "emitted"
INVARIANTS TypeOK FinishedIsComplete
PROPERTIES OrderIndependent EmittedOnce
