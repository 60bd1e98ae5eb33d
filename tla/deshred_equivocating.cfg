SPECIFICATION Spec
CONSTANTS
    Slots = {1}
    HistorySize = 1
    MaxIndex = 3
    CodeIndexes = {0, 1}
    Variants = {"a", "b"}
    Layout <- EquivocatingLayout
    FecOf <- Triples
    Undecodable <- BadSets
    MaxAttempts = 3
    Missing = "missing"
    Emitted = "emitted"
INVARIANTS EmittedAccounting NoCompleteSetHeld NoIdleCoding
