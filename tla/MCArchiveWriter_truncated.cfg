SPECIFICATION Spec
CONSTANTS
    MaxChunks = 5
    Block = 2
    Salts <- MCSalts
    Codes = {"0", "1", "other"}
INVARIANT SuccessIsComplete
\* One archive is written: the model stops there.
CHECK_DEADLOCK FALSE
