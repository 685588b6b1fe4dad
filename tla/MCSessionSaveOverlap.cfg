SPECIFICATION FileSpec
CONSTANTS
    Saver = {s1, b1}
    Background = {b1}
    MaxVersion = 3
    PersistRetries = 1
    Redacting = FALSE
INVARIANT FileIsWhole
