CONSTANT MaxAttempts = 2
SPECIFICATION FairSpec
INVARIANTS NeverTruncated NoUnhandledError
PROPERTIES ImplementsUpload JobSettles
CHECK_DEADLOCK FALSE
