SPECIFICATION MCSpec
CONSTANTS
    Subscribers = {s1, s2, s3}
    BufferSize = 2
    MaxEvents = 3
    Workers = {w1, w2, w3}
    Locales = {"da", "en"}
INVARIANTS StreamIsTail AnswersOwnLocales
PROPERTY NotifyReturns
CHECK_DEADLOCK FALSE
