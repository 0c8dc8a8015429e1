CONSTANTS
    Subscribers = {s1, s2}
    BufferSize = 2
    MaxEvents = 3
SPECIFICATION Spec
PROPERTY EitherWayDisconnected
CHECK_DEADLOCK FALSE
