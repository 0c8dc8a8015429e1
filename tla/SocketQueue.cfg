CONSTANTS
    Connections = {c1, c2, c3, c4}
    Workers = {w1, w2}
    Listener = listener
    NoSocket = NoSocket
    Capacity = 2
    Backlog = 2
SPECIFICATION Spec
INVARIANTS TypeOK WorkConserving SingleOwner
PROPERTIES InArrivalOrder QueuedIsServed
