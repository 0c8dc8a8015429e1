CONSTANTS
    Paths = {1, 2}
    Jsons = {j1, j2}
    Incomparable = {j2}
    NoJson = NoJson
    Clients = {c1}
    MaxRounds = 3
SPECIFICATION Spec
INVARIANT HandlerStaysMapped
CHECK_DEADLOCK FALSE
