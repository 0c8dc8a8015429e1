SPECIFICATION Spec
CONSTANTS
    Themes = {"hicolor", "oxygen", "base"}
    Hicolor = "hicolor"
    Missing = {"base,hicolor"}
    Icons = {"edit", "quit"}
    NDirs = 2
    ThemeDirs <- MCCircle
    PixmapSets <- MCPixmapSets
    Requests <- MCCircleRequests
    Workers = {w1}
    MaxVisits = 3
PROPERTY LookupReturns
CHECK_DEADLOCK FALSE
