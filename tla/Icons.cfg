SPECIFICATION MCSpec
CONSTANTS
    Themes = {"hicolor", "oxygen", "base"}
    Hicolor = "hicolor"
    Missing = {"base,hicolor"}
    Icons = {"edit", "quit"}
    NDirs = 2
    ThemeDirs <- MCThemeDirs
    PixmapSets <- MCPixmapSets
    Requests <- MCRequests
    Workers = {w1, w2}
    MaxVisits = 3
    Windows = {1, 2}
    Looks <- MCLooks
    WindowIcons = {"gimp", "vim"}
    Images <- MCImages
    Hash <- MCHash
    Wanted <- MCWanted
    Half = 128
    Wrap = 65536
    MaxWindowChanges = 3
    MaxStarts = 2
INVARIANTS TypeOK AnswerIsClosest ParentsLeadToHicolor IconsBeforeWindows
PROPERTIES ClosestIconIsSent LookupEnds WindowsCatchUp
CHECK_DEADLOCK FALSE
