CONSTANTS
    Keys = {1, 2, 3}
    Values = {a, b}
    Nothing = Nothing
    MaxLength = 4
SPECIFICATION Spec
INVARIANTS Sorted SearchReturns
PROPERTIES SearchEnds IsDictionary
