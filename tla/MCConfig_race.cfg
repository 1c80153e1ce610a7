CONSTANTS
    t1 = t1
    t2 = t2
    Threads <- TwoThreads
    Values <- MCValues
    Default = 0
    MaxListeners = 2
    Names <- MCNames
    Types <- MCTypes
    VarName <- MCVarName
    VarType = "int"
    Documents <- MCDocuments
    Lowercase <- MCLowercase
SPECIFICATION Spec
INVARIANT ListenersAgree
