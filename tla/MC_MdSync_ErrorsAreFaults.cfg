CONSTANTS
    d1 = d1
    d2 = d2
    None = None
    Corrupt = Corrupt
    Unreadable = Unreadable
    Docs <- MCDocs
    Fields <- MCFields
    Values <- MCValues
    DocInit <- MCDocInit
    MetaInit <- MCMetaInit
    PosInit <- MCPosInit
    Md = Md
    RulesSeg <- MCRules
    DocPaths <- MCDocPaths
    HasMeta <- MCHasMeta
    HasPos <- MCHasPos
    CI = TRUE
    MaxRuns = 2
    MaxCrashes = 1
    MaxWriteFails = 0
SPECIFICATION Spec
SYMMETRY MCSymmetry
INVARIANT ErrorsAreFaults
