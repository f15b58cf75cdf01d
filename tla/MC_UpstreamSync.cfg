CONSTANTS
    f1 = f1
    f2 = f2
    Files <- MCFiles
    Absent = Absent
    Empty = Empty
    Blank = Blank
    Text1 = Text1
    Text2 = Text2
    Zero = Zero
    None = None
    Unreadable = Unreadable
    LocalInit <- MCLocalInit
    UpInit <- MCUpInit
    Names <- MCNames
    Mentions <- MCMentions
    Limits <- MCLimits
    MaxRuns = 2
SPECIFICATION Spec
INVARIANTS
    TypeOK
    SummaryIsTruthful
PROPERTIES
    GapFillSpec
