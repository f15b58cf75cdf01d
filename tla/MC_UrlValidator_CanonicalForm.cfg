CONSTANTS
    f1 = f1
    f2 = f2
    Prefix = Prefix
    Sentinel = Sentinel
    MetaSuffix = MetaSuffix
    Corrupt = Corrupt
    Unreadable = Unreadable
    None = None
    Chars <- MCChars
    LowerChar <- MCLower
    Files <- MCFiles
    PathInit <- MCPaths
    ContentInit <- MCContents
    BaseInit <- MCBases
    GivenInit <- MCGiven
    TestName = "test"
    FixturesName = "fixtures"
SPECIFICATION Spec
SYMMETRY MCSymmetry
INVARIANT CanonicalForm
