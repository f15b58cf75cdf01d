CONSTANTS
    Prefix = Prefix
    Sentinel = Sentinel
    MetaSuffix = MetaSuffix
    Corrupt = Corrupt
    Unreadable = Unreadable
    TestDir = TestDir
    Chars <- MCChars
    LowerChar <- MCLower
    LayoutInit <- MCLayouts
    Platforms <- MCPlatforms
    InputPrefix <- MCInputPrefix
    MetaInit <- MCMetaInit
SPECIFICATION Spec
INVARIANTS
    TypeOK
    RewrittenRecordsValidate
